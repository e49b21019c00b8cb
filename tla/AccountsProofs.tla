---------------------------- MODULE AccountsProofs ----------------------------
(***************************************************************************)
(* Proofs about Accounts, for every set of users, calls and codes: who is  *)
(* told that an account was created or a session revoked, one provider     *)
(* profile for each user, rows of an account that agree, and no circle of  *)
(* calls that wait for each other.                                         *)
(***************************************************************************)
EXTENDS Accounts, FiniteSetTheorems, TLAPS

\* A session is that of a user from before, or of a sign-in.
Setting == Users \cap Calls = {} /\ "none" \notin Users \cup Calls

----------------------------------------------------------------------------
(* The inductive invariant. *)

\* Two transactions never hold the same key for themselves.
Sole ==
    \A l, m \in locks : l.key = m.key /\ l.mode = "OWN" /\ m.mode = "OWN" => l.call = m.call

\* Which steps belong to which operation, and what its request is about.
Flow(c) ==
    /\ step[c] = "idle" => request[c].op = "none" /\ seen[c] = Unread
    /\ step[c] \in {"exchange", "insert account", "read status", "insert session"} =>
         request[c].op = "signIn"
    /\ step[c] \in {"exchange", "insert account", "read status"} => ~seen[c].created
    /\ step[c] = "lock account" => request[c].op = "profile"
    /\ step[c] \in {"find provider", "grant role"} => request[c].op = "selfProvider"
    /\ step[c] = "find role" => request[c].op = "provider"
    /\ step[c] = "insert provider" => request[c].op \in {"selfProvider", "provider"}
    /\ step[c] \in {"own provider", "lock provider", "upsert"} => request[c].op = "services"
    /\ step[c] = "read" => request[c].op = "me"
    /\ step[c] = "lock session" => request[c].op = "signOut"
    /\ step[c] # "idle" => request[c].op # "none" /\ UserOf(c) \in Users
    /\ request[c].op = "signIn" => request[c].session = c
    /\ request[c].op = "signOut" => request[c].session \in Sessions
    /\ seen[c].created => request[c].op = "signIn"

\* A row that exists stays, so what a request has met it keeps meeting.
Exists(u) == account[u] # "NONE"
Met(c) ==
    /\ request[c].op \notin {"none", "signIn"} => Exists(UserOf(c))
    /\ step[c] = "read status" => Exists(UserOf(c))
    /\ step[c] \in {"insert session", "commit"} /\ request[c].op = "signIn" /\ ~seen[c].created
         => Exists(UserOf(c))
    /\ session[c] # "NONE" => step[c] = "done" /\ request[c].op = "signIn" /\ Exists(UserOf(c))

\* The key c has inserted, or the row it has locked for itself.
Holds(c, key) == Lock(c, key, "OWN") \in locks

\* A sign-in that has inserted the account holds its mailbox until it is there;
\* who created an account has no session from before it.
Creates(c) ==
    /\ step[c] \in {"insert session", "commit"} /\ seen[c].created =>
         Holds(c, <<"email", UserOf(c)>>) /\ ~Exists(UserOf(c))
    /\ answer[c] = "created" =>
         request[c].op = "signIn" /\ Exists(UserOf(c)) /\ session[UserOf(c)] = "NONE"

\* A sign-out that has found its session live holds it.
Revokes(c) ==
    /\ step[c] = "commit" /\ request[c].op = "signOut" =>
         Holds(c, <<"session", request[c].session>>) /\ session[request[c].session] = "LIVE"
    /\ answer[c] = "revoked" =>
         request[c].op = "signOut" /\ session[request[c].session] = "REVOKED"

\* Who asks for a provider profile has a citizen profile, unless an account was
\* seeded, and who is about to commit one holds its key.
Provider == {"selfProvider", "provider"}
Claimant(c) ==
    /\ request[c].op = "selfProvider" /\ UserOf(c) \notin SeededUsers => profile[UserOf(c)]
    /\ request[c].op = "provider" /\ step[c] \in {"insert provider", "commit"}
         /\ UserOf(c) \notin SeededUsers => profile[UserOf(c)]
    /\ step[c] = "commit" /\ request[c].op \in Provider =>
         Holds(c, <<"provider", UserOf(c)>>) /\ provider[UserOf(c)] = {}

\* GET /v1/me that has met an active account reads its profile.
Reading(c) ==
    /\ request[c].op = "me" /\ UserOf(c) \notin SeededUsers /\ seen[c].status = "ACTIVE" =>
         profile[UserOf(c)] /\ ("profile" \in seen[c].read => seen[c].profile)
    /\ answer[c] = "me" => request[c].op = "me" /\ "profile" \in seen[c].read

Call(c) == Flow(c) /\ Met(c) /\ Creates(c) /\ Revokes(c) /\ Claimant(c) /\ Reading(c)

\* The rows of a user.
Agree(u) ==
    /\ profile[u] => account[u] = "ACTIVE"
    /\ u \notin SeededUsers =>
         /\ account[u] = "ACTIVE" => profile[u]
         /\ "PROVIDER" \in roles[u] => profile[u]
    /\ session[u] # "NONE" => Exists(u)
    /\ \A p, q \in provider[u] : p = q
    /\ provider[u] # {} => "PROVIDER" \in roles[u]

\* What two calls cannot both have been told.
Apart(c, d) ==
    /\ answer[c] = "created" /\ answer[d] = "created" => UserOf(c) # UserOf(d)
    /\ answer[c] = "revoked" /\ answer[d] = "revoked" => request[c].session # request[d].session

IInv ==
    /\ TypeOK /\ Sole
    /\ \A u \in Users : Agree(u)
    /\ \A c \in Calls : Call(c) /\ \A d \in Calls \ {c} : Apart(c, d)

----------------------------------------------------------------------------
(* What a step changes, call by call. *)

Others(c) ==
    \A d \in Calls \ {c} :
        /\ request'[d] = request[d] /\ step'[d] = step[d]
        /\ seen'[d] = seen[d] /\ answer'[d] = answer[d]
        /\ \A key : Holds(d, key)' <=> Holds(d, key)

\* A call starts with a request its actor may make.
Arrives(c) ==
    /\ step[c] = "idle" /\ UNCHANGED rows /\ answer'[c] = answer[c]
    /\ seen'[c].created = seen[c].created /\ seen'[c].read = seen[c].read
    /\ seen'[c].status = account[UserOf(c)']
    /\ UserOf(c)' \in Users
    /\ \/ request'[c].op = "signIn" /\ step'[c] = "exchange" /\ request'[c].session = c
       \/ /\ Exists(UserOf(c)')
          /\ \/ request'[c].op = "profile" /\ step'[c] = "lock account"
             \/ /\ request'[c].op = "selfProvider" /\ step'[c] = "find provider"
                /\ account[UserOf(c)'] = "ACTIVE"
             \/ request'[c].op = "provider" /\ step'[c] = "find role"
             \/ request'[c].op = "services" /\ step'[c] = "own provider"
             \/ request'[c].op = "me" /\ step'[c] = "read"
             \/ /\ request'[c].op = "signOut" /\ step'[c] = "lock session"
                /\ request'[c].session \in Sessions

\* A transaction ends: refused or lost, its rows are as they were.
Ends(c, what) == step'[c] = "done" /\ answer'[c] = what /\ request'[c] = request[c]
Refused(c) ==
    /\ step[c] \notin {"idle", "done"} /\ seen'[c] = seen[c] /\ UNCHANGED rows
    /\ \E what : Ends(c, what) /\ what \notin {"none", "created", "revoked", "me"}

\* A statement succeeds and its transaction goes on, with the locks it had.
Goes(c, from, to) ==
    /\ step[c] = from /\ step'[c] = to /\ request'[c] = request[c] /\ answer'[c] = answer[c]
    /\ UNCHANGED rows /\ \A key : Holds(c, key) => Holds(c, key)'
Quiet(c) ==
    /\ seen'[c] = seen[c]
    /\ \/ Goes(c, "exchange", "insert account") \/ Goes(c, "lock account", "commit")
       \/ Goes(c, "find provider", "grant role") \/ Goes(c, "grant role", "insert provider")
       \/ Goes(c, "own provider", "lock provider") \/ Goes(c, "lock provider", "upsert")
Inserts(c) ==
    /\ Goes(c, "insert account", "insert session") /\ ~Exists(UserOf(c))
    /\ Holds(c, <<"email", UserOf(c)>>)' /\ seen'[c].created
Finds(c) == Goes(c, "insert account", "read status") /\ Exists(UserOf(c)) /\ seen'[c] = seen[c]
Reads(c) == Goes(c, "read status", "insert session") /\ seen'[c].created = seen[c].created
Passes(c) == Goes(c, "insert session", "commit") /\ seen'[c] = seen[c]
HasRole(c) ==
    Goes(c, "find role", "insert provider") /\ "PROVIDER" \in roles[UserOf(c)] /\ seen'[c] = seen[c]
Claims(c) ==
    /\ Goes(c, "insert provider", "commit") /\ provider[UserOf(c)] = {}
    /\ Holds(c, <<"provider", UserOf(c)>>)' /\ seen'[c] = seen[c]
Upserts(c) ==
    /\ Goes(c, "upsert", "upsert") \/ Goes(c, "upsert", "commit")
    /\ seen'[c].created = seen[c].created
\* One part of the answer of GET /v1/me, and the last part.
Sees(c) ==
    /\ step[c] = "read" /\ seen'[c].created = seen[c].created /\ seen'[c].status = seen[c].status
    /\ "profile" \in seen'[c].read =>
         \/ "profile" \in seen[c].read /\ seen'[c].profile = seen[c].profile
         \/ seen'[c].profile = profile[UserOf(c)]
Looks(c) == Goes(c, "read", "read") /\ Sees(c)
Answers(c) == Sees(c) /\ Ends(c, "me") /\ "profile" \in seen'[c].read /\ UNCHANGED rows
LocksSession(c) ==
    /\ Goes(c, "lock session", "commit") /\ session[request[c].session] = "LIVE"
    /\ Holds(c, <<"session", request[c].session>>)' /\ seen'[c] = seen[c]

\* COMMIT: which rows it changes, and how.
Commits(c, op, what) ==
    step[c] = "commit" /\ request[c].op = op /\ Ends(c, what) /\ seen'[c] = seen[c]
SignsIn(c) ==
    /\ Commits(c, "signIn", IF seen[c].created THEN "created" ELSE "existing")
    /\ \A u \in Users : account'[u] =
         IF u = UserOf(c) /\ seen[c].created THEN "PENDING_PROFILE" ELSE account[u]
    /\ \A u \in Users : "PROVIDER" \in roles'[u] <=> "PROVIDER" \in roles[u]
    /\ \A s \in Sessions : session'[s] = IF s = c THEN "LIVE" ELSE session[s]
    /\ UNCHANGED <<profile, provider>>
Completes(c) ==
    /\ Commits(c, "profile", "profileCompleted")
    /\ \A u \in Users : profile'[u] <=> u = UserOf(c) \/ profile[u]
    /\ \A u \in Users : account'[u] =
         IF u = UserOf(c) /\ account[u] = "PENDING_PROFILE" THEN "ACTIVE" ELSE account[u]
    /\ UNCHANGED <<roles, provider, session>>
Provides(c) ==
    /\ \/ Commits(c, "selfProvider", "provider created")
       \/ Commits(c, "provider", "provider created")
    /\ \A u \in Users : provider'[u] = IF u = UserOf(c) THEN provider[u] \cup {c} ELSE provider[u]
    /\ \A u \in Users : "PROVIDER" \in roles'[u] <=> u = UserOf(c) \/ "PROVIDER" \in roles[u]
    /\ UNCHANGED <<account, profile, session>>
SignsOut(c) ==
    /\ Commits(c, "signOut", "revoked")
    /\ \A s \in Sessions : session'[s] = IF s = request[c].session THEN "REVOKED" ELSE session[s]
    /\ UNCHANGED <<account, roles, profile, provider>>
Serves(c) == Commits(c, "services", "added") /\ UNCHANGED rows

Acts(c) ==
    \/ Arrives(c) \/ Refused(c) \/ Quiet(c) \/ Inserts(c) \/ Finds(c) \/ Reads(c) \/ Passes(c)
    \/ HasRole(c) \/ Claims(c) \/ Upserts(c) \/ Looks(c) \/ Answers(c) \/ LocksSession(c)
    \/ SignsIn(c) \/ Completes(c) \/ Provides(c) \/ SignsOut(c) \/ Serves(c)

----------------------------------------------------------------------------
(* Every part of the invariant is preserved. *)

\* Nobody else holds a key that a call holds.
LEMMA OneHolder ==
    ASSUME Sole, NEW c \in Calls, NEW d \in Calls, NEW key, Holds(c, key), Holds(d, key)
    PROVE  c = d
BY DEF Sole, Holds, Lock

\* The steps that change rows.
Writes(c) == SignsIn(c) \/ Completes(c) \/ Provides(c) \/ SignsOut(c)
LEMMA Writers == ASSUME NEW c \in Calls, Acts(c) PROVE Writes(c) \/ UNCHANGED rows
BY DEF Acts, Writes, Arrives, Refused, Quiet, Inserts, Finds, Reads, Passes, HasRole, Claims,
       Upserts, Looks, Answers, LocksSession, Goes, Serves

\* A call is not disturbed by the steps of another one.
LEMMA OtherStep ==
    ASSUME Setting, IInv, NEW c \in Calls, Acts(c), Others(c), NEW d \in Calls, d # c
    PROVE  Call(d)'
<1>1. /\ request'[d] = request[d] /\ step'[d] = step[d] /\ seen'[d] = seen[d] /\ answer'[d] = answer[d]
      /\ \A key : Holds(d, key)' <=> Holds(d, key)
  BY DEF Others
<1>2. Call(d) /\ Call(c) /\ Sole
  BY DEF IInv
<1>3. /\ step[d] # "idle" => UserOf(d) \in Users
      /\ step[c] # "idle" => UserOf(c) \in Users
  BY <1>2 DEF Call, Flow
<1> USE <1>1, <1>2, <1>3 DEF Call, Flow, UserOf, Exists, Sessions, Ends, Commits
<1>4. CASE UNCHANGED rows
  <2> USE <1>4 DEF rows
  <2>1. Met(d)'
    BY DEF Met
  <2>2. Creates(d)' /\ Revokes(d)'
    BY DEF Creates, Revokes
  <2>3. Claimant(d)'
    BY DEF Claimant
  <2>4. Reading(d)'
    BY DEF Reading
  <2> QED BY <2>1, <2>2, <2>3, <2>4
<1>5. CASE SignsIn(c)
  <2> USE <1>5 DEF SignsIn
  <2>1. seen[c].created => Holds(c, <<"email", UserOf(c)>>) /\ ~Exists(UserOf(c))
    BY DEF Creates
  <2>2. session[c] = "NONE"
    BY DEF Met
  <2>3. Met(d)'
    BY DEF Met
  <2>6. Claimant(d)' /\ Reading(d)'
    BY DEF Claimant, Reading
  <2>4. Creates(d)'
    <3>1. seen[c].created /\ Holds(d, <<"email", UserOf(d)>>) => UserOf(c) # UserOf(d)
      BY <2>1, OneHolder
    <3>2. UserOf(d) \in Users => session'[UserOf(d)] = session[UserOf(d)]
      BY DEF Setting
    <3>3. answer[d] # "none" => UserOf(d) \in Users
      BY DEF IInv, TypeOK
    <3> QED BY <3>1, <3>2, <3>3 DEF Creates
  <2>5. Revokes(d)'
    BY <2>2 DEF Revokes
  <2> QED BY <2>3, <2>4, <2>5, <2>6
<1>6. CASE Completes(c)
  <2> USE <1>6 DEF Completes
  <2>1. \A u \in Users : Exists(u)' <=> Exists(u)
    OBVIOUS
  <2>2. Met(d)'
    BY <2>1 DEF Met
  <2>3. Creates(d)'
    BY <2>1 DEF Creates
  <2>4. Revokes(d)'
    BY DEF Revokes
  <2>5. Claimant(d)'
    BY DEF Claimant
  <2>6. Reading(d)'
    BY DEF Reading
  <2> QED BY <2>2, <2>3, <2>4, <2>5, <2>6
<1>7. CASE Provides(c)
  <2> USE <1>7 DEF Provides
  <2>1. Holds(c, <<"provider", UserOf(c)>>)
    BY DEF Claimant, Provider
  <2>2. Holds(d, <<"provider", UserOf(d)>>) => UserOf(c) # UserOf(d)
    BY <2>1, OneHolder
  <2>3. Claimant(d)'
    BY <2>2 DEF Claimant, Provider
  <2>4. Met(d)'
    BY DEF Met
  <2>5. Creates(d)'
    BY DEF Creates
  <2>6. Revokes(d)' /\ Reading(d)'
    BY DEF Revokes, Reading
  <2> QED BY <2>3, <2>4, <2>5, <2>6
<1>8. CASE SignsOut(c)
  <2> USE <1>8 DEF SignsOut
  <2>1. Holds(c, <<"session", request[c].session>>) /\ session[request[c].session] = "LIVE"
    BY DEF Revokes
  <2>2. Holds(d, <<"session", request[d].session>>) => request[c].session # request[d].session
    BY <2>1, OneHolder
  <2>3. Met(d)' /\ Creates(d)'
    BY <2>1 DEF Met, Creates
  <2>4. Revokes(d)'
    BY <2>2 DEF Revokes
  <2> QED BY <2>3, <2>4 DEF Claimant, Reading
<1> QED BY <1>4, <1>5, <1>6, <1>7, <1>8, Writers DEF Writes

\* A call keeps its part of the invariant by its own steps.
LEMMA OwnStep ==
    ASSUME Setting, IInv, NEW c \in Calls, Acts(c), Others(c)
    PROVE  Call(c)'
<1>1. Call(c) /\ \A u \in Users : Agree(u)
  BY DEF IInv
<1>2. step[c] # "idle" => UserOf(c) \in Users /\ Agree(UserOf(c))
  BY <1>1 DEF Call, Flow
<1> USE <1>1, <1>2 DEF Call, Flow, UserOf, Exists, Sessions
<1>3. CASE Arrives(c)
  <2>1. Flow(c)'
    BY <1>3 DEF Arrives, Unread
  <2>2. Agree(UserOf(c)')
    BY <1>3 DEF Arrives
  <2>3. Met(c)' /\ Creates(c)' /\ Revokes(c)' /\ Claimant(c)'
    BY <1>3, <2>2 DEF Arrives, rows, Met, Creates, Revokes, Claimant, Provider, Agree
  <2>4. Reading(c)'
    <3>6. Unread.read = {}
      BY DEF Unread
    <3>7. seen[c] = Unread
      BY <1>3 DEF Arrives
    <3>5. seen[c].read = {}
      BY <3>6, <3>7
    <3>1. seen'[c].read = {}
      BY <1>3, <3>5 DEF Arrives
    <3>3. answer'[c] # "me"
      BY <1>3 DEF Arrives, Reading
    <3>4. profile' = profile
      BY <1>3 DEF Arrives, rows
    <3>2. UserOf(c)' \notin SeededUsers /\ seen'[c].status = "ACTIVE" => profile[UserOf(c)']
      BY <1>3, <2>2 DEF Arrives, Agree
    <3> QED BY <3>1, <3>2, <3>3, <3>4 DEF Reading
  <2> QED BY <2>1, <2>3, <2>4
<1>4. CASE Refused(c)
  BY <1>4 DEF Refused, Ends, rows, Met, Creates, Revokes, Claimant, Reading
<1>5. CASE Quiet(c)
  BY <1>5 DEF Quiet, Goes, rows, Met, Creates, Revokes, Claimant, Reading, Provider
<1>6. CASE Inserts(c)
  BY <1>6 DEF Inserts, Goes, rows, Met, Creates, Revokes, Claimant, Reading
<1>7. CASE Finds(c)
  BY <1>7 DEF Finds, Goes, rows, Met, Creates, Revokes, Claimant, Reading
<1>8. CASE Reads(c)
  <2>4. request[c].op = "signIn" /\ seen'[c].created = seen[c].created /\ Exists(UserOf(c))
    BY <1>8 DEF Reads, Goes, Met
  <2>5. step'[c] = "insert session" /\ request'[c] = request[c] /\ answer'[c] = answer[c]
        /\ account' = account /\ session' = session /\ profile' = profile /\ provider' = provider
    BY <1>8 DEF Reads, Goes, rows
  <2>6. Met(c)' /\ ~seen[c].created
    BY <1>8, <2>4, <2>5 DEF Reads, Goes, Met
  <2>7. Creates(c)'
    BY <2>4, <2>5, <2>6 DEF Creates
  <2>1. Met(c)' /\ Creates(c)' /\ Revokes(c)' /\ Claimant(c)'
    BY <2>4, <2>5, <2>6, <2>7 DEF Revokes, Claimant
  <2>2. Reading(c)'
    BY <1>8 DEF Reads, Goes, Reading
  <2>3. Flow(c)'
    BY <1>8 DEF Reads, Goes
  <2> QED BY <2>1, <2>2, <2>3
<1>9. CASE Passes(c)
  BY <1>9 DEF Passes, Goes, rows, Met, Creates, Revokes, Claimant, Reading, Provider
<1>10. CASE HasRole(c)
  BY <1>10 DEF HasRole, Goes, rows, Met, Creates, Revokes, Claimant, Reading, Provider, Agree
<1>11. CASE Claims(c)
  BY <1>11 DEF Claims, Goes, rows, Met, Creates, Revokes, Claimant, Reading, Provider
<1>12. CASE Upserts(c)
  BY <1>12 DEF Upserts, Goes, rows, Met, Creates, Revokes, Claimant, Reading, Provider
<1>13. CASE Looks(c)
  <2>1. Met(c)' /\ Creates(c)' /\ Revokes(c)' /\ Claimant(c)'
    BY <1>13 DEF Looks, Sees, Goes, rows, Met, Creates, Revokes, Claimant
  <2>4. answer'[c] = answer[c] /\ request'[c] = request[c] /\ profile' = profile /\ answer[c] # "me"
    BY <1>13 DEF Looks, Goes, rows, IInv, TypeOK
  <2>5. request[c].op = "me" /\ UserOf(c) \notin SeededUsers /\ seen'[c].status = "ACTIVE"
        => profile[UserOf(c)]
    BY <1>13, <2>4 DEF Looks, Sees, Goes, Reading
  <2>6. request[c].op = "me" /\ UserOf(c) \notin SeededUsers /\ seen'[c].status = "ACTIVE"
        /\ "profile" \in seen'[c].read => seen'[c].profile
    BY <1>13, <2>5 DEF Looks, Sees, Goes, Reading
  <2>2. Reading(c)'
    BY <2>4, <2>5, <2>6 DEF Reading
  <2>3. Flow(c)'
    BY <1>13 DEF Looks, Sees, Goes
  <2> QED BY <2>1, <2>2, <2>3
<1>14. CASE Answers(c)
  BY <1>14 DEF Answers, Sees, Ends, rows, Met, Creates, Revokes, Claimant, Reading
<1>15. CASE LocksSession(c)
  BY <1>15 DEF LocksSession, Goes, rows, Met, Creates, Revokes, Claimant, Reading, Provider
<1>16. CASE SignsIn(c)
  BY <1>16 DEF SignsIn, Commits, Ends, Met, Creates, Revokes, Claimant, Reading, Agree, Setting
<1>17. CASE Completes(c)
  BY <1>17 DEF Completes, Commits, Ends, Met, Creates, Revokes, Claimant, Reading
<1>18. CASE Provides(c)
  BY <1>18 DEF Provides, Commits, Ends, Met, Creates, Revokes, Claimant, Reading
<1>19. CASE SignsOut(c)
  BY <1>19 DEF SignsOut, Commits, Ends, Met, Creates, Revokes, Claimant, Reading
<1>20. CASE Serves(c)
  BY <1>20 DEF Serves, Commits, Ends, rows, Met, Creates, Revokes, Claimant, Reading
<1> QED BY <1>3, <1>4, <1>5, <1>6, <1>7, <1>8, <1>9, <1>10, <1>11, <1>12, <1>13, <1>14,
     <1>15, <1>16, <1>17, <1>18, <1>19, <1>20 DEF Acts

\* The rows of a user go on agreeing.
LEMMA AgreeStep ==
    ASSUME Setting, IInv, NEW c \in Calls, Acts(c), Others(c), NEW u \in Users
    PROVE  Agree(u)'
<1>1. Call(c) /\ Agree(u) /\ (step[c] # "idle" => UserOf(c) \in Users)
  BY DEF IInv, Call, Flow
<1>2. TypeOK
  BY DEF IInv
<1> USE <1>1 DEF Agree, Call, UserOf, Exists, Ends, Commits, Sessions
<1>3. CASE UNCHANGED rows
  BY <1>3 DEF rows
<1>4. CASE SignsIn(c)
  BY <1>4 DEF SignsIn, Met, Creates, Setting
<1>5. CASE Completes(c)
  <2>1. account[u] \in {"NONE", "PENDING_PROFILE", "ACTIVE"}
    BY <1>2 DEF TypeOK, Statuses
  <2>2. u = UserOf(c) => account'[u] = "ACTIVE" /\ profile'[u]
    BY <1>5, <2>1 DEF Completes, Met
  <2>3. u # UserOf(c) => account'[u] = account[u] /\ (profile'[u] <=> profile[u])
    BY <1>5 DEF Completes
  <2> QED BY <1>5, <2>2, <2>3 DEF Completes
<1>6. CASE Provides(c)
  BY <1>6 DEF Provides, Claimant, Provider
<1>7. CASE SignsOut(c)
  BY <1>7 DEF SignsOut, Revokes
<1> QED BY <1>3, <1>4, <1>5, <1>6, <1>7, Writers DEF Writes

\* Who is told something was told it by a commit that excludes the others.
LEMMA Telling ==
    ASSUME IInv, NEW c \in Calls, Acts(c), answer'[c] \in {"created", "revoked"}
    PROVE  /\ request'[c] = request[c]
           /\ \/ answer'[c] = answer[c]
              \/ answer'[c] = "created" /\ ~Exists(UserOf(c))
              \/ answer'[c] = "revoked" /\ session[request[c].session] = "LIVE"
<1>1. Call(c) /\ (step[c] # "done" => answer[c] = "none")
  BY DEF IInv, TypeOK
<1>2. CASE SignsIn(c)
  BY <1>1, <1>2 DEF SignsIn, Commits, Ends, Call, Creates
<1>3. CASE SignsOut(c)
  BY <1>1, <1>3 DEF SignsOut, Commits, Ends, Call, Revokes
<1>4. CASE Arrives(c)
  BY <1>1, <1>4 DEF Arrives
<1> QED BY <1>1, <1>2, <1>3, <1>4
      DEF Acts, Refused, Quiet, Inserts, Finds, Reads, Passes, HasRole, Claims, Upserts, Looks,
          Answers, LocksSession, Goes, Serves, Completes, Provides, Commits, Ends

LEMMA ApartStep ==
    ASSUME IInv, NEW c \in Calls, Acts(c), Others(c), NEW d \in Calls, d # c
    PROVE  Apart(c, d)' /\ Apart(d, c)'
<1>1. Call(d) /\ Apart(c, d)
  BY DEF IInv
<1>2. request'[d] = request[d] /\ answer'[d] = answer[d]
  BY DEF Others
<1>3. answer'[c] = "created" /\ answer[d] = "created" => UserOf(c)' # UserOf(d)
  BY <1>1, Telling DEF Apart, UserOf, Call, Creates
<1>4. answer'[c] = "revoked" /\ answer[d] = "revoked" => request'[c].session # request[d].session
  BY <1>1, Telling DEF Apart, Call, Revokes
<1> QED BY <1>2, <1>3, <1>4 DEF Apart, UserOf

----------------------------------------------------------------------------
(* What the statements do, and what every action does. *)

RowsOK ==
    /\ account \in [Users -> Statuses]
    /\ roles \in [Users -> SUBSET {"CITIZEN", "PROVIDER"}] /\ profile \in [Users -> BOOLEAN]
    /\ provider \in [Users -> SUBSET Sessions]
    /\ session \in [Sessions -> {"NONE", "LIVE", "REVOKED"}]
RequestOK ==
    request \in [Calls -> [op : Ops \cup {"none"}, user : Users \cup {"none"},
                          role : {"CITIZEN", "PROVIDER", "ADMIN", "none"},
                          session : Sessions \cup {"none"}]]
ControlOK ==
    /\ step \in [Calls -> Steps] /\ answer \in [Calls -> Verdicts]
    /\ \A l \in locks : l.call \in Calls /\ step[l.call] \notin {"idle", "done"}
    /\ \A c \in Calls : step[c] = "done" <=> answer[c] # "none"
SeenOK ==
    seen \in [Calls -> [created : BOOLEAN, status : Statuses,
                       read : SUBSET (Parts \cup Codes), profile : BOOLEAN]]
LEMMA Types == TypeOK <=> RowsOK /\ RequestOK /\ ControlOK /\ SeenOK
BY DEF TypeOK, RowsOK, RequestOK, ControlOK, SeenOK

Does(c) == Acts(c) /\ Others(c) /\ TypeOK' /\ Sole'
Elsewhere(c) == \A d \in Calls \ {c} : seen'[d] = seen[d]

\* A statement keeps the locks, takes only keys nobody else has, and goes on.
Takes(c) ==
    /\ locks \subseteq locks'
    /\ \A l \in locks' : l \notin locks => l.call = c /\ (l.mode = "OWN" => Free(c, l.key, "OWN"))
Moves(c, next) ==
    /\ step[c] \notin {"idle", "done"} /\ next \in Steps /\ next \notin {"idle", "done"}
    /\ Goto(c, next) /\ UNCHANGED <<rows, request, answer>>
LEMMA StatementDoes ==
    ASSUME ControlOK, Sole, NEW c \in Calls, NEW next, Takes(c), Moves(c, next), Elsewhere(c)
    PROVE  Goes(c, step[c], next) /\ Others(c) /\ ControlOK' /\ Sole'
<1>1. step' = [step EXCEPT ![c] = next] /\ UNCHANGED <<rows, request, answer>>
  BY DEF Moves, Goto
<1>2. step'[c] = next /\ \A d \in Calls \ {c} : step'[d] = step[d]
  BY <1>1 DEF ControlOK
<1>3. Goes(c, step[c], next)
  BY <1>1, <1>2 DEF Goes, Holds, Takes
<1>5. Others(c)
  BY <1>1, <1>2 DEF Others, Holds, Lock, Takes, Elsewhere
<1>6. ControlOK'
  BY <1>1, <1>2 DEF ControlOK, Moves, Takes
<1>7. Sole'
  BY DEF Sole, Free, Takes
<1> QED BY <1>3, <1>5, <1>6, <1>7

\* The end of a transaction gives up its locks, and no others.
LEMMA AnswerDoes ==
    ASSUME ControlOK, Sole, NEW c \in Calls, NEW what \in Verdicts, what # "none", Answer(c, what),
           UNCHANGED request, Elsewhere(c)
    PROVE  Ends(c, what) /\ Others(c) /\ ControlOK' /\ Sole'
<1>1. /\ locks' = {l \in locks : l.call # c} /\ step' = [step EXCEPT ![c] = "done"]
      /\ answer' = [answer EXCEPT ![c] = what]
  BY DEF Answer, Goto
<1>2. /\ step'[c] = "done" /\ answer'[c] = what
      /\ \A d \in Calls \ {c} : step'[d] = step[d] /\ answer'[d] = answer[d]
  BY <1>1 DEF ControlOK
<1>3. \A d \in Calls \ {c} : \A key : Holds(d, key)' <=> Holds(d, key)
  BY <1>1 DEF Holds, Lock
<1>4. Others(c)
  BY <1>2, <1>3 DEF Others, Elsewhere
<1>5. ControlOK'
  BY <1>1, <1>2 DEF ControlOK, Steps
<1>6. Sole'
  BY <1>1 DEF Sole
<1> QED BY <1>2, <1>4, <1>5, <1>6 DEF Ends

LEMMA RefuseDoes ==
    ASSUME TypeOK, Sole, NEW c \in Calls, NEW what \in Verdicts,
           what \notin {"none", "created", "revoked", "me"}, Refuse(c, what), step[c] \notin {"idle", "done"}
    PROVE  Does(c)
<1>1. Answer(c, what) /\ UNCHANGED <<rows, request, seen>>
  BY DEF Refuse
<1>2. Ends(c, what) /\ Others(c) /\ ControlOK' /\ Sole'
  BY <1>1, AnswerDoes, Types DEF Elsewhere
<1>3. Refused(c)
  BY <1>1, <1>2 DEF Refused
<1>4. TypeOK'
  BY <1>1, <1>2, Types DEF RowsOK, RequestOK, SeenOK, rows, TypeOK, ControlOK
<1> QED BY <1>2, <1>3, <1>4 DEF Does, Acts

\* A statement that changes nothing of seen.
LEMMA QuietDoes ==
    ASSUME TypeOK, Sole, NEW c \in Calls, NEW next, Takes(c), Moves(c, next), UNCHANGED seen
    PROVE  Goes(c, step[c], next) /\ Others(c) /\ TypeOK' /\ Sole' /\ seen'[c] = seen[c]
<1>1. Elsewhere(c) /\ ControlOK
  BY Types DEF Elsewhere
<1>2. Goes(c, step[c], next) /\ Others(c) /\ ControlOK' /\ Sole'
  BY <1>1, StatementDoes
<1>3. TypeOK'
  BY <1>2, Types DEF Moves, RowsOK, RequestOK, SeenOK, rows, TypeOK, ControlOK
<1> QED BY <1>2, <1>3

First(op) ==
    /\ op = "signIn" => FirstStep(op) = "exchange"
    /\ op = "profile" => FirstStep(op) = "lock account"
    /\ op = "selfProvider" => FirstStep(op) = "find provider"
    /\ op = "provider" => FirstStep(op) = "find role"
    /\ op = "services" => FirstStep(op) = "own provider"
    /\ op = "me" => FirstStep(op) = "read"
    /\ op = "signOut" => FirstStep(op) = "lock session"
LEMMA FirstSteps == ASSUME NEW op PROVE First(op)
<1>1. FirstStep("signIn") = "exchange"
  BY DEF FirstStep
<1>2. FirstStep("profile") = "lock account"
  BY DEF FirstStep
<1>3. FirstStep("selfProvider") = "find provider"
  BY DEF FirstStep
<1>4. FirstStep("provider") = "find role"
  BY DEF FirstStep
<1>5. FirstStep("services") = "own provider"
  BY DEF FirstStep
<1>6. FirstStep("me") = "read"
  BY DEF FirstStep
<1>7. FirstStep("signOut") = "lock session"
  BY DEF FirstStep
<1> QED BY <1>1, <1>2, <1>3, <1>4, <1>5, <1>6, <1>7 DEF First

\* The keys of a statement.
LEMMA TakesNone == ASSUME NEW c, locks' = locks PROVE Takes(c)
BY DEF Takes
LEMMA TakesOne ==
    ASSUME NEW c, NEW key, NEW mode, locks' = locks \cup {Lock(c, key, mode)},
           mode = "OWN" => Free(c, key, "OWN")
    PROVE  Takes(c) /\ (mode = "OWN" => Holds(c, key)')
<1>1. Holds(c, key)' <=> [call |-> c, key |-> key, mode |-> "OWN"] \in locks'
  BY DEF Holds, Lock
<1>2. Takes(c)
  BY DEF Takes, Lock
<1> QED BY <1>1, <1>2 DEF Lock
LEMMA TakesTwo ==
    ASSUME NEW c, NEW key, NEW other, Free(c, key, "OWN"),
           locks' = locks \cup {Lock(c, key, "OWN"), Lock(c, other, "SHARE")}
    PROVE  Takes(c)
<1>1. \A l \in locks' : l \notin locks => l = Lock(c, key, "OWN") \/ l = Lock(c, other, "SHARE")
  OBVIOUS
<1>2. Lock(c, key, "OWN").call = c /\ Lock(c, key, "OWN").key = key
  BY DEF Lock
<1>3. Lock(c, other, "SHARE").call = c /\ Lock(c, other, "SHARE").mode = "SHARE"
  BY DEF Lock
<1> QED BY <1>1, <1>2, <1>3 DEF Takes

\* A call arrives: the account of a session that is live is there.
LEMMA StartDoes ==
    ASSUME Setting, TypeOK, Sole, NEW c \in Calls, NEW op \in Ops, NEW u \in Users,
           NEW role \in {"CITIZEN", "PROVIDER", "ADMIN", "none"},
           NEW s, s = "none" \/ s \in Sessions, Start(c, op, u, role, s),
           op = "signIn" => s = c,
           op # "signIn" => Exists(u),
           op = "selfProvider" => account[u] = "ACTIVE",
           op = "signOut" => s \in Sessions
    PROVE  Does(c)
<1>1. /\ step[c] = "idle" /\ step' = [step EXCEPT ![c] = FirstStep(op)]
      /\ request' = [request EXCEPT ![c] = [op |-> op, user |-> u, role |-> role, session |-> s]]
      /\ seen' = [seen EXCEPT ![c].status = account[u]]
      /\ UNCHANGED <<rows, locks, answer>>
  BY DEF Start, Goto
<1>8. First(op)
  BY FirstSteps
<1>2. FirstStep(op) \in Steps /\ FirstStep(op) \notin {"idle", "done"}
  BY <1>8 DEF Ops, Steps, First
<1>3. /\ step'[c] = FirstStep(op) /\ UserOf(c)' = u
      /\ request'[c].op = op /\ request'[c].session = s
      /\ \A d \in Calls \ {c} : step'[d] = step[d] /\ request'[d] = request[d] /\ seen'[d] = seen[d]
  BY <1>1 DEF TypeOK, UserOf
<1>4. /\ seen'[c].created = seen[c].created /\ seen'[c].read = seen[c].read
      /\ seen'[c].status = account[u]
  BY <1>1 DEF TypeOK
<1>5. Others(c)
  BY <1>1, <1>3 DEF Others, Holds
<1>6. Arrives(c)
  BY <1>1, <1>3, <1>4, <1>8 DEF Arrives, Ops, First
<1>7. TypeOK'
  <2>1. ControlOK' /\ RowsOK'
    BY <1>1, <1>2, <1>3, Types DEF ControlOK, RowsOK, rows
  <2>2. RequestOK'
    BY <1>1, Types DEF RequestOK
  <2>3. account[u] \in Statuses
    BY DEF TypeOK
  <2>4. SeenOK'
    BY <1>1, <2>3, Types DEF SeenOK
  <2> QED BY <2>1, <2>2, <2>4, Types DEF TypeOK, ControlOK, RowsOK, SeenOK, RequestOK
<1> QED BY <1>1, <1>5, <1>6, <1>7 DEF Does, Acts, Sole

LEMMA ArrivalDoes ==
    ASSUME Setting, IInv, NEW c \in Calls,
           SignInArrives(c) \/ ActorArrives(c) \/ AdminArrives(c)
    PROVE  Does(c)
<1>1. TypeOK /\ Sole
  BY DEF IInv
<1>2. CASE SignInArrives(c)
  <2>1. PICK u \in Users : Start(c, "signIn", u, "none", c)
    BY <1>2 DEF SignInArrives
  <2>2. "signIn" \in Ops /\ c \in Sessions
    BY DEF Ops, Sessions
  <2> QED BY <1>1, <2>1, <2>2, StartDoes
<1>3. CASE ActorArrives(c)
  <2>1. PICK s \in Sessions, op \in Ops \ {"signIn"} :
          /\ session[s] = "LIVE"
          /\ \E role \in RolesFor(op) \cap roles[OwnerOf(s)] :
               Gate(OwnerOf(s), role, op) /\ Start(c, op, OwnerOf(s), role, s)
    BY <1>3 DEF ActorArrives
  <2>2. PICK role \in RolesFor(op) \cap roles[OwnerOf(s)] :
          Gate(OwnerOf(s), role, op) /\ Start(c, op, OwnerOf(s), role, s)
    BY <2>1
  <2>3. OwnerOf(s) \in Users /\ Exists(OwnerOf(s))
    <3>1. CASE s \in Users
      BY <2>1, <3>1 DEF IInv, Agree, OwnerOf
    <3>2. CASE s \notin Users
      <4>1. s \in Calls /\ Flow(s) /\ Met(s)
        BY <3>2 DEF IInv, Call, Sessions
      <4> QED BY <2>1, <3>2, <4>1 DEF OwnerOf, Flow, Met
    <3> QED BY <3>1, <3>2
  <2>4. role \in {"CITIZEN", "PROVIDER"} /\ (op = "selfProvider" => role = "CITIZEN")
    BY <1>1, <2>1, <2>2, <2>3 DEF TypeOK, RolesFor, Ops
  <2>5. op = "selfProvider" => account[OwnerOf(s)] = "ACTIVE"
    BY <2>2, <2>4 DEF Gate
  <2> QED BY <1>1, <2>2, <2>3, <2>4, <2>5, StartDoes
<1>4. CASE AdminArrives(c)
  <2>1. PICK u \in Users, op \in {"provider", "services"} :
          account[u] # "NONE" /\ Start(c, op, u, "ADMIN", "none")
    BY <1>4 DEF AdminArrives
  <2>2. op \in Ops
    BY DEF Ops
  <2> QED BY <1>1, <2>1, <2>2, StartDoes DEF Exists
<1> QED BY <1>2, <1>3, <1>4

LEMMA SignInDoes ==
    ASSUME IInv, NEW c \in Calls,
           Exchange(c) \/ InsertAccount(c) \/ ReadStatus(c) \/ InsertSession(c)
    PROVE  Does(c)
<1>0. TypeOK /\ Sole /\ UserOf(c) \in Users \cup {"none"} /\ (step[c] # "idle" => UserOf(c) \in Users)
  BY DEF IInv, Call, Flow, TypeOK, UserOf
<1> USE <1>0
<1>1. CASE Exchange(c)
  <2>1. step[c] = "exchange"
    BY <1>1 DEF Exchange
  <2>2. CASE Refuse(c, "INVALID_OAUTH_STATE")
    BY <2>1, <2>2, RefuseDoes DEF Verdicts
  <2>3. CASE Refuse(c, "IDENTITY_PROVIDER_UNAVAILABLE")
    BY <2>1, <2>3, RefuseDoes DEF Verdicts
  <2>4. CASE Statement(c, {}, "insert account") /\ UNCHANGED seen
    <3>1. Takes(c) /\ Moves(c, "insert account") /\ UNCHANGED seen
      BY <2>1, <2>4 DEF Statement, Takes, Moves, Steps
    <3> QED BY <2>1, <3>1, QuietDoes DEF Does, Acts, Quiet
  <2> QED BY <1>1, <2>2, <2>3, <2>4 DEF Exchange
<1>2. CASE InsertAccount(c)
  <2>1. step[c] = "insert account" /\ Free(c, <<"email", UserOf(c)>>, "OWN")
    BY <1>2 DEF InsertAccount, MailboxFree
  <2>2. CASE account[UserOf(c)] = "NONE"
    <3>1. seen' = [seen EXCEPT ![c].created = TRUE, ![c].status = "PENDING_PROFILE"]
      BY <1>2, <2>2 DEF InsertAccount
    <3>8. locks' = locks \cup {Lock(c, <<"email", UserOf(c)>>, "OWN")}
      BY <1>2, <2>2 DEF InsertAccount, Statement
    <3>2. Takes(c) /\ Moves(c, "insert session")
      BY <1>2, <2>1, <2>2, <3>8, TakesOne DEF InsertAccount, Statement, Moves, Steps
    <3>3. Elsewhere(c) /\ seen'[c].created
      BY <3>1 DEF Elsewhere, TypeOK
    <3>4. Goes(c, "insert account", "insert session") /\ Others(c) /\ ControlOK' /\ Sole'
      BY <2>1, <3>2, <3>3, StatementDoes, Types
    <3>5. Holds(c, <<"email", UserOf(c)>>)'
      BY <1>2, <2>2 DEF InsertAccount, Statement, Holds, UserOf
    <3>6. SeenOK'
      BY <3>1, Types DEF SeenOK, Statuses
    <3>7. TypeOK'
      BY <3>2, <3>4, <3>6, Types DEF Moves, RowsOK, RequestOK, rows, SeenOK, TypeOK, ControlOK
    <3> QED BY <2>2, <3>3, <3>4, <3>5, <3>7 DEF Does, Acts, Inserts, Exists
  <2>3. CASE account[UserOf(c)] # "NONE"
    <3>1. Takes(c) /\ Moves(c, "read status") /\ UNCHANGED seen
      BY <1>2, <2>1, <2>3 DEF InsertAccount, Statement, Takes, Moves, Steps
    <3> QED BY <2>1, <2>3, <3>1, QuietDoes DEF Does, Acts, Finds, Exists
  <2> QED BY <2>2, <2>3
<1>3. CASE ReadStatus(c)
  <2>1. step[c] = "read status" /\ seen' = [seen EXCEPT ![c].status = account[UserOf(c)]]
    BY <1>3 DEF ReadStatus
  <2>2. Takes(c) /\ Moves(c, "insert session")
    BY <1>3 DEF ReadStatus, Statement, Takes, Moves, Steps
  <2>3. Elsewhere(c) /\ seen'[c].created = seen[c].created
    BY <2>1, Types DEF Elsewhere, SeenOK
  <2>4. Goes(c, "read status", "insert session") /\ Others(c) /\ ControlOK' /\ Sole'
    BY <2>1, <2>2, <2>3, StatementDoes, Types
  <2>5. account[UserOf(c)] \in Statuses
    BY <2>1 DEF TypeOK
  <2>6. SeenOK'
    BY <2>1, <2>5, Types DEF SeenOK
  <2>7. TypeOK'
    BY <2>2, <2>4, <2>6, Types DEF Moves, RowsOK, RequestOK, rows, SeenOK, TypeOK, ControlOK
  <2> QED BY <2>3, <2>4, <2>7 DEF Does, Acts, Reads
<1>4. CASE InsertSession(c)
  <2>2. locks' = locks \cup {Lock(c, Account(c), "SHARE")}
    BY <1>4 DEF InsertSession, Statement
  <2>3. Takes(c)
    BY <2>2, TakesOne
  <2>1. step[c] = "insert session" /\ Takes(c) /\ Moves(c, "commit") /\ UNCHANGED seen
    BY <1>4, <2>3 DEF InsertSession, Statement, Moves, Steps
  <2> QED BY <2>1, QuietDoes DEF Does, Acts, Passes
<1> QED BY <1>1, <1>2, <1>3, <1>4

LEMMA ProviderDoes ==
    ASSUME IInv, NEW c \in Calls,
           \/ LockAccount(c) \/ FindProvider(c) \/ GrantRole(c) \/ FindRole(c) \/ InsertProvider(c)
    PROVE  Does(c)
<1>0. TypeOK /\ Sole
  BY DEF IInv
<1> USE <1>0
<1>1. CASE LockAccount(c)
  <2>1. step[c] = "lock account" /\ UNCHANGED seen
    BY <1>1 DEF LockAccount
  <2>2. locks' = locks \cup {Lock(c, Account(c), "OWN")} /\ Free(c, Account(c), "OWN")
    BY <1>1 DEF LockAccount, Statement
  <2>3. Takes(c)
    BY <2>2, TakesOne
  <2>4. Moves(c, "commit")
    BY <1>1, <2>1 DEF LockAccount, Statement, Moves, Steps
  <2> QED BY <2>1, <2>3, <2>4, QuietDoes DEF Does, Acts, Quiet
<1>2. CASE FindProvider(c)
  <2>1. step[c] = "find provider"
    BY <1>2 DEF FindProvider
  <2>2. CASE provider[UserOf(c)] # {}
    <3>1. Refuse(c, "PROVIDER_ALREADY_EXISTS")
      BY <1>2, <2>2 DEF FindProvider
    <3> QED BY <2>1, <3>1, RefuseDoes DEF Verdicts
  <2>3. CASE ~(provider[UserOf(c)] # {})
    <3>1. locks' = locks
      BY <1>2, <2>3 DEF FindProvider, Statement
    <3>2. Moves(c, "grant role") /\ UNCHANGED seen
      BY <1>2, <2>1, <2>3 DEF FindProvider, Statement, Moves, Steps
    <3> QED BY <2>1, <3>1, <3>2, TakesNone, QuietDoes DEF Does, Acts, Quiet
  <2> QED BY <2>2, <2>3
<1>3. CASE GrantRole(c)
  <2>1. step[c] = "grant role" /\ UNCHANGED seen
    BY <1>3 DEF GrantRole
  <2>2. Takes(c)
    <3>1. CASE Statement(c, {}, "insert provider")
      <4>1. locks' = locks
        BY <3>1 DEF Statement
      <4> QED BY <4>1, TakesNone
    <3>2. CASE /\ Free(c, <<"role", UserOf(c)>>, "OWN")
               /\ Statement(c, {Lock(c, <<"role", UserOf(c)>>, "OWN"), Lock(c, Account(c), "SHARE")},
                            "insert provider")
      BY <3>2, TakesTwo DEF Statement
    <3> QED BY <1>3, <3>1, <3>2 DEF GrantRole
  <2>3. Moves(c, "insert provider")
    BY <1>3, <2>1 DEF GrantRole, Statement, Moves, Steps
  <2> QED BY <2>1, <2>2, <2>3, QuietDoes DEF Does, Acts, Quiet
<1>4. CASE FindRole(c)
  <2>1. step[c] = "find role"
    BY <1>4 DEF FindRole
  <2>2. CASE "PROVIDER" \notin roles[UserOf(c)]
    <3>1. Refuse(c, "PROVIDER_ROLE_NOT_FOUND")
      BY <1>4, <2>2 DEF FindRole
    <3> QED BY <2>1, <3>1, RefuseDoes DEF Verdicts
  <2>3. CASE "PROVIDER" \in roles[UserOf(c)]
    <3>1. locks' = locks
      BY <1>4, <2>3 DEF FindRole, Statement
    <3>2. Moves(c, "insert provider") /\ UNCHANGED seen
      BY <1>4, <2>1, <2>3 DEF FindRole, Statement, Moves, Steps
    <3> QED BY <2>1, <2>3, <3>1, <3>2, TakesNone, QuietDoes DEF Does, Acts, HasRole
  <2> QED BY <2>2, <2>3
<1>5. CASE InsertProvider(c)
  <2>1. step[c] = "insert provider" /\ Free(c, <<"provider", UserOf(c)>>, "OWN")
    BY <1>5 DEF InsertProvider
  <2>2. CASE Refuse(c, "CONFLICT")
    BY <2>1, <2>2, RefuseDoes DEF Verdicts
  <2>3. CASE /\ Unique(c) /\ UNCHANGED seen
             /\ Statement(c, {Lock(c, <<"provider", UserOf(c)>>, "OWN"), Lock(c, Account(c), "SHARE")},
                          "commit")
    <3>1. Takes(c)
      BY <2>1, <2>3, TakesTwo DEF Statement
    <3>2. Moves(c, "commit")
      BY <2>1, <2>3 DEF Statement, Moves, Steps
    <3>3. Holds(c, <<"provider", UserOf(c)>>)'
      BY <2>3 DEF Statement, Holds, UserOf
    <3> QED BY <2>1, <2>3, <3>1, <3>2, <3>3, QuietDoes DEF Does, Acts, Claims, Unique
  <2> QED BY <1>5, <2>2, <2>3 DEF InsertProvider
<1> QED BY <1>1, <1>2, <1>3, <1>4, <1>5

LEMMA ServiceDoes ==
    ASSUME IInv, NEW c \in Calls, OwnProvider(c) \/ LockProvider(c) \/ Upsert(c) \/ LockSession(c)
    PROVE  Does(c)
<1>0. TypeOK /\ Sole
  BY DEF IInv
<1> USE <1>0
<1>1. CASE OwnProvider(c)
  <2>1. step[c] = "own provider"
    BY <1>1 DEF OwnProvider
  <2>2. CASE Refuse(c, "FORBIDDEN")
    BY <2>1, <2>2, RefuseDoes DEF Verdicts
  <2>3. CASE Statement(c, {}, "lock provider") /\ UNCHANGED seen
    <3>1. locks' = locks
      BY <2>3 DEF Statement
    <3>2. Moves(c, "lock provider") /\ UNCHANGED seen
      BY <2>1, <2>3 DEF Statement, Moves, Steps
    <3> QED BY <2>1, <3>1, <3>2, TakesNone, QuietDoes DEF Does, Acts, Quiet
  <2> QED BY <1>1, <2>2, <2>3 DEF OwnProvider
<1>2. CASE LockProvider(c)
  <2>1. step[c] = "lock provider" /\ Free(c, <<"provider row", UserOf(c)>>, "OWN")
    BY <1>2 DEF LockProvider
  <2>2. CASE Refuse(c, "PROVIDER_NOT_FOUND")
    BY <2>1, <2>2, RefuseDoes DEF Verdicts
  <2>3. CASE Statement(c, ProviderLock(c), "upsert") /\ UNCHANGED seen
    <3>1. locks' = locks \cup {Lock(c, <<"provider row", UserOf(c)>>, "OWN")}
      BY <2>3 DEF Statement, ProviderLock
    <3>2. Moves(c, "upsert") /\ UNCHANGED seen
      BY <2>1, <2>3 DEF Statement, Moves, Steps
    <3> QED BY <2>1, <3>1, <3>2, TakesOne, QuietDoes DEF Does, Acts, Quiet
  <2> QED BY <1>2, <2>2, <2>3 DEF LockProvider
<1>3. CASE Upsert(c)
  <2>1. PICK code \in Codes \ seen[c].read :
          LET key == <<"service", UserOf(c), code>>
              now == seen[c].read \cup {code}
          IN  /\ Free(c, key, "OWN") /\ seen' = [seen EXCEPT ![c].read = now]
              /\ Statement(c, {Lock(c, key, "OWN")}, IF now = Codes THEN "commit" ELSE "upsert")
    BY <1>3 DEF Upsert
  <2> DEFINE now == seen[c].read \cup {code}
             next == IF now = Codes THEN "commit" ELSE "upsert"
  <2>2. step[c] = "upsert" /\ seen' = [seen EXCEPT ![c].read = now]
    BY <1>3, <2>1 DEF Upsert
  <2>3. locks' = locks \cup {Lock(c, <<"service", UserOf(c), code>>, "OWN")}
        /\ Free(c, <<"service", UserOf(c), code>>, "OWN")
    BY <2>1 DEF Statement
  <2>4. Takes(c)
    BY <2>3, TakesOne
  <2>5. now \in SUBSET (Parts \cup Codes)
    BY DEF TypeOK
  <2>6. Elsewhere(c) /\ seen'[c].created = seen[c].created
    BY <2>2, Types DEF Elsewhere, SeenOK
  <2>7. SeenOK'
    <3> HIDE DEF now
    <3> QED BY <2>2, <2>5, Types DEF SeenOK
  <2>8. next = "commit" \/ next = "upsert"
    OBVIOUS
  <2>9. Goto(c, next) /\ UNCHANGED <<rows, request, answer>>
    BY <2>1 DEF Statement
  <2> HIDE DEF next
  <2>10. Moves(c, next)
    BY <2>2, <2>8, <2>9 DEF Moves, Steps
  <2>11. Goes(c, "upsert", next) /\ Others(c) /\ ControlOK' /\ Sole'
    BY <2>2, <2>4, <2>6, <2>10, StatementDoes, Types
  <2>12. TypeOK'
    BY <2>7, <2>10, <2>11, Types DEF Moves, RowsOK, RequestOK, rows, SeenOK, TypeOK, ControlOK
  <2> QED BY <2>6, <2>8, <2>11, <2>12 DEF Does, Acts, Upserts
<1>4. CASE LockSession(c)
  <2>1. step[c] = "lock session" /\ Free(c, SessionKey(c), "OWN")
    BY <1>4 DEF LockSession, SessionFree
  <2>2. CASE Refuse(c, "not revoked")
    BY <2>1, <2>2, RefuseDoes DEF Verdicts
  <2>3. CASE /\ session[request[c].session] = "LIVE" /\ UNCHANGED seen
             /\ Statement(c, {Lock(c, SessionKey(c), "OWN")}, "commit")
    <3>1. locks' = locks \cup {Lock(c, SessionKey(c), "OWN")}
      BY <2>3 DEF Statement
    <3>2. Moves(c, "commit") /\ UNCHANGED seen
      BY <2>1, <2>3 DEF Statement, Moves, Steps
    <3>3. Takes(c)
      BY <2>1, <3>1, TakesOne
    <3>4. Holds(c, <<"session", request[c].session>>)'
      BY <3>1, <3>2 DEF Moves, Holds, SessionKey
    <3> QED BY <2>1, <2>3, <3>2, <3>3, <3>4, QuietDoes DEF Does, Acts, LocksSession
  <2> QED BY <1>4, <2>2, <2>3 DEF LockSession
<1> QED BY <1>1, <1>2, <1>3, <1>4

LEMMA ReadDoes ==
    ASSUME IInv, NEW c \in Calls, Read(c)
    PROVE  Does(c)
<1>1. TypeOK /\ Sole /\ step[c] = "read"
  BY DEF IInv, Read
<1>2. PICK part \in Parts \ seen[c].read :
        LET now == seen[c].read \cup {part}
        IN  /\ seen' = [seen EXCEPT ![c].read = now,
                                    ![c].profile = IF part = "profile" THEN profile[UserOf(c)] ELSE @]
            /\ IF now = Parts THEN Answer(c, "me") /\ UNCHANGED <<rows, request>>
               ELSE Statement(c, {}, "read")
  BY DEF Read
<1> DEFINE now == seen[c].read \cup {part}
           found == IF part = "profile" THEN profile[UserOf(c)] ELSE seen[c].profile
<1>3. seen' = [seen EXCEPT ![c] = [seen[c] EXCEPT !.read = now, !.profile = found]]
  BY <1>2
<1>10. UserOf(c) \in Users
  BY <1>1 DEF IInv, Call, Flow
<1>4. now \in SUBSET (Parts \cup Codes) /\ found \in BOOLEAN
  <2>1. seen[c].read \subseteq Parts \cup Codes /\ seen[c].profile \in BOOLEAN
    BY <1>1, Types DEF SeenOK
  <2>2. profile[UserOf(c)] \in BOOLEAN
    BY <1>1, <1>10, Types DEF RowsOK
  <2> QED BY <2>1, <2>2
<1> HIDE DEF now, found
<1>5. SeenOK'
  BY <1>1, <1>3, <1>4, Types DEF SeenOK
<1>6. /\ seen'[c].created = seen[c].created /\ seen'[c].status = seen[c].status
      /\ seen'[c].read = now /\ seen'[c].profile = found /\ Elsewhere(c)
  BY <1>1, <1>3, Types DEF SeenOK, Elsewhere
<1>7. Sees(c)
  BY <1>1, <1>6 DEF Sees, now, found
<1>8. CASE now = Parts
  <2>1. Answer(c, "me") /\ UNCHANGED <<rows, request>>
    BY <1>2, <1>8 DEF now
  <2>2. Ends(c, "me") /\ Others(c) /\ ControlOK' /\ Sole'
    BY <1>1, <1>6, <2>1, AnswerDoes, Types DEF Verdicts
  <2>3. Answers(c)
    BY <1>6, <1>7, <1>8, <2>1, <2>2 DEF Answers, Parts
  <2>4. TypeOK'
    BY <1>1, <1>5, <2>1, <2>2, Types DEF RowsOK, RequestOK, rows, SeenOK, TypeOK, ControlOK
  <2> QED BY <2>2, <2>3, <2>4 DEF Does, Acts
<1>9. CASE now # Parts
  <2>1. Statement(c, {}, "read")
    BY <1>2, <1>9 DEF now
  <2>2. locks' = locks
    BY <2>1 DEF Statement
  <2>3. Moves(c, "read")
    BY <1>1, <2>1 DEF Statement, Moves, Steps
  <2>4. Goes(c, "read", "read") /\ Others(c) /\ ControlOK' /\ Sole'
    BY <1>1, <1>6, <2>2, <2>3, TakesNone, StatementDoes, Types
  <2>5. TypeOK'
    BY <1>1, <1>5, <2>3, <2>4, Types DEF Moves, RowsOK, RequestOK, rows, SeenOK, TypeOK, ControlOK
  <2> QED BY <1>7, <2>4, <2>5 DEF Does, Acts, Looks
<1> QED BY <1>8, <1>9

LEMMA CommitDoes ==
    ASSUME IInv, NEW c \in Calls, Commit(c)
    PROVE  Does(c)
<1>1. TypeOK /\ Sole /\ step[c] = "commit" /\ UNCHANGED <<request, seen>> /\ UserOf(c) \in Users
  BY DEF IInv, Call, Flow, Commit
<1>2. Elsewhere(c) /\ seen'[c] = seen[c] /\ ControlOK /\ RowsOK
  BY <1>1, Types DEF Elsewhere
<1>3. ASSUME NEW what \in Verdicts, what # "none", Answer(c, what), RowsOK'
      PROVE  Ends(c, what) /\ Others(c) /\ TypeOK' /\ Sole'
  <2>1. Ends(c, what) /\ Others(c) /\ ControlOK' /\ Sole'
    BY <1>1, <1>2, <1>3, AnswerDoes
  <2>2. TypeOK'
    BY <1>1, <1>3, <2>1, Types DEF RowsOK, RequestOK, SeenOK, TypeOK, ControlOK
  <2> QED BY <2>1, <2>2
<1>4. CASE CommitSignIn(c)
  <2> DEFINE what == IF seen[c].created THEN "created" ELSE "existing"
  <2>1. what \in Verdicts /\ what # "none"
    BY DEF Verdicts
  <2>2. request[c].op = "signIn" /\ Answer(c, what)
    BY <1>4 DEF CommitSignIn
  <2>3. /\ account' = [account EXCEPT ![UserOf(c)] =
                        IF seen[c].created THEN "PENDING_PROFILE" ELSE account[UserOf(c)]]
        /\ roles' = [roles EXCEPT ![UserOf(c)] = roles[UserOf(c)] \cup {"CITIZEN"}]
        /\ session' = [session EXCEPT ![c] = "LIVE"]
        /\ UNCHANGED <<profile, provider>>
    BY <1>4 DEF CommitSignIn
  <2>4. RowsOK'
    BY <1>1, <1>2, <2>3 DEF RowsOK, Statuses
  <2>5. Ends(c, what) /\ Others(c) /\ TypeOK' /\ Sole'
    BY <1>3, <2>1, <2>2, <2>4
  <2>6. \A s \in Sessions : session'[s] = IF s = c THEN "LIVE" ELSE session[s]
    BY <1>2, <2>3 DEF RowsOK
  <2>7. \A u \in Users : account'[u] =
          IF u = UserOf(c) /\ seen[c].created THEN "PENDING_PROFILE" ELSE account[u]
    BY <1>2, <2>3 DEF RowsOK
  <2>8. \A u \in Users : "PROVIDER" \in roles'[u] <=> "PROVIDER" \in roles[u]
    BY <1>2, <2>3 DEF RowsOK
  <2>9. SignsIn(c)
    BY <1>1, <1>2, <2>2, <2>3, <2>5, <2>6, <2>7, <2>8 DEF SignsIn, Commits
  <2> QED BY <2>5, <2>9 DEF Does, Acts
<1>5. CASE CommitProfile(c)
  <2>1. /\ request[c].op = "profile" /\ Answer(c, "profileCompleted")
        /\ profile' = [profile EXCEPT ![UserOf(c)] = TRUE]
        /\ account' = [account EXCEPT ![UserOf(c)] =
                        IF account[UserOf(c)] = "PENDING_PROFILE" THEN "ACTIVE" ELSE account[UserOf(c)]]
        /\ UNCHANGED <<roles, provider, session>>
    BY <1>5 DEF CommitProfile, Saved
  <2>2. RowsOK'
    BY <1>1, <1>2, <2>1 DEF RowsOK, Statuses
  <2>3. Ends(c, "profileCompleted") /\ Others(c) /\ TypeOK' /\ Sole'
    BY <1>3, <2>1, <2>2 DEF Verdicts
  <2>4. \A u \in Users : profile'[u] <=> u = UserOf(c) \/ profile[u]
    BY <1>2, <2>1 DEF RowsOK
  <2>5. \A u \in Users : account'[u] =
          IF u = UserOf(c) /\ account[u] = "PENDING_PROFILE" THEN "ACTIVE" ELSE account[u]
    BY <1>2, <2>1 DEF RowsOK
  <2> QED BY <1>1, <1>2, <2>1, <2>3, <2>4, <2>5 DEF Does, Acts, Completes, Commits
<1>6. CASE CommitProvider(c)
  <2>1. /\ request[c].op = "selfProvider" \/ request[c].op = "provider"
        /\ Answer(c, "provider created")
        /\ provider' = [provider EXCEPT ![UserOf(c)] = provider[UserOf(c)] \cup {c}]
        /\ roles' = [roles EXCEPT ![UserOf(c)] = roles[UserOf(c)] \cup {"PROVIDER"}]
        /\ UNCHANGED <<account, profile, session>>
    BY <1>6 DEF CommitProvider
  <2>2. RowsOK'
    BY <1>1, <1>2, <2>1 DEF RowsOK, Sessions
  <2>3. Ends(c, "provider created") /\ Others(c) /\ TypeOK' /\ Sole'
    BY <1>3, <2>1, <2>2 DEF Verdicts
  <2>4. \A u \in Users : provider'[u] = IF u = UserOf(c) THEN provider[u] \cup {c} ELSE provider[u]
    BY <1>2, <2>1 DEF RowsOK
  <2>5. \A u \in Users : "PROVIDER" \in roles'[u] <=> u = UserOf(c) \/ "PROVIDER" \in roles[u]
    BY <1>2, <2>1 DEF RowsOK
  <2> QED BY <1>1, <1>2, <2>1, <2>3, <2>4, <2>5 DEF Does, Acts, Provides, Commits
<1>7. CASE CommitSignOut(c)
  <2>1. /\ request[c].op = "signOut" /\ Answer(c, "revoked")
        /\ session' = [session EXCEPT ![request[c].session] = "REVOKED"]
        /\ UNCHANGED <<account, roles, profile, provider>>
    BY <1>7 DEF CommitSignOut
  <2>2. RowsOK'
    BY <1>2, <2>1 DEF RowsOK
  <2>3. Ends(c, "revoked") /\ Others(c) /\ TypeOK' /\ Sole'
    BY <1>3, <2>1, <2>2 DEF Verdicts
  <2>4. \A s \in Sessions : session'[s] = IF s = request[c].session THEN "REVOKED" ELSE session[s]
    BY <1>2, <2>1 DEF RowsOK
  <2> QED BY <1>1, <1>2, <2>1, <2>3, <2>4 DEF Does, Acts, SignsOut, Commits
<1>8. CASE CommitServices(c)
  <2>1. request[c].op = "services" /\ Answer(c, "added") /\ UNCHANGED rows
    BY <1>8 DEF CommitServices
  <2>2. RowsOK'
    BY <1>2, <2>1 DEF RowsOK, rows
  <2>3. Ends(c, "added") /\ Others(c) /\ TypeOK' /\ Sole'
    BY <1>3, <2>1, <2>2 DEF Verdicts
  <2> QED BY <1>1, <1>2, <2>1, <2>3 DEF Does, Acts, Serves, Commits
<1> QED BY <1>4, <1>5, <1>6, <1>7, <1>8 DEF Commit

LEMMA NextDoes ==
    ASSUME Setting, IInv, Next
    PROVE  \E c \in Calls : Does(c)
<1>1. PICK c \in Calls : \/ SignInArrives(c) \/ ActorArrives(c) \/ AdminArrives(c)
                        \/ Step(c) \/ Lost(c)
  BY DEF Next
<1>2. CASE Lost(c)
  <2>1. step[c] \notin {"idle", "done"} /\ Refuse(c, "lost")
    BY <1>2 DEF Lost
  <2> QED BY <2>1, RefuseDoes DEF Verdicts, IInv
<1> QED BY <1>1, <1>2, ArrivalDoes, SignInDoes, ProviderDoes, ServiceDoes, ReadDoes, CommitDoes DEF Step

----------------------------------------------------------------------------
(* The theorems. *)

LEMMA Invariance == ASSUME Setting PROVE Spec => []IInv
<1>1. ASSUME Init PROVE IInv
  <2>1. TypeOK
    BY <1>1 DEF Init, TypeOK, Statuses, Steps, Verdicts, Nobody, Unread, Sessions, Parts
  <2>2. Sole
    BY <1>1 DEF Init, Sole
  <2>3. ASSUME NEW u \in Users PROVE Agree(u)
    <3>1. session[u] # "NONE" => Exists(u)
      BY <1>1 DEF Init, Exists, Sessions
    <3>2. provider[u] \subseteq {u} /\ (provider[u] # {} => "PROVIDER" \in roles[u])
      BY <1>1 DEF Init
    <3>3. /\ profile[u] => account[u] = "ACTIVE"
          /\ u \notin SeededUsers =>
               /\ account[u] = "ACTIVE" => profile[u]
               /\ "PROVIDER" \in roles[u] => profile[u]
      BY <1>1 DEF Init
    <3> QED BY <3>1, <3>2, <3>3 DEF Agree
  <2>4. \A c \in Calls : Call(c)
    BY <1>1 DEF Init, Call, Flow, Met, Creates, Revokes, Claimant, Reading, Nobody, Unread, UserOf,
               Setting, Sessions, Provider
  <2>5. \A c, d \in Calls : Apart(c, d)
    BY <1>1 DEF Init, Apart
  <2> QED BY <2>1, <2>2, <2>3, <2>4, <2>5 DEF IInv
<1>2. ASSUME IInv, Next PROVE IInv'
  <2>1. PICK c \in Calls : Does(c)
    BY <1>2, NextDoes
  <2>2. Acts(c) /\ Others(c) /\ TypeOK' /\ Sole'
    BY <2>1 DEF Does
  <2>3. \A u \in Users : Agree(u)'
    BY <1>2, <2>2, AgreeStep
  <2>4. \A d \in Calls : Call(d)'
    BY <1>2, <2>2, OwnStep, OtherStep
  <2>5. ASSUME NEW x \in Calls, NEW y \in Calls \ {x} PROVE Apart(x, y)'
    <3>1. CASE x = c \/ y = c
      BY <1>2, <2>2, <3>1, ApartStep
    <3>2. CASE x # c /\ y # c
      BY <1>2, <2>2, <3>2 DEF Others, IInv, Apart, UserOf
    <3> QED BY <3>1, <3>2
  <2> QED BY <2>2, <2>3, <2>4, <2>5 DEF IInv
<1>3. ASSUME IInv, UNCHANGED vars PROVE IInv'
  <2> USE <1>3 DEF vars
  <2>1. TypeOK' /\ Sole'
    BY DEF IInv, TypeOK, Sole
  <2>2. \A u \in Users : Agree(u)'
    BY DEF IInv, Agree, Exists
  <2>3. ASSUME NEW c \in Calls PROVE Call(c)'
    <3>1. Call(c)
      BY DEF IInv
    <3> QED BY <3>1 DEF Call, Flow, Met, Creates, Revokes, Claimant, Reading, UserOf, Exists, Holds
  <2>4. \A c \in Calls : \A d \in Calls \ {c} : Apart(c, d)'
    BY DEF IInv, Apart, UserOf
  <2> QED BY <2>1, <2>2, <2>3, <2>4 DEF IInv
<1> QED BY <1>1, <1>2, <1>3, PTL DEF Spec

\* A set whose members are all equal has at most one.
LEMMA AtMostOne == ASSUME NEW S, \A x, y \in S : x = y PROVE Cardinality(S) \in {0, 1}
<1>1. CASE S = {}
  BY <1>1, FS_EmptySet
<1>2. CASE S # {}
  <2>1. PICK x \in S : S = {x}
    BY <1>2
  <2> QED BY <2>1, FS_Singleton
<1> QED BY <1>1, <1>2

\* Every row, lock, request and answer stays in its set, only a running
\* transaction holds locks, and only an ended call has its answer.
THEOREM AccountsTypeCorrect == ASSUME Setting PROVE Spec => []TypeOK
<1>1. IInv => TypeOK
  BY DEF IInv
<1> QED BY <1>1, Invariance, PTL

\* Of any number of first sign-ins of a mailbox, at most one is told that it
\* created the account (insert account and read status of the callback).
THEOREM AccountsCreateOnce == ASSUME Setting PROVE Spec => []CreatedOnce
<1>1. ASSUME IInv, NEW u \in Users
      PROVE  LET created == {c \in Calls : UserOf(c) = u /\ answer[c] = "created"}
             IN  Cardinality(created) <= IF session[u] = "NONE" THEN 1 ELSE 0
  <2> DEFINE created == {c \in Calls : UserOf(c) = u /\ answer[c] = "created"}
  <2>1. Cardinality(created) \in {0, 1}
    BY <1>1, AtMostOne DEF IInv, Apart
  <2>2. session[u] # "NONE" => created = {}
    BY <1>1 DEF IInv, Call, Creates
  <2>3. session[u] # "NONE" => Cardinality(created) = 0
    BY <2>2, FS_EmptySet
  <2> HIDE DEF created
  <2>4. Cardinality(created) <= IF session[u] = "NONE" THEN 1 ELSE 0
    BY <2>1, <2>3
  <2> QED BY <2>4 DEF created
<1>2. IInv => CreatedOnce
  BY <1>1 DEF CreatedOnce
<1> QED BY <1>2, Invariance, PTL

\* Concurrent requests for a provider profile leave one row, of a user who holds
\* the role and, unless the rows were seeded, has completed the profile.
THEOREM AccountsOneProvider == ASSUME Setting PROVE Spec => []OneProvider
<1>1. ASSUME IInv, NEW u \in Users PROVE Cardinality(provider[u]) <= 1
  <2>1. Cardinality(provider[u]) \in {0, 1}
    BY <1>1, AtMostOne DEF IInv, Agree
  <2> QED BY <2>1
<1>2. IInv => OneProvider
  BY <1>1 DEF OneProvider, IInv, Agree
<1> QED BY <1>2, Invariance, PTL

\* A profile makes its account ACTIVE, and only seeded accounts are ACTIVE, or
\* shown ACTIVE by GET /v1/me, without one.
THEOREM AccountsProfileGate == ASSUME Setting PROVE Spec => []ProfileGate
<1>1. IInv => ProfileGate
  BY DEF IInv, Agree, Call, Reading, ProfileGate
<1> QED BY <1>1, Invariance, PTL

\* Of any number of sign-outs of a session, one is told that it revoked it.
THEOREM AccountsRevokeOnce == ASSUME Setting PROVE Spec => []RevokedOnce
<1>1. ASSUME IInv, NEW s \in Sessions
      PROVE  Cardinality({c \in Calls : answer[c] = "revoked" /\ request[c].session = s}) <= 1
  <2> DEFINE told == {c \in Calls : answer[c] = "revoked" /\ request[c].session = s}
  <2>1. Cardinality(told) \in {0, 1}
    BY <1>1, AtMostOne DEF IInv, Apart
  <2> QED BY <2>1
<1>2. IInv => RevokedOnce
  BY <1>1 DEF RevokedOnce
<1> QED BY <1>2, Invariance, PTL
----------------------------------------------------------------------------
(* No circle of waits. *)

RowOf(u) == <<"provider row", u>>

\* At which step a call can still be that holds a lock of this kind, and that
\* who holds a service holds the row of its provider.
Fits(l) ==
    \A c, u, code : l.call = c =>
        /\ l.key = <<"email", u>> => step[c] \in {"insert session", "commit"}
        /\ l.key = <<"account", u>> =>
             /\ step[c] \in {"insert provider", "commit"}
             /\ l.mode = "OWN" => step[c] = "commit"
        /\ l.key = <<"role", u>> => step[c] \in {"insert provider", "commit"}
        /\ l.key = <<"provider", u>> => step[c] = "commit"
        /\ l.key = <<"session", u>> => step[c] = "commit"
        /\ l.key = RowOf(u) => step[c] \in {"upsert", "commit"}
        /\ l.key = <<"service", u, code>> => step[c] \in {"upsert", "commit"} /\ Holds(c, RowOf(u))
Upserting(c) == step[c] = "upsert" => Holds(c, RowOf(UserOf(c)))
LockInv == (\A l \in locks : Fits(l)) /\ (\A c \in Calls : Upserting(c))

\* The statement c is at does not get past lock l.  (The code is one that c has
\* still to insert; it waits for none of them.)
BlockedBy(c, l) ==
    \/ step[c] = "insert account" /\ l.key = <<"email", UserOf(c)>>
    \/ step[c] = "lock account" /\ l.key = Account(c)
    \/ /\ step[c] \in {"insert session", "grant role", "insert provider"}
       /\ l.key = Account(c) /\ l.mode = "OWN"
    \/ step[c] = "grant role" /\ l.key = <<"role", UserOf(c)>>
    \/ step[c] = "insert provider" /\ l.key = <<"provider", UserOf(c)>>
    \/ step[c] = "lock provider" /\ l.key = RowOf(UserOf(c))
    \/ step[c] = "upsert" /\ l.mode = "OWN" /\ \E code : l.key = <<"service", UserOf(c), code>>
    \/ step[c] = "lock session" /\ l.key = SessionKey(c)
WaitsFor(c, d) == c # d /\ \E l \in locks : l.call = d /\ BlockedBy(c, l)

NoCircle ==
    \A S \in SUBSET Calls : S # {} => \E c \in S : \A d \in S : ~WaitsFor(c, d)

\* Every wait goes down: a call at its last locks waits for nobody, one that
\* holds keys for such a call only.
Last(c) == step[c] \in {"upsert", "commit"}
Middle(c) == step[c] \in {"insert session", "insert provider"}

LEMMA WaitsGoDown ==
    ASSUME IInv, LockInv, NEW c \in Calls, NEW d \in Calls, WaitsFor(c, d)
    PROVE  ~Last(c) /\ (Last(d) \/ (Middle(d) /\ ~Middle(c)))
<1>1. PICK l \in locks : l.call = d /\ BlockedBy(c, l)
  BY DEF WaitsFor
<1>2. c # d /\ Upserting(c) /\ Sole /\ Fits(l)
  BY <1>1 DEF WaitsFor, LockInv, IInv
<1> USE <1>1, <1>2
<1>3. CASE step[c] = "insert account" /\ l.key = <<"email", UserOf(c)>>
  BY <1>3 DEF Fits, Last, Middle
<1>4. CASE step[c] = "lock account" /\ l.key = Account(c)
  BY <1>4 DEF Fits, Last, Middle, Account
<1>5. CASE /\ step[c] \in {"insert session", "grant role", "insert provider"}
           /\ l.key = Account(c) /\ l.mode = "OWN"
  BY <1>5 DEF Fits, Last, Account
<1>6. CASE step[c] = "grant role" /\ l.key = <<"role", UserOf(c)>>
  BY <1>6 DEF Fits, Last, Middle
<1>7. CASE step[c] = "insert provider" /\ l.key = <<"provider", UserOf(c)>>
  BY <1>7 DEF Fits, Last
<1>8. CASE step[c] = "lock provider" /\ l.key = RowOf(UserOf(c))
  BY <1>8 DEF Fits, Last
<1>9. CASE step[c] = "upsert" /\ \E code : l.key = <<"service", UserOf(c), code>>
  <2>1. Holds(d, RowOf(UserOf(c))) /\ Holds(c, RowOf(UserOf(c)))
    BY <1>9 DEF Fits, Upserting
  <2> QED BY <2>1, OneHolder
<1>10. CASE step[c] = "lock session" /\ l.key = SessionKey(c)
  BY <1>10 DEF Fits, Last, SessionKey
<1> QED BY <1>3, <1>4, <1>5, <1>6, <1>7, <1>8, <1>9, <1>10 DEF BlockedBy

LEMMA NoCircleOfCalls ==
    ASSUME IInv, LockInv
    PROVE  NoCircle
<1> SUFFICES ASSUME NEW S \in SUBSET Calls, S # {}, \A c \in S : \E d \in S : WaitsFor(c, d)
             PROVE  FALSE
  BY DEF NoCircle
<1>1. \A c \in S : \E d \in S : ~Last(c) /\ (Last(d) \/ (Middle(d) /\ ~Middle(c)))
  BY WaitsGoDown
<1>2. \A c \in S : ~Last(c)
  BY <1>1
<1>3. \A c \in S : ~Middle(c)
  BY <1>1, <1>2
<1> QED BY <1>1, <1>2, <1>3

\* A statement keeps the locks of its call in step, and takes none of others.
LEMMA StatementLocks ==
    ASSUME IInv, LockInv, NEW c \in Calls, NEW taken, NEW next, Statement(c, taken, next),
           \A l \in locks \cup taken : l.call = c => Fits(l)',
           \A l \in taken : l.call = c,
           Upserting(c)'
    PROVE  LockInv'
<1>1. /\ locks' = locks \cup taken /\ step' = [step EXCEPT ![c] = next] /\ request' = request
      /\ step \in [Calls -> Steps]
  BY DEF Statement, Goto, IInv, TypeOK
<1>2. ASSUME NEW l \in locks, l.call # c PROVE Fits(l)'
  <2>1. \A d : l.call = d => step'[d] = step[d] /\ d # c
    BY <1>1, <1>2 DEF IInv, TypeOK
  <2>2. Fits(l)
    BY DEF LockInv
  <2>3. \A d, key : Holds(d, key) => Holds(d, key)'
    BY <1>1 DEF Holds
  <2> QED BY <2>1, <2>2, <2>3 DEF Fits
<1>3. ASSUME NEW d \in Calls \ {c} PROVE Upserting(d)'
  BY <1>1 DEF LockInv, Upserting, Holds, UserOf
<1> QED BY <1>1, <1>2, <1>3 DEF LockInv

\* The end of a transaction gives up all its locks.
LEMMA AnswerLocks ==
    ASSUME IInv, LockInv, NEW c \in Calls, NEW what, Answer(c, what), UNCHANGED request
    PROVE  LockInv'
<1>1. /\ locks' = {l \in locks : l.call # c} /\ step' = [step EXCEPT ![c] = "done"]
      /\ step \in [Calls -> Steps]
  BY DEF Answer, Goto, IInv, TypeOK
<1>2. ASSUME NEW l \in locks, l.call # c PROVE Fits(l)'
  <2>1. \A d : l.call = d => step'[d] = step[d] /\ d # c
    BY <1>1, <1>2 DEF IInv, TypeOK
  <2>2. Fits(l)
    BY DEF LockInv
  <2> QED BY <1>1, <2>1, <2>2 DEF Fits, Holds, Lock
<1>3. ASSUME NEW d \in Calls \ {c} PROVE Upserting(d)'
  BY <1>1 DEF LockInv, Upserting, Holds, UserOf, Lock
<1>4. Upserting(c)'
  BY <1>1 DEF Upserting
<1> QED BY <1>1, <1>2, <1>3, <1>4 DEF LockInv

\* A call that arrives holds nothing.
LEMMA ArrivalLocks ==
    ASSUME IInv, LockInv, NEW c \in Calls, NEW op, NEW u, NEW role, NEW s, Start(c, op, u, role, s),
           FirstStep(op) # "upsert"
    PROVE  LockInv'
<1>1. /\ locks' = locks /\ step[c] = "idle" /\ step' = [step EXCEPT ![c] = FirstStep(op)]
      /\ \A d \in Calls \ {c} : step'[d] = step[d] /\ request'[d] = request[d]
      /\ step \in [Calls -> Steps]
  BY DEF Start, Goto, IInv, TypeOK
<1>2. \A l \in locks : l.call \in Calls \ {c}
  BY <1>1 DEF IInv, TypeOK
<1>3. ASSUME NEW l \in locks PROVE Fits(l)'
  <2>1. \A d : l.call = d => step'[d] = step[d]
    BY <1>1, <1>2
  <2>2. \A d, key : Holds(d, key) => Holds(d, key)'
    BY <1>1 DEF Holds
  <2>3. Fits(l)
    BY DEF LockInv
  <2> QED BY <2>1, <2>2, <2>3, Zenon DEF Fits
<1>4. ASSUME NEW d \in Calls PROVE Upserting(d)'
  BY <1>1 DEF LockInv, Upserting, Holds, UserOf
<1> QED BY <1>1, <1>3, <1>4 DEF LockInv

\* What a call holds fits the step it goes to.
Onward(c, next) ==
    \/ step[c] \notin {"insert session", "insert provider", "upsert", "commit"}
    \/ step[c] \in {"insert session", "insert provider"} /\ next = "commit"
    \/ step[c] = "upsert" /\ next \in {"upsert", "commit"}
LEMMA OldLocks ==
    ASSUME IInv, LockInv, NEW c \in Calls, NEW taken, NEW next, Statement(c, taken, next),
           Onward(c, next), NEW l \in locks, l.call = c
    PROVE  Fits(l)'
<1>1. step'[c] = next
  BY DEF Statement, Goto, IInv, TypeOK
<1>2. Fits(l)
  BY DEF LockInv
<1>3. \A d, key : Holds(d, key) => Holds(d, key)'
  BY DEF Holds, Statement
<1>4. \A d : l.call = d => d = c
  OBVIOUS
<1>5. CASE step[c] \notin {"insert session", "insert provider", "upsert", "commit"}
  BY <1>2, <1>4, <1>5 DEF Fits
<1>6. CASE step[c] \in {"insert session", "insert provider"} /\ next = "commit"
  BY <1>1, <1>2, <1>4, <1>6 DEF Fits
<1>7. CASE step[c] = "upsert" /\ next \in {"upsert", "commit"}
  BY <1>1, <1>2, <1>3, <1>4, <1>7 DEF Fits
<1> QED BY <1>5, <1>6, <1>7 DEF Onward

\* Keys of different kinds differ.
Other(kind, key) ==
    /\ \A u : /\ kind # "email" => key # <<"email", u>>
              /\ kind # "account" => key # <<"account", u>>
              /\ kind # "role" => key # <<"role", u>>
              /\ kind # "provider" => key # <<"provider", u>>
              /\ kind # "session" => key # <<"session", u>>
              /\ kind # "provider row" => key # RowOf(u)
    /\ kind # "service" => \A u, code : key # <<"service", u, code>>
LEMMA KindsDiffer ==
    ASSUME NEW u
    PROVE  /\ Other("email", <<"email", u>>) /\ Other("account", <<"account", u>>)
           /\ Other("role", <<"role", u>>) /\ Other("provider", <<"provider", u>>)
           /\ Other("session", <<"session", u>>) /\ Other("provider row", RowOf(u))
           /\ \A code : Other("service", <<"service", u, code>>)
<1>1. ASSUME NEW kind, NEW v, NEW w, kind # w PROVE <<kind, u>> # <<w, v>>
  BY <1>1
<1>2. \A kind, v, code : <<kind, u>> # <<"service", v, code>>
  OBVIOUS
<1>3. \A kind : Other(kind, <<kind, u>>)
  BY <1>1, <1>2 DEF Other, RowOf
<1>4. ASSUME NEW code PROVE Other("service", <<"service", u, code>>)
  BY Zenon DEF Other, RowOf
<1> QED BY <1>3, <1>4 DEF RowOf

\* A lock that is taken fits the step its call goes to.
NewFits(c, l) == l.call = c /\ Fits(l)'
LEMMA NewLock ==
    ASSUME NEW c, NEW key, NEW mode, NEW l, l = Lock(c, key, mode)
    PROVE  \A u :
             /\ key = <<"email", u>> /\ step'[c] \in {"insert session", "commit"} => NewFits(c, l)
             /\ key = <<"account", u>> /\ step'[c] = "commit" => NewFits(c, l)
             /\ key = <<"account", u>> /\ step'[c] = "insert provider" /\ mode = "SHARE" =>
                  NewFits(c, l)
             /\ key = <<"role", u>> /\ step'[c] = "insert provider" => NewFits(c, l)
             /\ key = <<"provider", u>> /\ step'[c] = "commit" => NewFits(c, l)
             /\ key = <<"session", u>> /\ step'[c] = "commit" => NewFits(c, l)
             /\ key = RowOf(u) /\ step'[c] = "upsert" => NewFits(c, l)
             /\ \A code :
                  /\ key = <<"service", u, code>> /\ step'[c] \in {"upsert", "commit"}
                  /\ Holds(c, RowOf(u))'
                  => NewFits(c, l)
<1>1. l.call = c /\ l.key = key /\ l.mode = mode
  BY DEF Lock
<1> TAKE u
<1>2. key = <<"email", u>> /\ step'[c] \in {"insert session", "commit"} => NewFits(c, l)
  BY <1>1, KindsDiffer, Zenon DEF NewFits, Fits, Other
<1>3. /\ key = <<"account", u>>
      /\ step'[c] = "commit" \/ (step'[c] = "insert provider" /\ mode = "SHARE")
      => NewFits(c, l)
  BY <1>1, KindsDiffer, Zenon DEF NewFits, Fits, Other
<1>4. key = <<"role", u>> /\ step'[c] = "insert provider" => NewFits(c, l)
  BY <1>1, KindsDiffer, Zenon DEF NewFits, Fits, Other
<1>5. key = <<"provider", u>> /\ step'[c] = "commit" => NewFits(c, l)
  BY <1>1, KindsDiffer, Zenon DEF NewFits, Fits, Other
<1>6. key = <<"session", u>> /\ step'[c] = "commit" => NewFits(c, l)
  BY <1>1, KindsDiffer, Zenon DEF NewFits, Fits, Other
<1>7. key = RowOf(u) /\ step'[c] = "upsert" => NewFits(c, l)
  BY <1>1, KindsDiffer, Zenon DEF NewFits, Fits, Other
<1>8. ASSUME NEW code, key = <<"service", u, code>>, step'[c] \in {"upsert", "commit"},
             Holds(c, RowOf(u))'
      PROVE  NewFits(c, l)
  <2>1. Other("service", l.key)
    BY <1>1, <1>8, KindsDiffer
  <2>2. \A v, w : l.key = <<"service", v, w>> => v = u
    BY <1>1, <1>8
  <2> QED BY <1>1, <1>8, <2>1, <2>2, Zenon DEF NewFits, Fits, Other
<1> QED BY <1>2, <1>3, <1>4, <1>5, <1>6, <1>7, <1>8, Zenon

\* The statements that take locks or none.
Taken(c, taken, next) ==
    /\ Statement(c, taken, next) /\ Onward(c, next)
    /\ \A l \in taken : NewFits(c, l)
LEMMA TakenKeep ==
    ASSUME IInv, LockInv, NEW c \in Calls, NEW taken, NEW next, Taken(c, taken, next), Upserting(c)'
    PROVE  LockInv'
BY OldLocks, StatementLocks DEF Taken, NewFits

LEMMA StepLocks ==
    ASSUME IInv, LockInv, NEW c \in Calls, Step(c)
    PROVE  LockInv'
<1>1. step \in [Calls -> Steps]
  BY DEF IInv, TypeOK
<1>2. ASSUME NEW taken, NEW next, Statement(c, taken, next)
      PROVE  step'[c] = next /\ \A l \in taken : l \in locks'
  BY <1>1, <1>2 DEF Statement, Goto
<1>3. ASSUME NEW taken, NEW next, Taken(c, taken, next), next # "upsert" PROVE LockInv'
  <2>1. Upserting(c)'
    BY <1>2, <1>3 DEF Taken, Upserting
  <2> QED BY <1>3, <2>1, TakenKeep
<1>4. ASSUME NEW what, Answer(c, what), UNCHANGED request PROVE LockInv'
  BY <1>4, AnswerLocks
<1>5. ASSUME NEW what, Refuse(c, what) PROVE LockInv'
  BY <1>4, <1>5 DEF Refuse
<1>6. ASSUME NEW next, Statement(c, {}, next), next # "upsert", Onward(c, next) PROVE LockInv'
  BY <1>3, <1>6 DEF Taken
<1>7. ASSUME NEW l, NEW next, next # "upsert", Onward(c, next), Statement(c, {l}, next),
             NewFits(c, l)
      PROVE  LockInv'
  BY <1>3, <1>7 DEF Taken
<1>8. CASE Exchange(c) \/ ReadStatus(c) \/ FindProvider(c) \/ FindRole(c) \/ OwnProvider(c)
  BY <1>5, <1>6, <1>8, Zenon DEF Exchange, ReadStatus, FindProvider, FindRole, OwnProvider, Onward
<1>9. CASE Read(c)
  BY <1>4, <1>6, <1>9, Zenon DEF Read, Onward
<1>10. CASE InsertAccount(c)
  <2>1. ASSUME NEW l, l = Lock(c, <<"email", UserOf(c)>>, "OWN"),
               Statement(c, {l}, "insert session"), step[c] = "insert account"
        PROVE  LockInv'
    <3>1. NewFits(c, l)
      BY <1>2, <2>1, NewLock, Zenon
    <3> QED BY <1>7, <2>1, <3>1, Zenon DEF Onward
  <2> QED BY <1>6, <1>10, <2>1, Zenon DEF InsertAccount, Onward
<1>11. CASE InsertSession(c) \/ LockAccount(c)
  <2>1. ASSUME NEW mode, NEW l, l = Lock(c, Account(c), mode), Statement(c, {l}, "commit"),
               Onward(c, "commit")
        PROVE  LockInv'
    <3> DEFINE key == <<"account", UserOf(c)>>
    <3>1. l = Lock(c, key, mode) /\ step'[c] = "commit"
      BY <1>2, <2>1, Zenon DEF Account
    <3>2. NewFits(c, l)
      BY <3>1, NewLock, Zenon
    <3> QED BY <1>7, <2>1, <3>2, Zenon
  <2> QED BY <1>11, <2>1, Zenon DEF InsertSession, LockAccount, Onward
<1>12. CASE GrantRole(c)
  <2>1. ASSUME NEW l, NEW m, l = Lock(c, <<"role", UserOf(c)>>, "OWN"), m = Lock(c, Account(c), "SHARE"),
               Statement(c, {l, m}, "insert provider"), step[c] = "grant role"
        PROVE  LockInv'
    <3>1. NewFits(c, l) /\ NewFits(c, m)
      BY <1>2, <2>1, NewLock, Zenon DEF Account
    <3>2. Onward(c, "insert provider")
      BY <2>1, Zenon DEF Onward
    <3>3. \A x \in {l, m} : NewFits(c, x)
      BY <3>1
    <3>4. Taken(c, {l, m}, "insert provider")
      BY <2>1, <3>2, <3>3, Zenon DEF Taken
    <3> QED BY <1>3, <3>4, Zenon
  <2> QED BY <1>6, <1>12, <2>1, Zenon DEF GrantRole, Onward
<1>13. CASE InsertProvider(c)
  <2>1. ASSUME NEW l, NEW m, l = Lock(c, <<"provider", UserOf(c)>>, "OWN"), m = Lock(c, Account(c), "SHARE"),
               Statement(c, {l, m}, "commit"), step[c] = "insert provider"
        PROVE  LockInv'
    <3>1. NewFits(c, l) /\ NewFits(c, m)
      BY <1>2, <2>1, NewLock, Zenon DEF Account
    <3>2. Onward(c, "commit")
      BY <2>1, Zenon DEF Onward
    <3>3. \A x \in {l, m} : NewFits(c, x)
      BY <3>1
    <3>4. Taken(c, {l, m}, "commit")
      BY <2>1, <3>2, <3>3, Zenon DEF Taken
    <3> QED BY <1>3, <3>4, Zenon
  <2> QED BY <1>5, <1>13, <2>1, Zenon DEF InsertProvider
<1>14. CASE LockProvider(c)
  <2>1. ASSUME NEW l, l = Lock(c, RowOf(UserOf(c)), "OWN"), Statement(c, {l}, "upsert"),
               step[c] = "lock provider"
        PROVE  LockInv'
    <3>1. step'[c] = "upsert" /\ l \in locks' /\ UserOf(c)' = UserOf(c)
      BY <1>2, <2>1, Zenon DEF Statement, UserOf
    <3>2. NewFits(c, l)
      BY <2>1, <3>1, NewLock, Zenon
    <3>3. Upserting(c)'
      BY <2>1, <3>1, Zenon DEF Upserting, Holds
    <3>4. Onward(c, "upsert")
      BY <2>1, Zenon DEF Onward
    <3>5. \A x \in {l} : NewFits(c, x)
      BY <3>2
    <3>6. Taken(c, {l}, "upsert")
      BY <2>1, <3>4, <3>5, Zenon DEF Taken
    <3> QED BY <3>3, <3>6, TakenKeep, Zenon
  <2> QED BY <1>5, <1>14, <2>1, Zenon DEF LockProvider, ProviderLock, RowOf
<1>15. CASE Upsert(c)
  <2>1. Holds(c, RowOf(UserOf(c))) /\ step[c] = "upsert"
    BY <1>15, Zenon DEF Upsert, LockInv, Upserting
  <2>2. ASSUME NEW code, NEW next \in {"upsert", "commit"}, NEW l,
               l = Lock(c, <<"service", UserOf(c), code>>, "OWN"), Statement(c, {l}, next)
        PROVE  LockInv'
    <3>1. step'[c] = next /\ UserOf(c)' = UserOf(c) /\ Holds(c, RowOf(UserOf(c)))'
      BY <1>2, <2>1, <2>2, Zenon DEF Statement, UserOf, Holds
    <3>2. NewFits(c, l)
      BY <2>2, <3>1, NewLock, Zenon
    <3>3. Upserting(c)'
      BY <3>1, Zenon DEF Upserting
    <3>4. Onward(c, next)
      BY <2>1, Zenon DEF Onward
    <3>5. \A x \in {l} : NewFits(c, x)
      BY <3>2
    <3>6. Taken(c, {l}, next)
      BY <2>2, <3>4, <3>5, Zenon DEF Taken
    <3> QED BY <3>3, <3>6, TakenKeep, Zenon
  <2> QED BY <1>15, <2>2, Zenon DEF Upsert
<1>16. CASE LockSession(c)
  <2>1. ASSUME NEW l, l = Lock(c, SessionKey(c), "OWN"), Statement(c, {l}, "commit"),
               step[c] = "lock session"
        PROVE  LockInv'
    <3>1. NewFits(c, l)
      BY <1>2, <2>1, NewLock, Zenon DEF SessionKey
    <3> QED BY <1>7, <2>1, <3>1, Zenon DEF Onward
  <2> QED BY <1>5, <1>16, <2>1, Zenon DEF LockSession
<1>17. CASE Commit(c)
  BY <1>4, <1>17, Zenon DEF Commit, CommitSignIn, CommitProfile, CommitProvider, CommitSignOut,
     CommitServices
<1> QED BY <1>8, <1>9, <1>10, <1>11, <1>12, <1>13, <1>14, <1>15, <1>16, <1>17 DEF Step

LEMMA LocksKept ==
    ASSUME IInv, LockInv, [Next]_vars
    PROVE  LockInv'
<1>1. CASE UNCHANGED vars
  <2>1. locks' = locks /\ step' = step /\ request' = request
    BY <1>1 DEF vars
  <2>2. \A d, key : Holds(d, key) => Holds(d, key)'
    BY <2>1 DEF Holds
  <2>3. ASSUME NEW l, Fits(l) PROVE Fits(l)'
    BY <2>1, <2>2, <2>3, Zenon DEF Fits
  <2>4. \A c : Upserting(c) => Upserting(c)'
    BY <2>1, Zenon DEF Upserting, UserOf, Holds
  <2> QED BY <2>1, <2>3, <2>4 DEF LockInv
<1>2. ASSUME NEW c \in Calls, NEW op, NEW u, NEW role, NEW s, op \in Ops, Start(c, op, u, role, s)
      PROVE  LockInv'
  <2>1. FirstStep(op) # "upsert"
    BY <1>2, FirstSteps DEF First, Ops
  <2> QED BY <1>2, <2>1, ArrivalLocks
<1>3. ASSUME NEW c \in Calls, SignInArrives(c) \/ ActorArrives(c) \/ AdminArrives(c) PROVE LockInv'
  <2>1. CASE SignInArrives(c)
    BY <1>2, <2>1 DEF SignInArrives, Ops
  <2>2. CASE ActorArrives(c)
    BY <1>2, <2>2, Zenon DEF ActorArrives
  <2>3. CASE AdminArrives(c)
    <3>1. PICK u \in Users, op \in {"provider", "services"} : Start(c, op, u, "ADMIN", "none")
      BY <2>3 DEF AdminArrives
    <3>2. op \in Ops
      BY DEF Ops
    <3> QED BY <1>2, <3>1, <3>2
  <2> QED BY <1>3, <2>1, <2>2, <2>3
<1>4. ASSUME NEW c \in Calls, Lost(c) PROVE LockInv'
  BY <1>4, AnswerLocks, Zenon DEF Lost, Refuse
<1> QED BY <1>1, <1>3, <1>4, StepLocks DEF Next

\* However many users, calls and codes there are: among calls that wait for
\* each other's keys and rows one waits for none of them.  Sign-ins, profiles, provider profiles and services
\* never block each other for good, services named in any order included.
THEOREM AccountsNeverDeadlock == ASSUME Setting PROVE Spec => []NoCircle
<1>1. Init => LockInv
  BY DEF Init, LockInv, Upserting
<1>2. IInv /\ LockInv /\ [Next]_vars => LockInv'
  BY LocksKept
<1>3. IInv /\ LockInv => NoCircle
  BY NoCircleOfCalls
<1> QED BY <1>1, <1>2, <1>3, Invariance, PTL DEF Spec
=============================================================================
