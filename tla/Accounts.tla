------------------------------ MODULE Accounts ------------------------------
(***************************************************************************)
(* Accounts, sessions, citizen profiles and provider profiles: sign-in     *)
(* with Google, /v1/me, /v1/me/profile, /v1/me/provider, /v1/providers,    *)
(* the services of a provider and sign-out, statement by statement.        *)
(*                                                                         *)
(* A transaction's writes are applied when it commits; until then others   *)
(* meet only its locks: keys it has inserted, rows it has locked, and the  *)
(* KEY SHARE lock a foreign key takes on the account.                      *)
(***************************************************************************)
EXTENDS Naturals, FiniteSets

CONSTANTS Users, Calls,
          SeededUsers,   \* those with rows of scripts/seed-dev.ts or of the database owner
          Codes          \* the taxonomy codes every offer names

VARIABLES account,    \* [Users -> {"NONE", "PENDING_PROFILE", "ACTIVE"}]
          roles,      \* [Users -> SUBSET {"CITIZEN", "PROVIDER"}]
          profile,    \* [Users -> BOOLEAN]: the citizen_profile row
          provider,   \* [Users -> SUBSET (Users \cup Calls)]: rows, by who created them
          session,    \* [Sessions -> {"NONE", "LIVE", "REVOKED"}]
          locks,      \* [call, key, mode]
          request,    \* [Calls -> [op, user, role, session]]
          step, seen, answer

vars == <<account, roles, profile, provider, session, locks, request, step, seen, answer>>
rows == <<account, roles, profile, provider, session>>

\* The session of user u issued before this history, and one of each sign-in.
Sessions == Users \cup Calls
UserOf(c) == request[c].user
OwnerOf(s) == IF s \in Users THEN s ELSE UserOf(s)

Ops == {"signIn", "profile", "selfProvider", "provider", "services", "me", "signOut"}
FirstStep(op) ==
    [signIn |-> "exchange", profile |-> "lock account", selfProvider |-> "find provider",
     provider |-> "find role", services |-> "own provider", me |-> "read",
     signOut |-> "lock session"][op]
Nobody == [op |-> "none", user |-> "none", role |-> "none", session |-> "none"]
Unread == [created |-> FALSE, status |-> "NONE", read |-> {}, profile |-> FALSE]

\* What was there before.  The endpoints leave an account ACTIVE with its profile
\* and a PROVIDER role with its provider; the seed and the owner write ACTIVE
\* accounts, role grants and providers, each without the others they need not.
Init ==
    /\ account \in [Users -> {"NONE", "PENDING_PROFILE", "ACTIVE"}]
    /\ roles \in [Users -> SUBSET {"CITIZEN", "PROVIDER"}]
    /\ profile \in [Users -> BOOLEAN]
    /\ provider \in [Users -> SUBSET Users]
    /\ \A u \in Users :
         /\ account[u] = "NONE" => roles[u] = {}
         /\ profile[u] => account[u] = "ACTIVE"
         /\ provider[u] \subseteq {u}
         /\ provider[u] # {} => "PROVIDER" \in roles[u]
         /\ u \notin SeededUsers =>
              /\ account[u] # "NONE" => "CITIZEN" \in roles[u]
              /\ account[u] = "ACTIVE" => profile[u]
              /\ "PROVIDER" \in roles[u] => provider[u] # {} /\ profile[u]
    /\ session = [s \in Sessions |-> IF s \in Users /\ account[s] # "NONE" THEN "LIVE" ELSE "NONE"]
    /\ locks = {}
    /\ request = [c \in Calls |-> Nobody]
    /\ step = [c \in Calls |-> "idle"]
    /\ seen = [c \in Calls |-> Unread]
    /\ answer = [c \in Calls |-> "none"]

----------------------------------------------------------------------------
(* Locks and endings. *)

\* The statement of c that wants key would not have to wait.
Free(c, key, mode) ==
    \A l \in locks : l.key = key /\ l.call # c => l.mode = "SHARE" /\ mode = "SHARE"
Lock(c, key, mode) == [call |-> c, key |-> key, mode |-> mode]
Account(c) == <<"account", UserOf(c)>>

Goto(c, next) == step' = [step EXCEPT ![c] = next]
\* The answer is sent before the transaction has ended.
FaultyAnswer(c, what) == Goto(c, "done") /\ answer' = [answer EXCEPT ![c] = what] /\ UNCHANGED locks
Answer(c, what) ==
    /\ Goto(c, "done") /\ answer' = [answer EXCEPT ![c] = what]
    /\ locks' = {l \in locks : l.call # c}
Refuse(c, what) == Answer(c, what) /\ UNCHANGED <<rows, request, seen>>
\* A statement that succeeds and leaves only locks, or nothing, behind.
Statement(c, taken, next) ==
    /\ locks' = locks \cup taken /\ Goto(c, next)
    /\ UNCHANGED <<rows, request, answer>>

----------------------------------------------------------------------------
(* Arrival: the actor is resolved and the gate of the onRequest hook judged. *)

\* A citizen whose profile is missing may only complete it.
Gate(u, role, op) == role = "CITIZEN" /\ account[u] # "ACTIVE" => op \in {"me", "profile"}

RolesFor(op) ==
    [profile |-> {"CITIZEN"}, selfProvider |-> {"CITIZEN"}, provider |-> {"PROVIDER"},
     services |-> {"PROVIDER"}, me |-> {"CITIZEN", "PROVIDER"},
     signOut |-> {"CITIZEN", "PROVIDER"}][op]

Start(c, op, u, role, s) ==
    /\ step[c] = "idle" /\ Goto(c, FirstStep(op))
    /\ request' = [request EXCEPT ![c] = [op |-> op, user |-> u, role |-> role, session |-> s]]
    /\ seen' = [seen EXCEPT ![c].status = account[u]]
    /\ UNCHANGED <<rows, locks, answer>>

SignInArrives(c) == \E u \in Users : Start(c, "signIn", u, "none", c)
ActorArrives(c) ==
    \E s \in Sessions, op \in Ops \ {"signIn"} :
        /\ session[s] = "LIVE"
        /\ \E role \in RolesFor(op) \cap roles[OwnerOf(s)] :
             /\ Gate(OwnerOf(s), role, op)
             /\ Start(c, op, OwnerOf(s), role, s)
AdminArrives(c) ==
    \E u \in Users, op \in {"provider", "services"} :
        account[u] # "NONE" /\ Start(c, op, u, "ADMIN", "none")

----------------------------------------------------------------------------
(* POST /v1/auth callback: issueGoogleCitizenSession. *)

\* The signed state is verified, the code exchanged and the mailbox read, by
\* two calls of the identity provider, before any transaction.
Exchange(c) ==
    /\ step[c] = "exchange"
    /\ \/ \E why \in {"INVALID_OAUTH_STATE", "IDENTITY_PROVIDER_UNAVAILABLE"} : Refuse(c, why)
       \/ Statement(c, {}, "insert account") /\ UNCHANGED seen

\* ON CONFLICT DO NOTHING waits for the row another transaction has inserted.
MailboxFree(c) == Free(c, <<"email", UserOf(c)>>, "OWN")

InsertAccount(c) ==
    /\ step[c] = "insert account" /\ MailboxFree(c)
    /\ IF account[UserOf(c)] = "NONE"
       THEN /\ seen' = [seen EXCEPT ![c].created = TRUE, ![c].status = "PENDING_PROFILE"]
            /\ Statement(c, {Lock(c, <<"email", UserOf(c)>>, "OWN")}, "insert session")
       ELSE Statement(c, {}, "read status") /\ UNCHANGED seen

ReadStatus(c) ==
    /\ step[c] = "read status" /\ Statement(c, {}, "insert session")
    /\ seen' = [seen EXCEPT ![c].status = account[UserOf(c)]]

\* The foreign key of auth_session waits for a profile being saved.
InsertSession(c) ==
    /\ step[c] = "insert session"
    /\ seen[c].created \/ Free(c, Account(c), "SHARE")
    /\ Statement(c, {Lock(c, Account(c), "SHARE")}, "commit") /\ UNCHANGED seen

----------------------------------------------------------------------------
(* POST /v1/me/profile, POST /v1/me/provider and POST /v1/providers. *)

LockAccount(c) ==
    /\ step[c] = "lock account" /\ Free(c, Account(c), "OWN")
    /\ Statement(c, {Lock(c, Account(c), "OWN")}, "commit") /\ UNCHANGED seen

FindProvider(c) ==
    /\ step[c] = "find provider"
    /\ IF provider[UserOf(c)] # {} THEN Refuse(c, "PROVIDER_ALREADY_EXISTS")
       ELSE Statement(c, {}, "grant role") /\ UNCHANGED seen

\* The key and the account are waited for together: who has locked an
\* account never asks for a key that another request holds.
GrantRole(c) ==
    /\ step[c] = "grant role"
    /\ \/ /\ "PROVIDER" \in roles[UserOf(c)] /\ Statement(c, {}, "insert provider")
       \/ /\ "PROVIDER" \notin roles[UserOf(c)]
          /\ Free(c, <<"role", UserOf(c)>>, "OWN") /\ Free(c, Account(c), "SHARE")
          /\ Statement(c, {Lock(c, <<"role", UserOf(c)>>, "OWN"), Lock(c, Account(c), "SHARE")},
                       "insert provider")
    /\ UNCHANGED seen

FindRole(c) ==
    /\ step[c] = "find role"
    /\ IF "PROVIDER" \in roles[UserOf(c)] THEN Statement(c, {}, "insert provider") /\ UNCHANGED seen
       ELSE Refuse(c, "PROVIDER_ROLE_NOT_FOUND")

\* provider.user_id is unique: 23505 is answered with CONFLICT.
FaultyUnique(c) == TRUE
Unique(c) == provider[UserOf(c)] = {}
InsertProvider(c) ==
    /\ step[c] = "insert provider" /\ Free(c, <<"provider", UserOf(c)>>, "OWN")
    /\ \/ ~Unique(c) /\ Refuse(c, "CONFLICT")
       \/ /\ Unique(c) /\ Free(c, Account(c), "SHARE") /\ UNCHANGED seen
          /\ Statement(c, {Lock(c, <<"provider", UserOf(c)>>, "OWN"), Lock(c, Account(c), "SHARE")},
                       "commit")

----------------------------------------------------------------------------
(* POST /v1/providers/:id/services, GET /v1/me and DELETE /v1/auth/session. *)

OwnProvider(c) ==
    /\ step[c] = "own provider"
    /\ IF request[c].role = "ADMIN" \/ provider[UserOf(c)] # {}
       THEN Statement(c, {}, "lock provider") /\ UNCHANGED seen
       ELSE Refuse(c, "FORBIDDEN")

\* SELECT ... FOR UPDATE, and a plain SELECT.
FaultyProviderLock(c) == {}
ProviderLock(c) == {Lock(c, <<"provider row", UserOf(c)>>, "OWN")}
LockProvider(c) ==
    /\ step[c] = "lock provider" /\ Free(c, <<"provider row", UserOf(c)>>, "OWN")
    /\ IF provider[UserOf(c)] = {} THEN Refuse(c, "PROVIDER_NOT_FOUND")
       ELSE Statement(c, ProviderLock(c), "upsert") /\ UNCHANGED seen

\* The services are upserted in the order of the body, whatever it is.
Upsert(c) ==
    /\ step[c] = "upsert"
    /\ \E code \in Codes \ seen[c].read :
        LET key == <<"service", UserOf(c), code>>
            now == seen[c].read \cup {code}
        IN  /\ Free(c, key, "OWN") /\ seen' = [seen EXCEPT ![c].read = now]
            /\ Statement(c, {Lock(c, key, "OWN")}, IF now = Codes THEN "commit" ELSE "upsert")

\* Three queries of Promise.all, each on a connection of its own; with the
\* last one the answer is put together.
Parts == {"roles", "profile", "provider"}
Read(c) ==
    /\ step[c] = "read"
    /\ \E part \in Parts \ seen[c].read :
        LET now == seen[c].read \cup {part}
        IN  /\ seen' = [seen EXCEPT ![c].read = now,
                                    ![c].profile = IF part = "profile" THEN profile[UserOf(c)] ELSE @]
            /\ IF now = Parts THEN Answer(c, "me") /\ UNCHANGED <<rows, request>>
               ELSE Statement(c, {}, "read")

SessionKey(c) == <<"session", request[c].session>>
FaultySessionFree(c) == TRUE
SessionFree(c) == Free(c, SessionKey(c), "OWN")
LockSession(c) ==
    /\ step[c] = "lock session" /\ SessionFree(c)
    /\ IF session[request[c].session] = "LIVE"
       THEN Statement(c, {Lock(c, SessionKey(c), "OWN")}, "commit") /\ UNCHANGED seen
       ELSE Refuse(c, "not revoked")

----------------------------------------------------------------------------
(* COMMIT, rollback and the next-state relation. *)

CommitSignIn(c) ==
    /\ request[c].op = "signIn" /\ Answer(c, IF seen[c].created THEN "created" ELSE "existing")
    /\ account' = [account EXCEPT ![UserOf(c)] = IF seen[c].created THEN "PENDING_PROFILE" ELSE @]
    /\ roles' = [roles EXCEPT ![UserOf(c)] = @ \cup {"CITIZEN"}]
    /\ session' = [session EXCEPT ![c] = "LIVE"]
    /\ UNCHANGED <<profile, provider>>

\* The upsert, and an UPDATE that misses a row that is not there yet.
Saved(c) == profile' = [profile EXCEPT ![UserOf(c)] = TRUE]
CommitProfile(c) ==
    /\ request[c].op = "profile" /\ Answer(c, "profileCompleted")
    /\ Saved(c)
    /\ account' = [account EXCEPT ![UserOf(c)] = IF @ = "PENDING_PROFILE" THEN "ACTIVE" ELSE @]
    /\ UNCHANGED <<roles, provider, session>>

CommitProvider(c) ==
    /\ request[c].op \in {"selfProvider", "provider"} /\ Answer(c, "provider created")
    /\ provider' = [provider EXCEPT ![UserOf(c)] = @ \cup {c}]
    /\ roles' = [roles EXCEPT ![UserOf(c)] = @ \cup {"PROVIDER"}]
    /\ UNCHANGED <<account, profile, session>>

CommitSignOut(c) ==
    /\ request[c].op = "signOut" /\ Answer(c, "revoked")
    /\ session' = [session EXCEPT ![request[c].session] = "REVOKED"]
    /\ UNCHANGED <<account, roles, profile, provider>>

CommitServices(c) == request[c].op = "services" /\ Answer(c, "added") /\ UNCHANGED rows

Commit(c) ==
    /\ step[c] = "commit" /\ UNCHANGED <<request, seen>>
    /\ \/ CommitSignIn(c) \/ CommitProfile(c) \/ CommitProvider(c)
       \/ CommitSignOut(c) \/ CommitServices(c)

Step(c) ==
    \/ Exchange(c) \/ InsertAccount(c) \/ ReadStatus(c) \/ InsertSession(c) \/ LockAccount(c)
    \/ FindProvider(c) \/ GrantRole(c) \/ FindRole(c) \/ InsertProvider(c) \/ OwnProvider(c)
    \/ LockProvider(c) \/ Upsert(c) \/ Read(c) \/ LockSession(c) \/ Commit(c)

\* The connection or the process is lost: the transaction rolls back.
Lost(c) == step[c] \notin {"idle", "done"} /\ Refuse(c, "lost")

Next ==
    \E c \in Calls : SignInArrives(c) \/ ActorArrives(c) \/ AdminArrives(c) \/ Step(c) \/ Lost(c)

Fairness == \A c \in Calls : WF_vars(Step(c))
Spec == Init /\ [][Next]_vars

----------------------------------------------------------------------------
(* Correctness. *)

Statuses == {"NONE", "PENDING_PROFILE", "ACTIVE"}
Steps == {"idle", "exchange", "insert account", "read status", "insert session", "lock account",
          "find provider", "grant role", "find role", "insert provider", "own provider",
          "lock provider", "upsert", "read", "lock session", "commit", "done"}

Verdicts == {"none", "lost", "INVALID_OAUTH_STATE", "IDENTITY_PROVIDER_UNAVAILABLE", "created",
            "existing", "profileCompleted", "PROVIDER_ALREADY_EXISTS", "PROVIDER_ROLE_NOT_FOUND",
            "CONFLICT", "provider created", "FORBIDDEN", "PROVIDER_NOT_FOUND", "added", "me",
            "not revoked", "revoked"}

\* Only a running transaction holds locks, and only an ended call has its answer.
TypeOK ==
    /\ account \in [Users -> Statuses]
    /\ roles \in [Users -> SUBSET {"CITIZEN", "PROVIDER"}] /\ profile \in [Users -> BOOLEAN]
    /\ provider \in [Users -> SUBSET Sessions]
    /\ session \in [Sessions -> {"NONE", "LIVE", "REVOKED"}]
    /\ request \in [Calls -> [op : Ops \cup {"none"}, user : Users \cup {"none"},
                              role : {"CITIZEN", "PROVIDER", "ADMIN", "none"},
                              session : Sessions \cup {"none"}]]
    /\ step \in [Calls -> Steps] /\ answer \in [Calls -> Verdicts]
    /\ seen \in [Calls -> [created : BOOLEAN, status : Statuses,
                           read : SUBSET (Parts \cup Codes), profile : BOOLEAN]]
    /\ \A l \in locks : l.call \in Calls /\ step[l.call] \notin {"idle", "done"}
    /\ \A c \in Calls : step[c] = "done" <=> answer[c] # "none"

\* At most one sign-in of a mailbox is told that it created the account, and
\* none when the account is older (accountCreated of issueGoogleCitizenSession).
CreatedOnce ==
    \A u \in Users :
        LET created == {c \in Calls : UserOf(c) = u /\ answer[c] = "created"}
        IN  Cardinality(created) <= IF session[u] = "NONE" THEN 1 ELSE 0

\* Concurrent requests for a provider profile leave one row, whose owner holds
\* the PROVIDER role.  The routes let nobody become a provider before the citizen
\* profile is completed (none of them checks the profile when the row is inserted:
\* the gate did when a request arrived); a seeded or hand-made grant does.
OneProvider ==
    \A u \in Users :
        /\ Cardinality(provider[u]) <= 1
        /\ provider[u] # {} => "PROVIDER" \in roles[u]
        /\ provider[u] # {} /\ u \notin SeededUsers => profile[u]

\* A completed profile makes its account ACTIVE and, but for seeded accounts,
\* nothing else does: GET /v1/me, whose status is read before and apart from its
\* profile, never answers them ACTIVE without a completed profile.
ProfileGate ==
    /\ \A u \in Users : profile[u] => account[u] = "ACTIVE"
    /\ \A u \in Users \ SeededUsers : account[u] = "ACTIVE" => profile[u]
    /\ \A c \in Calls :
         answer[c] = "me" /\ UserOf(c) \notin SeededUsers /\ seen[c].status = "ACTIVE"
         => seen[c].profile

\* A session is revoked by one request only (revoked: true of sign-out).
RevokedOnce ==
    \A s \in Sessions : Cardinality({c \in Calls : answer[c] = "revoked" /\ request[c].session = s}) <= 1

\* Every call is answered although none gives up waiting for a lock: two
\* updates of one provider's services, in any order of codes, do not meet in
\* a deadlock, because both lock the provider first.
EveryCallAnswered ==
    (\E c \in Calls : step[c] # "idle") ~> (\A c \in Calls : step[c] \in {"idle", "done"})
=============================================================================
