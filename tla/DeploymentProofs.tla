--------------------------- MODULE DeploymentProofs ---------------------------
(***************************************************************************)
(* Proofs about Deployment, for every number of migrations, instances and  *)
(* starts: the migrations apply in order and once, a seed adds nothing     *)
(* twice and undoes no decision, and an instance that deploy-setup has set *)
(* up serves a complete schema.                                            *)
(***************************************************************************)
EXTENDS Deployment, FiniteSetTheorems, TLAPS

\* There is a migration, and the instances set up are instances.
Setting == Files \in Nat \ {0} /\ Setup \subseteq Instances

----------------------------------------------------------------------------
(* The inductive invariant. *)

\* The demonstration rows that seeds count.
DemoOK ==
    /\ demo \in [account : {"NONE", "ACTIVE", "SUSPENDED"}, services : {"NONE", "seeded", "changed"},
                 pending : {"NONE", "HELD", "CONFIRMED", "DECLINED"},
                 sample : {"NONE", "OPEN", "COMPLETED"}, credits : {0, 1}, grievances : {0, 1}]

\* One seed at a time, from the accounts it updates first to its commit.
Alone == \A i, j \in Instances : step[i] \in Seeding /\ step[j] \in Seeding => i = j

\* The migrations before the file an instance is at have been applied; what a
\* seed has looked up and means to insert is still absent; and an instance of
\* Setup comes to start only by a verified schema.
Planned(i) ==
    /\ step[i] = "credits" => plan[i] \subseteq {"pending", "sample"}
    /\ step[i] = "grievances" => plan[i] \subseteq {"pending", "sample", "credits"}
    /\ step[i] \in {"credits", "grievances", "commit seed"} =>
         /\ "pending" \in plan[i] => demo.pending = "NONE"
         /\ "credits" \in plan[i] => demo.credits = 0
         /\ "grievances" \in plan[i] => demo.grievances = 0
Process(i) ==
    /\ 1 .. (file[i] - 1) \subseteq record
    /\ step[i] \in {"execute", "commit"} => file[i] <= version[i]
    /\ i \in Setup => step[i] \notin Seeding \cup {"seed"}
    /\ i \in Setup /\ step[i] \in {"start", "listening", "crashed"} => Complete(i)

ProcessOK ==
    /\ effects \subseteq All /\ record \subseteq All
    /\ validated \in BOOLEAN /\ granted \in BOOLEAN
    /\ step \in [Instances -> Busy \cup {"off", "listening", "exited", "crashed"}]
    /\ file \in [Instances -> 1 .. Files + 1] /\ version \in [Instances -> All]
    /\ plan \in [Instances -> SUBSET Rows]

IInv ==
    /\ ProcessOK /\ DemoOK /\ Alone /\ MigrationsAtomic
    /\ \A i \in Instances : Process(i) /\ Planned(i)

----------------------------------------------------------------------------
(* What the steps change. *)

\* An instance moves, and leaves the other ones where they are.
Moved(i) ==
    \A j \in Instances \ {i} :
        step'[j] = step[j] /\ file'[j] = file[j] /\ version'[j] = version[j] /\ plan'[j] = plan[j]
\* The schema only grows.
Grows == record \subseteq record' /\ effects \subseteq effects' /\ (validated => validated')
         /\ (granted => granted')

\* An instance between two statements of its scripts.
Quiet(i) ==
    /\ UNCHANGED <<effects, record, demo>> /\ Grows
    /\ step'[i] \notin Seeding /\ file'[i] = file[i] /\ version'[i] = version[i]
    /\ step'[i] \in {"execute", "commit"} => file[i] <= version[i]
    /\ i \in Setup => step'[i] # "seed"
    /\ i \in Setup /\ step'[i] \in {"start", "listening", "crashed"} =>
         step[i] \in {"start", "listening", "crashed"} \/ Complete(i)
Begins(i) ==
    /\ UNCHANGED <<effects, record, demo>> /\ Grows /\ file'[i] = 1
    /\ step'[i] \notin Seeding \cup {"seed", "execute", "commit"}
    /\ i \in Setup /\ step'[i] \in {"start", "listening", "crashed"} =>
         step[i] = "crashed" /\ version'[i] = version[i]
Skips(i) ==
    /\ UNCHANGED <<effects, record, demo>> /\ Grows /\ step[i] = "next" /\ step'[i] = "next"
    /\ file[i] \in record /\ file'[i] = file[i] + 1 /\ version'[i] = version[i]
Applies(i) ==
    /\ step[i] = "commit" /\ step'[i] = "next" /\ UNCHANGED demo /\ Grows
    /\ effects' = effects \cup {file[i]} /\ record' = record \cup {file[i]}
    /\ file'[i] = file[i] + 1 /\ version'[i] = version[i]
\* The statements of a seed before its commit.
Looks(i) ==
    /\ UNCHANGED <<effects, record, demo>> /\ Grows /\ i \notin Setup
    /\ file'[i] = file[i] /\ version'[i] = version[i] /\ Planned(i)'
    /\ step'[i] \in Seeding /\ (step[i] \in Seeding \/ AccountsFree)
Seeds(i) ==
    /\ UNCHANGED <<effects, record>> /\ Grows /\ step[i] = "commit seed" /\ step'[i] = "start"
    /\ file'[i] = file[i] /\ version'[i] = version[i]
    /\ demo'.pending = demo.pending \/ demo.pending = "NONE"
Acts(i) ==
    Moved(i) /\ (Quiet(i) \/ Begins(i) \/ Skips(i) \/ Applies(i) \/ Looks(i) \/ Seeds(i))

\* Users of the API and the owner of the database.
Outside ==
    /\ UNCHANGED <<effects, record, validated, granted, step, file, version, plan>>
    /\ demo.pending = "NONE" => demo'.pending = "NONE"
    /\ demo.pending \in {"CONFIRMED", "DECLINED"} => demo'.pending = demo.pending
    /\ demo.credits = 0 => demo'.credits = 0
    /\ demo'.grievances = demo.grievances

----------------------------------------------------------------------------
(* The steps keep the invariant. *)

LEMMA ActsKeep ==
    ASSUME Setting, IInv, NEW i \in Instances, Acts(i), ProcessOK', DemoOK'
    PROVE  IInv'
<1>1. Process(i) /\ Planned(i) /\ (i \in Setup => step[i] \notin Seeding)
  BY DEF IInv, Process
<1>2. Grows /\ Moved(i)
  BY DEF Acts, Quiet, Begins, Skips, Applies, Looks, Seeds
<1>3. file[i] \in 1 .. Files + 1 /\ version[i] \in 1 .. Files /\ Files \in Nat
  BY DEF IInv, ProcessOK, Setting, All
<1>4. MigrationsAtomic'
  <2>1. CASE Applies(i)
    <3>1. PICK n \in 0 .. Files : record = 1 .. n
      BY DEF IInv, MigrationsAtomic
    <3>2. file[i] - 1 <= n /\ file[i] <= Files /\ record' = effects'
      BY <1>1, <1>3, <2>1, <3>1 DEF Process, Applies, IInv, MigrationsAtomic
    <3>3. CASE file[i] <= n
      BY <1>3, <2>1, <3>1, <3>2, <3>3 DEF Applies, MigrationsAtomic
    <3>4. CASE file[i] = n + 1
      <4>1. record' = 1 .. (n + 1) /\ n + 1 \in 0 .. Files
        BY <1>3, <2>1, <3>1, <3>2, <3>4 DEF Applies
      <4> QED BY <3>2, <4>1 DEF MigrationsAtomic
    <3> QED BY <1>3, <3>1, <3>2, <3>3, <3>4
  <2>2. CASE ~Applies(i)
    BY <2>2 DEF Acts, Quiet, Begins, Skips, Looks, Seeds, IInv, MigrationsAtomic
  <2> QED BY <2>1, <2>2
<1>5. Process(i)'
  <2>1. CASE Quiet(i)
    BY <1>1, <2>1 DEF Process, Quiet, Grows, Complete, ObjectsPresent, RuntimeRole
  <2>2. CASE Begins(i)
    BY <1>1, <2>2 DEF Process, Begins, Grows, Complete, ObjectsPresent, RuntimeRole
  <2>3. CASE Skips(i)
    BY <1>1, <1>3, <2>3 DEF Process, Skips, Seeding
  <2>4. CASE Applies(i)
    BY <1>1, <1>3, <2>4 DEF Process, Applies, Seeding
  <2>5. CASE Looks(i)
    BY <1>1, <2>5 DEF Process, Looks, Seeding
  <2>6. CASE Seeds(i)
    BY <1>1, <2>6 DEF Process, Seeds, Seeding
  <2> QED BY <2>1, <2>2, <2>3, <2>4, <2>5, <2>6 DEF Acts
<1>6. ASSUME NEW j \in Instances, j # i PROVE Process(j)'
  <2>1. Process(j)
    BY DEF IInv
  <2> QED BY <1>2, <1>6, <2>1 DEF Process, Moved, Grows, Complete, ObjectsPresent, RuntimeRole
<1>7. Planned(i)'
  BY <1>1 DEF Acts, Planned, Quiet, Begins, Skips, Applies, Looks, Seeds, Seeding
<1>8. ASSUME NEW j \in Instances, j # i PROVE Planned(j)'
  <2>1. Planned(j)
    BY DEF IInv
  <2>2. CASE Seeds(i)
    <3>1. step[j] \notin Seeding
      BY <1>8, <2>2 DEF Seeds, IInv, Alone, Seeding
    <3> QED BY <1>2, <1>8, <3>1 DEF Moved, Planned, Seeding
  <2>3. CASE ~Seeds(i)
    <3>1. demo' = demo
      BY <2>3 DEF Acts, Quiet, Begins, Skips, Applies, Looks
    <3> QED BY <1>2, <1>8, <2>1, <3>1 DEF Moved, Planned
  <2> QED BY <2>2, <2>3
<1>9. Alone'
  <2>1. step'[i] \in Seeding => step[i] \in Seeding \/ AccountsFree
    BY DEF Acts, Quiet, Begins, Skips, Applies, Looks, Seeds, Seeding
  <2> QED BY <1>2, <2>1 DEF Alone, Moved, AccountsFree, IInv
<1> QED BY <1>4, <1>5, <1>6, <1>7, <1>8, <1>9 DEF IInv

LEMMA OutsideKeeps ==
    ASSUME IInv, Outside, DemoOK'
    PROVE  IInv'
<1>1. ProcessOK' /\ Alone' /\ MigrationsAtomic'
  BY DEF IInv, Outside, ProcessOK, Alone, MigrationsAtomic
<1>2. ASSUME NEW i \in Instances PROVE Process(i)' /\ Planned(i)'
  <2>1. Process(i) /\ Planned(i)
    BY DEF IInv
  <2>2. Process(i)'
    BY <2>1 DEF Outside, Process, Complete, ObjectsPresent, RuntimeRole
  <2> QED BY <2>1, <2>2 DEF Outside, Planned
<1> QED BY <1>1, <1>2 DEF IInv

----------------------------------------------------------------------------
(* What every action does. *)

Does(i) == Acts(i) /\ ProcessOK' /\ DemoOK'
Kept == UNCHANGED <<schema, demo, version, file, starts, plan, work>>

\* A step that only moves the instance.
LEMMA GoDoes ==
    ASSUME IInv, NEW i \in Instances, NEW next, Go(i, next),
           next \in Busy \cup {"off", "listening", "exited", "crashed"}
    PROVE  /\ Moved(i) /\ ProcessOK' /\ DemoOK' /\ step'[i] = next
           /\ file'[i] = file[i] /\ version'[i] = version[i] /\ plan'[i] = plan[i]
           /\ UNCHANGED <<effects, record, demo>> /\ Grows
<1>1. step' = [step EXCEPT ![i] = next] /\ Kept
  BY DEF Go, Goto, Kept
<1>2. ProcessOK /\ DemoOK
  BY DEF IInv
<1>3. step'[i] = next /\ Moved(i)
  BY <1>1, <1>2 DEF Moved, Kept, ProcessOK
<1>4. ProcessOK'
  BY <1>1, <1>2 DEF Kept, schema, ProcessOK
<1> QED BY <1>1, <1>2, <1>3, <1>4 DEF Kept, schema, DemoOK, Grows

LEMMA QuietDoes ==
    ASSUME IInv, NEW i \in Instances, NEW next, Go(i, next),
           next \in Busy \cup {"off", "listening", "exited", "crashed"}, next \notin Seeding,
           next \in {"execute", "commit"} => file[i] <= version[i],
           i \in Setup => next # "seed",
           i \in Setup /\ next \in {"start", "listening", "crashed"} =>
             step[i] \in {"start", "listening", "crashed"} \/ Complete(i)
    PROVE  Does(i)
BY GoDoes DEF Does, Acts, Quiet

LEMMA FailureDoes ==
    ASSUME IInv, NEW i \in Instances, Go(i, AfterFailure(i))
    PROVE  Does(i)
<1>1. CASE i \in Setup
  <2>1. Go(i, "exited")
    BY <1>1 DEF AfterFailure
  <2> QED BY <2>1, QuietDoes DEF Seeding
<1>2. CASE i \notin Setup
  <2>1. Go(i, "start")
    BY <1>2 DEF AfterFailure
  <2> QED BY <1>2, <2>1, QuietDoes DEF Seeding, Busy
<1> QED BY <1>1, <1>2

LEMMA StartDoes ==
    ASSUME Setting, IInv, NEW i \in Instances, Launch(i) \/ Restart(i)
    PROVE  Does(i)
<1>1. ProcessOK /\ DemoOK
  BY DEF IInv
<1>2. /\ file' = [file EXCEPT ![i] = 1] /\ plan' = [plan EXCEPT ![i] = {}]
      /\ UNCHANGED <<schema, demo>>
  BY DEF Launch, Restart
<1>3. PICK v \in All : version' = [version EXCEPT ![i] = v]
  <2>1. CASE Launch(i)
    BY <2>1 DEF Launch
  <2>2. CASE Restart(i)
    BY <1>1, <2>2 DEF Restart, ProcessOK
  <2> QED BY <2>1, <2>2
<1>4. PICK next \in {"next", "start"} :
        /\ step' = [step EXCEPT ![i] = next]
        /\ next = "start" => step[i] = "crashed" /\ version' = version
  <2>1. CASE Launch(i)
    BY <2>1 DEF Launch, Goto
  <2>2. CASE Restart(i)
    BY <2>2 DEF Restart, Goto
  <2> QED BY <2>1, <2>2
<1>5. ProcessOK'
  <2>1. 1 \in 1 .. Files + 1 /\ next \in Busy
    BY DEF Setting, Busy
  <2> QED BY <1>1, <1>2, <1>3, <1>4, <2>1 DEF ProcessOK, schema
<1>6. Moved(i) /\ step'[i] = next /\ file'[i] = 1
  BY <1>1, <1>2, <1>3, <1>4 DEF Moved, ProcessOK
<1>7. Begins(i)
  BY <1>2, <1>4, <1>6 DEF Begins, Grows, schema, Seeding
<1> QED BY <1>1, <1>2, <1>5, <1>6, <1>7 DEF Does, Acts, DemoOK

LEMMA MigrateDoes ==
    ASSUME Setting, IInv, NEW i \in Instances, FindNext(i) \/ Execute(i) \/ CommitFile(i)
    PROVE  Does(i)
<1>1. ProcessOK /\ DemoOK /\ Process(i)
  BY DEF IInv
<1>2. file[i] \in 1 .. Files + 1 /\ version[i] \in 1 .. Files /\ Files \in Nat
  BY <1>1 DEF ProcessOK, All, Setting
<1>3. CASE FindNext(i)
  <2>1. CASE Go(i, IF i \in Setup THEN "validate" ELSE "seed")
    <3>1. CASE i \in Setup
      <4>1. Go(i, "validate")
        BY <2>1, <3>1
      <4> QED BY <4>1, QuietDoes DEF Seeding, Busy, Setups
    <3>2. CASE i \notin Setup
      <4>1. Go(i, "seed")
        BY <2>1, <3>2
      <4> QED BY <3>2, <4>1, QuietDoes DEF Seeding, Busy
    <3> QED BY <3>1, <3>2
  <2>2. CASE /\ file[i] \in (1 .. version[i]) \cap record /\ file' = [file EXCEPT ![i] = @ + 1]
             /\ UNCHANGED <<schema, demo, step, version, starts, plan, work>>
    <3>1. file'[i] = file[i] + 1 /\ file[i] + 1 \in 1 .. Files + 1
      BY <1>1, <1>2, <2>2 DEF ProcessOK
    <3>2. ProcessOK' /\ Moved(i)
      BY <1>1, <2>2, <3>1 DEF ProcessOK, Moved, schema
    <3>3. Skips(i)
      BY <1>3, <2>2, <3>1 DEF Skips, Grows, schema, FindNext
    <3> QED BY <1>1, <2>2, <3>2, <3>3 DEF Does, Acts, DemoOK
  <2>3. CASE file[i] \in (1 .. version[i]) \ record /\ Go(i, "execute")
    <3>1. file[i] <= version[i]
      BY <1>2, <2>3
    <3> QED BY <2>3, <3>1, QuietDoes DEF Seeding, Busy
  <2> QED BY <1>3, <2>1, <2>2, <2>3 DEF FindNext
<1>4. CASE Execute(i)
  <2>1. CASE Go(i, AfterFailure(i))
    BY <2>1, FailureDoes
  <2>2. CASE /\ Goto(i, "commit") /\ Writes(i)
             /\ UNCHANGED <<validated, granted, legacy, demo, version, file, starts, plan, work>>
    <3>1. Go(i, "commit")
      BY <2>2 DEF Go, Writes, schema
    <3>2. file[i] <= version[i]
      BY <1>1, <1>4 DEF Process, Execute
    <3> QED BY <3>1, <3>2, QuietDoes DEF Seeding, Busy
  <2> QED BY <1>4, <2>1, <2>2 DEF Execute
<1>5. CASE CommitFile(i)
  <2>1. /\ step[i] = "commit" /\ step' = [step EXCEPT ![i] = "next"]
        /\ effects' = effects \cup {file[i]} /\ record' = record \cup {file[i]}
        /\ file' = [file EXCEPT ![i] = file[i] + 1]
        /\ UNCHANGED <<validated, granted, legacy, demo, version, starts, plan, work>>
    BY <1>5 DEF CommitFile, Goto
  <2>2. file[i] \in 1 .. Files /\ file[i] + 1 \in 1 .. Files + 1
    BY <1>1, <1>2, <2>1 DEF Process
  <2>3. ProcessOK'
    BY <1>1, <2>1, <2>2 DEF ProcessOK, All, Busy
  <2>4. Moved(i) /\ Applies(i)
    BY <1>1, <2>1 DEF Moved, Applies, ProcessOK, Grows
  <2> QED BY <1>1, <2>1, <2>3, <2>4 DEF Does, Acts, DemoOK
<1> QED BY <1>3, <1>4, <1>5

LEMMA PlanDoes ==
    ASSUME IInv, NEW i \in Instances, NEW rows \in SUBSET Rows, NEW next \in Seeding,
           step[i] \in Seeding, plan' = [plan EXCEPT ![i] = rows], Goto(i, next),
           UNCHANGED <<schema, demo, version, file, starts, work>>,
           next = "credits" => rows \subseteq {"pending", "sample"},
           next = "grievances" => rows \subseteq {"pending", "sample", "credits"},
           "pending" \in rows => demo.pending = "NONE",
           "credits" \in rows => demo.credits = 0,
           "grievances" \in rows => demo.grievances = 0
    PROVE  Does(i)
<1>1. ProcessOK /\ DemoOK /\ i \notin Setup
  BY DEF IInv, Process
<1>2. step' = [step EXCEPT ![i] = next] /\ next \in Busy
  BY DEF Goto, Busy
<1>3. ProcessOK'
  BY <1>1, <1>2 DEF ProcessOK, schema
<1>4. Moved(i) /\ step'[i] = next /\ plan'[i] = rows
  BY <1>1, <1>2 DEF Moved, ProcessOK
<1>5. Planned(i)'
  BY <1>4 DEF Planned, Seeding
<1>6. Looks(i)
  BY <1>1, <1>4, <1>5 DEF Looks, Grows, schema
<1> QED BY <1>1, <1>3, <1>4, <1>6 DEF Does, Acts, DemoOK

LEMMA SeedDoes ==
    ASSUME IInv, NEW i \in Instances,
           \/ SeedAccounts(i) \/ SeedSample(i) \/ SeedCredits(i) \/ SeedGrievances(i) \/ CommitSeed(i)
    PROVE  Does(i)
<1>1. ProcessOK /\ DemoOK /\ Process(i) /\ Planned(i) /\ plan[i] \subseteq Rows
  BY DEF IInv, ProcessOK
<1>2. CASE SeedAccounts(i)
  <2>1. step[i] = "seed" /\ AccountsFree /\ Go(i, "sample") /\ i \notin Setup
    BY <1>1, <1>2 DEF SeedAccounts, Process
  <2>2. /\ Moved(i) /\ ProcessOK' /\ DemoOK' /\ step'[i] = "sample"
        /\ file'[i] = file[i] /\ version'[i] = version[i]
        /\ UNCHANGED <<effects, record, demo>> /\ Grows
    BY <2>1, GoDoes DEF Busy, Seeding
  <2>3. Planned(i)'
    BY <2>2 DEF Planned
  <2> QED BY <2>1, <2>2, <2>3 DEF Does, Acts, Looks, Seeding
<1>3. CASE SeedSample(i)
  <2>1. CASE Go(i, AfterFailure(i))
    BY <2>1, FailureDoes
  <2>2. CASE /\ plan' = [plan EXCEPT ![i] =
                        (IF PendingAbsent THEN {"pending"} ELSE {})
                        \cup (IF demo.sample = "NONE" THEN {"sample"} ELSE {})]
             /\ Goto(i, "credits") /\ UNCHANGED <<schema, demo, version, file, starts, work>>
    <3> DEFINE rows == (IF PendingAbsent THEN {"pending"} ELSE {})
                       \cup (IF demo.sample = "NONE" THEN {"sample"} ELSE {})
    <3>1. rows \subseteq {"pending", "sample"} /\ ("pending" \in rows => demo.pending = "NONE")
      BY DEF PendingAbsent
    <3>2. step[i] \in Seeding /\ plan' = [plan EXCEPT ![i] = rows]
      BY <1>3, <2>2 DEF SeedSample, Seeding
    <3> HIDE DEF rows
    <3>3. rows \in SUBSET Rows
      BY <3>1 DEF Rows
    <3> QED BY <2>2, <3>1, <3>2, <3>3, PlanDoes DEF Seeding
  <2> QED BY <1>3, <2>1, <2>2 DEF SeedSample
<1>4. CASE SeedCredits(i)
  <2> DEFINE rows == IF demo.credits = 0 THEN plan[i] \cup {"credits"} ELSE plan[i]
  <2>1. step[i] = "credits" /\ plan' = [plan EXCEPT ![i] = rows] /\ Goto(i, "grievances")
        /\ UNCHANGED <<schema, demo, version, file, starts, work>>
    BY <1>4 DEF SeedCredits, Plan, CreditsAbsent
  <2>2. plan[i] \subseteq {"pending", "sample"} /\ ("pending" \in plan[i] => demo.pending = "NONE")
    BY <1>1, <2>1 DEF Planned
  <2>3. /\ rows \subseteq {"pending", "sample", "credits"}
        /\ "pending" \in rows => demo.pending = "NONE"
        /\ "credits" \in rows => demo.credits = 0
    BY <2>2
  <2> HIDE DEF rows
  <2>4. rows \in SUBSET Rows
    BY <2>3 DEF Rows
  <2> QED BY <2>1, <2>3, <2>4, PlanDoes DEF Seeding
<1>5. CASE SeedGrievances(i)
  <2> DEFINE rows == IF demo.grievances = 0 THEN plan[i] \cup {"grievances"} ELSE plan[i]
  <2>1. step[i] = "grievances" /\ plan' = [plan EXCEPT ![i] = rows] /\ Goto(i, "commit seed")
        /\ UNCHANGED <<schema, demo, version, file, starts, work>>
    BY <1>5 DEF SeedGrievances, Plan
  <2>2. /\ plan[i] \subseteq {"pending", "sample", "credits"}
        /\ "pending" \in plan[i] => demo.pending = "NONE"
        /\ "credits" \in plan[i] => demo.credits = 0
    BY <1>1, <2>1 DEF Planned
  <2>3. /\ rows \subseteq Rows
        /\ "pending" \in rows => demo.pending = "NONE"
        /\ "credits" \in rows => demo.credits = 0
        /\ "grievances" \in rows => demo.grievances = 0
    BY <2>2 DEF Rows
  <2> HIDE DEF rows
  <2> QED BY <2>1, <2>3, PlanDoes DEF Seeding
<1>6. CASE CommitSeed(i)
  <2>1. /\ step[i] = "commit seed" /\ step' = [step EXCEPT ![i] = "start"]
        /\ UNCHANGED <<schema, version, file, starts, plan, work>>
    BY <1>6 DEF CommitSeed, Goto
  <2>2. ProcessOK'
    BY <1>1, <2>1 DEF ProcessOK, schema, Busy
  <2>3. Moved(i) /\ step'[i] = "start"
    BY <1>1, <2>1 DEF Moved, ProcessOK
  <2>4. /\ "pending" \in plan[i] => demo.pending = "NONE"
        /\ "credits" \in plan[i] => demo.credits = 0
        /\ "grievances" \in plan[i] => demo.grievances = 0
    BY <1>1, <2>1 DEF Planned
  <2>5. DemoOK' /\ (demo'.pending = demo.pending \/ demo.pending = "NONE")
    <3> DEFINE p == IF "pending" \in plan[i] THEN "HELD" ELSE demo.pending
               m == IF "sample" \in plan[i] THEN "OPEN" ELSE demo.sample
               c == IF "credits" \in plan[i] THEN demo.credits + 1 ELSE demo.credits
               g == IF "grievances" \in plan[i] THEN demo.grievances + 1 ELSE demo.grievances
    <3>1. demo' = [account |-> "ACTIVE", services |-> "seeded", pending |-> p, sample |-> m,
                   credits |-> c, grievances |-> g]
      BY <1>1, <1>6 DEF CommitSeed, Reseeded, DemoOK
    <3>2. p \in {"NONE", "HELD", "CONFIRMED", "DECLINED"} /\ m \in {"NONE", "OPEN", "COMPLETED"}
      BY <1>1 DEF DemoOK
    <3>3. c \in {0, 1} /\ g \in {0, 1}
      BY <1>1, <2>4 DEF DemoOK
    <3>4. p = demo.pending \/ demo.pending = "NONE"
      BY <2>4
    <3> HIDE DEF p, m, c, g
    <3>5. DemoOK'
      BY <3>1, <3>2, <3>3 DEF DemoOK
    <3> QED BY <3>1, <3>4, <3>5
  <2>6. Seeds(i)
    BY <2>1, <2>3, <2>5 DEF Seeds, Grows, schema
  <2> QED BY <2>2, <2>3, <2>5, <2>6 DEF Does, Acts
<1> QED BY <1>2, <1>3, <1>4, <1>5, <1>6

LEMMA SetupDoes ==
    ASSUME IInv, NEW i \in Instances, Validate(i) \/ Grant(i) \/ Verify(i) \/ StartApi(i)
    PROVE  Does(i)
<1>1. ProcessOK /\ DemoOK /\ Process(i)
  BY DEF IInv
<1>2. CASE Validate(i) /\ ~Go(i, "exited")
  <2>1. /\ step' = [step EXCEPT ![i] = "grant"] /\ validated' = TRUE
        /\ UNCHANGED <<effects, record, granted, legacy, demo, version, file, starts, plan, work>>
    BY <1>2 DEF Validate, Goto
  <2>2. ProcessOK' /\ Moved(i) /\ step'[i] = "grant"
    BY <1>1, <2>1 DEF ProcessOK, Moved, Busy, Setups
  <2>3. Quiet(i)
    BY <2>1, <2>2 DEF Quiet, Grows, Seeding
  <2> QED BY <1>1, <2>1, <2>2, <2>3 DEF Does, Acts, DemoOK
<1>3. CASE Grant(i)
  <2>1. /\ step' = [step EXCEPT ![i] = "verify"] /\ granted' = TRUE
        /\ UNCHANGED <<effects, record, validated, legacy, demo, version, file, starts, plan, work>>
    BY <1>3 DEF Grant, Goto
  <2>2. ProcessOK' /\ Moved(i) /\ step'[i] = "verify"
    BY <1>1, <2>1 DEF ProcessOK, Moved, Busy, Setups
  <2>3. Quiet(i)
    BY <2>1, <2>2 DEF Quiet, Grows, Seeding
  <2> QED BY <1>1, <2>1, <2>2, <2>3 DEF Does, Acts, DemoOK
<1>4. CASE Go(i, "exited")
  BY <1>4, QuietDoes DEF Seeding
<1>5. CASE Verify(i) /\ Complete(i)
  <2>1. Go(i, "start")
    BY <1>5 DEF Verify
  <2> QED BY <1>5, <2>1, QuietDoes DEF Seeding, Busy
<1>6. CASE StartApi(i) /\ Go(i, "listening")
  BY <1>6, QuietDoes DEF Seeding, StartApi
<1> QED BY <1>2, <1>3, <1>4, <1>5, <1>6 DEF Validate, Verify, StartApi

LEMMA FailDoes ==
    ASSUME IInv, NEW i \in Instances, Fail(i) \/ Crash(i)
    PROVE  Does(i)
<1>1. CASE Fail(i)
  BY <1>1, FailureDoes DEF Fail
<1>2. CASE Crash(i)
  <2>1. CASE step[i] \in {"start", "listening"}
    <3>1. Go(i, "crashed")
      BY <1>2, <2>1 DEF Crash
    <3> QED BY <2>1, <3>1, QuietDoes DEF Seeding
  <2>2. CASE step[i] \notin {"start", "listening"}
    <3>1. Go(i, "off")
      BY <1>2, <2>2 DEF Crash
    <3> QED BY <3>1, QuietDoes DEF Seeding
  <2> QED BY <2>1, <2>2
<1> QED BY <1>1, <1>2

LEMMA UsersDo ==
    ASSUME IInv, UserActions
    PROVE  Outside /\ DemoOK'
<1>1. DemoOK
  BY DEF IInv
<1>2. UNCHANGED <<effects, record, validated, granted, step, file, version, plan>>
  BY DEF UserActions, DecidePending, ChangeServices, Suspend, CompleteSample, Correct, Demo, schema, process
<1>3. CASE DecidePending
  <2>1. PICK s \in {"CONFIRMED", "DECLINED"} : demo' = [demo EXCEPT !.pending = s]
    BY <1>3 DEF DecidePending, Demo
  <2> QED BY <1>1, <1>2, <1>3, <2>1 DEF DemoOK, Outside, DecidePending
<1>4. CASE ChangeServices
  BY <1>1, <1>2, <1>4 DEF DemoOK, Outside, ChangeServices, Demo
<1>5. CASE Suspend
  BY <1>1, <1>2, <1>5 DEF DemoOK, Outside, Suspend, Demo
<1>6. CASE CompleteSample
  BY <1>1, <1>2, <1>6 DEF DemoOK, Outside, CompleteSample, Demo
<1>7. CASE Correct
  BY <1>1, <1>2, <1>7 DEF DemoOK, Outside, Correct, Demo
<1> QED BY <1>3, <1>4, <1>5, <1>6, <1>7 DEF UserActions

\* Providers from before, and the worker, touch none of it.
LEMMA WorkerDoes ==
    ASSUME IInv, Worker \/ (\E b \in BOOLEAN : Legacy(b)) \/ UNCHANGED vars
    PROVE  Outside /\ DemoOK'
<1>1. UNCHANGED <<effects, record, validated, granted, step, file, version, plan, demo>>
  BY DEF Worker, StartWorker, Interval, Succeed, FailBatch, KillWorker, Expire, Work, Legacy,
         schema, process, vars
<1> QED BY <1>1 DEF Outside, DemoOK, IInv

LEMMA Invariance == ASSUME Setting PROVE Spec => []IInv
<1>1. ASSUME Init PROVE IInv
  <2>1. ProcessOK /\ DemoOK
    <3>1. 1 \in 1 .. Files + 1 /\ 1 \in All
      BY DEF Setting, All
    <3>2. ProcessOK
      BY <1>1, <3>1 DEF Init, ProcessOK
    <3> QED BY <1>1, <3>2 DEF Init, DemoOK
  <2>2. Alone /\ \A i \in Instances : Process(i) /\ Planned(i)
    BY <1>1 DEF Init, Alone, Process, Planned, Seeding
  <2>3. 0 \in 0 .. Files /\ record = 1 .. 0 /\ record = effects
    BY <1>1 DEF Init, Setting
  <2> QED BY <2>1, <2>2, <2>3 DEF IInv, MigrationsAtomic
<1>2. ASSUME IInv, [Next]_vars PROVE IInv'
  <2>1. CASE \E i \in Instances : Does(i)
    BY <1>2, <2>1, ActsKeep DEF Does
  <2>2. CASE Outside /\ DemoOK'
    BY <1>2, <2>2, OutsideKeeps
  <2>3. (\E i \in Instances : Does(i)) \/ (Outside /\ DemoOK')
    BY <1>2, StartDoes, MigrateDoes, SeedDoes, SetupDoes, FailDoes, UsersDo, WorkerDoes
       DEF Next, Deploy, Step
  <2> QED BY <2>1, <2>2, <2>3
<1> QED BY <1>1, <1>2, PTL DEF Spec

----------------------------------------------------------------------------
(* The theorems. *)

\* Every instance is at a statement of its scripts, the schema holds only
\* migrations that exist, and at most one seed is under way.
THEOREM DeploymentTypeCorrect == ASSUME Setting PROVE Spec => []TypeOK
<1>1. ASSUME IInv PROVE TypeOK
  <2> DEFINE S == {i \in Instances : step[i] \in Seeding}
  <2>1. Cardinality(S) <= 1
    <3>1. CASE S = {}
      BY <3>1, FS_EmptySet
    <3>2. CASE S # {}
      <4>1. PICK i \in S : S = {i}
        BY <1>1, <3>2 DEF IInv, Alone
      <4>2. Cardinality({i}) = 1
        BY FS_Singleton
      <4> QED BY <4>1, <4>2
    <3> QED BY <3>1, <3>2
  <2> QED BY <1>1, <2>1 DEF IInv, ProcessOK, TypeOK
<1> QED BY <1>1, Invariance, PTL

\* The rows of schema_migration are the migrations that were applied, an
\* initial part of the files, wherever a script failed or met another one.
THEOREM DeploymentMigratesInOrder == ASSUME Setting PROVE Spec => []MigrationsAtomic
<1>1. IInv => MigrationsAtomic
  BY DEF IInv
<1> QED BY <1>1, Invariance, PTL

\* No set of demonstration rows is there twice (seed-dev.ts).
THEOREM DeploymentSeedsOnce == ASSUME Setting PROVE Spec => []SeededOnce
<1>1. IInv => SeededOnce
  BY DEF IInv, DemoOK, SeededOnce
<1> QED BY <1>1, Invariance, PTL

\* An instance set up by deploy-setup listens only on a complete schema.
THEOREM DeploymentServesComplete == ASSUME Setting PROVE Spec => []ServesComplete
<1>1. IInv => ServesComplete
  BY DEF IInv, Process, ServesComplete, Setting
<1> QED BY <1>1, Invariance, PTL

\* A seed that runs again does not undo the decision of a booking.
THEOREM DeploymentDecisionsSurvive == ASSUME Setting PROVE Spec => DecisionsSurvive
<1>1. ASSUME IInv, [Next]_vars
      PROVE  [demo.pending \in {"CONFIRMED", "DECLINED"} => demo'.pending = demo.pending]_vars
  <2>1. (\E i \in Instances : Does(i)) \/ Outside
    BY <1>1, StartDoes, MigrateDoes, SeedDoes, SetupDoes, FailDoes, UsersDo, WorkerDoes
       DEF Next, Deploy, Step
  <2> QED BY <2>1 DEF Does, Acts, Quiet, Begins, Skips, Applies, Looks, Seeds, Outside
<1> QED BY <1>1, Invariance, PTL DEF Spec, DecisionsSurvive
=============================================================================
