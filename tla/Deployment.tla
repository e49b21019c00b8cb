----------------------------- MODULE Deployment -----------------------------
(***************************************************************************)
(* Starting the service: the migration script, the demonstration seed, the *)
(* deploy setup and the server start of several instances that may run at  *)
(* the same time, fail or crash at any statement, and start again; and the *)
(* loop of the revalidation worker.                                        *)
(*                                                                         *)
(* A container (start-production.js) migrates and seeds, swallows every    *)
(* failure and starts the API.  An instance of Setup (render.yaml) runs    *)
(* deploy-setup first and starts only when that succeeded.                 *)
(***************************************************************************)
EXTENDS Naturals, FiniteSets

CONSTANTS Instances, Setup,
          Files,       \* the migrations, 1 .. Files in the order of their names
          MaxStarts,   \* bounds the starts of an instance
          BatchSize, MaxExpiries

VARIABLES effects, record,      \* migrations whose tables exist, rows of schema_migration
          validated, granted,   \* provider_fully_verified_expiry_check; the runtime role
          legacy,               \* a FULLY_VERIFIED provider without an expiry
          demo,                 \* the demonstration rows
          step, file, starts,   \* of an instance
          version,              \* the last migration its image holds
          plan,                 \* what the seed of an instance will insert
          running, batch,       \* the worker's flag, and what it is doing
          stale, expiries       \* expired tiers, and how many there have been

schema == <<effects, record, validated, granted, legacy>>
process == <<step, version, file, starts, plan>>
work == <<running, batch, stale, expiries>>
vars == <<schema, demo, process, work>>

All == 1 .. Files
Rows == {"pending", "sample", "credits", "grievances"}
Seeding == {"sample", "credits", "grievances", "commit seed"}
Setups == {"validate", "grant", "verify"}
Busy == {"next", "execute", "commit", "seed", "start"} \cup Seeding \cup Setups

Init ==
    /\ effects = {} /\ record = {} /\ validated = FALSE /\ granted = FALSE
    /\ legacy = FALSE
    /\ demo = [account |-> "NONE", services |-> "NONE", pending |-> "NONE", sample |-> "NONE",
               credits |-> 0, grievances |-> 0]   \* sets of them
    /\ step = [i \in Instances |-> "off"] /\ file = [i \in Instances |-> 1]
    /\ version = [i \in Instances |-> 1] /\ starts = [i \in Instances |-> 0]
    /\ plan = [i \in Instances |-> {}]
    /\ running = FALSE /\ batch = "down" /\ stale = 0 /\ expiries = 0

Goto(i, next) == step' = [step EXCEPT ![i] = next]
Go(i, next) == Goto(i, next) /\ UNCHANGED <<schema, demo, version, file, starts, plan, work>>

----------------------------------------------------------------------------
(* migrate.ts: one transaction for each file. *)

\* A version, newer or older than the last, is deployed.
Launch(i) ==
    /\ step[i] \in {"off", "exited", "listening"} /\ starts[i] < MaxStarts
    /\ \E v \in All : version' = [version EXCEPT ![i] = v]
    /\ starts' = [starts EXCEPT ![i] = @ + 1]
    /\ file' = [file EXCEPT ![i] = 1] /\ plan' = [plan EXCEPT ![i] = {}]
    /\ Goto(i, "next") /\ UNCHANGED <<schema, demo, work>>
\* Render restarts a crashed server without its setup; a container starts over.
Restart(i) ==
    /\ step[i] = "crashed" /\ file' = [file EXCEPT ![i] = 1] /\ plan' = [plan EXCEPT ![i] = {}]
    /\ Goto(i, IF i \in Setup THEN "start" ELSE "next")
    /\ UNCHANGED <<schema, demo, version, starts, work>>

\* SELECT EXISTS of the next file, outside any transaction.
FindNext(i) ==
    /\ step[i] = "next"
    /\ \/ file[i] > version[i] /\ Go(i, IF i \in Setup THEN "validate" ELSE "seed")
       \/ /\ file[i] \in (1 .. version[i]) \cap record
          /\ file' = [file EXCEPT ![i] = @ + 1]
          /\ UNCHANGED <<schema, demo, step, version, starts, plan, work>>
       \/ file[i] \in (1 .. version[i]) \ record /\ Go(i, "execute")

\* Whatever fails: the setup exits, the container starts the API all the same.
FaultyAfterFailure(i) == "start"
AfterFailure(i) == IF i \in Setup THEN "exited" ELSE "start"

\* BEGIN, the file and its row: waits while another instance executes the
\* same file, and fails when that one has committed.
FaultyWrites(i) == record' = record \cup {file[i]} /\ UNCHANGED effects
Writes(i) == UNCHANGED <<effects, record>>
Execute(i) ==
    /\ step[i] = "execute"
    /\ \A j \in Instances : ~(step[j] = "commit" /\ file[j] = file[i])
    /\ \/ file[i] \in effects /\ Go(i, AfterFailure(i))
       \/ /\ file[i] \notin effects /\ Goto(i, "commit") /\ Writes(i)
          /\ UNCHANGED <<validated, granted, legacy, demo, version, file, starts, plan, work>>

CommitFile(i) ==
    /\ step[i] = "commit" /\ Goto(i, "next")
    /\ effects' = effects \cup {file[i]} /\ record' = record \cup {file[i]}
    /\ file' = [file EXCEPT ![i] = @ + 1]
    /\ UNCHANGED <<validated, granted, legacy, demo, version, starts, plan, work>>

----------------------------------------------------------------------------
(* seed-dev.ts: one transaction. *)

\* The rows of the accounts are updated first, so a second seed waits here;
\* services are rewritten, whatever their provider has changed.
AccountsFree == \A j \in Instances : step[j] \notin Seeding
SeedAccounts(i) == step[i] = "seed" /\ AccountsFree /\ Go(i, "sample")

Plan(i, row, absent, next) ==
    /\ plan' = [plan EXCEPT ![i] = IF absent THEN @ \cup {row} ELSE @]
    /\ Goto(i, next) /\ UNCHANGED <<schema, demo, version, file, starts, work>>

\* The bookings are looked up; the INSERT of the sample matter runs its
\* trigger even where ON CONFLICT drops the row: it demands an ASSIGNED
\* allocation, and the seed fails once that allocation is completed.
FaultyPendingAbsent == TRUE
PendingAbsent == demo.pending = "NONE"
SeedSample(i) ==
    /\ step[i] = "sample"
    /\ \/ demo.sample = "COMPLETED" /\ Go(i, AfterFailure(i))
       \/ /\ demo.sample # "COMPLETED"
          /\ plan' = [plan EXCEPT ![i] =
                        (IF PendingAbsent THEN {"pending"} ELSE {})
                        \cup (IF demo.sample = "NONE" THEN {"sample"} ELSE {})]
          /\ Goto(i, "credits") /\ UNCHANGED <<schema, demo, version, file, starts, work>>

CreditsAbsent == demo.credits = 0
SeedCredits(i) == step[i] = "credits" /\ Plan(i, "credits", CreditsAbsent, "grievances")
SeedGrievances(i) ==
    step[i] = "grievances" /\ Plan(i, "grievances", demo.grievances = 0, "commit seed")

\* Written by every seed: accounts made ACTIVE, services as in the dataset.
Reseeded(d) == [d EXCEPT !.account = "ACTIVE", !.services = "seeded"]
CommitSeed(i) ==
    /\ step[i] = "commit seed" /\ Goto(i, "start")
    /\ demo' = [Reseeded(demo) EXCEPT
         !.pending = IF "pending" \in plan[i] THEN "HELD" ELSE @,
         !.sample = IF "sample" \in plan[i] THEN "OPEN" ELSE @,
         !.credits = IF "credits" \in plan[i] THEN @ + 1 ELSE @,
         !.grievances = IF "grievances" \in plan[i] THEN @ + 1 ELSE @]
    /\ UNCHANGED <<schema, version, file, starts, plan, work>>

----------------------------------------------------------------------------
(* deploy-setup.ts: its other three scripts; and api.ts. *)

\* LOCK TABLE provider, the search for unbounded tiers, VALIDATE CONSTRAINT.
Validate(i) ==
    /\ step[i] = "validate"
    /\ \/ legacy /\ Go(i, "exited")
       \/ /\ ~legacy /\ validated' = TRUE /\ Goto(i, "grant")
          /\ UNCHANGED <<effects, record, granted, legacy, demo, version, file, starts, plan, work>>

\* Every statement of apply-runtime-role.ts can be run again.
Grant(i) ==
    /\ step[i] = "grant" /\ granted' = TRUE /\ Goto(i, "verify")
    /\ UNCHANGED <<effects, record, validated, legacy, demo, version, file, starts, plan, work>>

\* verify-database.ts asks the catalog for the tables, triggers and functions
\* of the image's version, the validated constraint, and the runtime role.
ObjectsPresent(i) == 1 .. version[i] \subseteq effects /\ validated
RuntimeRole == granted
Complete(i) == ObjectsPresent(i) /\ RuntimeRole
Verify(i) == step[i] = "verify" /\ Go(i, IF Complete(i) THEN "start" ELSE "exited")

\* assertDatabaseRuntimeIdentity needs an expected user, which production
\* demands (loadConfig) and the container's environment does not name.
Identified(i) == i \notin Setup \/ granted
StartApi(i) == step[i] = "start" /\ Go(i, IF Identified(i) THEN "listening" ELSE "exited")

----------------------------------------------------------------------------
(* Failures. *)

\* A statement fails: the script rolls back, ends its connection and throws.
Fail(i) == step[i] \in Busy \ {"start"} /\ Go(i, AfterFailure(i))
\* A process dies; a crash during the setup fails the deployment.
Crash(i) ==
    /\ step[i] \in Busy \cup {"listening"}
    /\ Go(i, IF step[i] \in {"start", "listening"} THEN "crashed" ELSE "off")

----------------------------------------------------------------------------
(* Users of the API and the database owner. *)

Serving == \E i \in Instances : step[i] = "listening"
Demo(change) == demo' = change /\ UNCHANGED <<schema, process, work>>

DecidePending ==
    /\ Serving /\ demo.pending = "HELD"
    /\ \E s \in {"CONFIRMED", "DECLINED"} : Demo([demo EXCEPT !.pending = s])
ChangeServices ==
    Serving /\ AccountsFree /\ demo.services = "seeded" /\ Demo([demo EXCEPT !.services = "changed"])
Suspend == AccountsFree /\ demo.account = "ACTIVE" /\ Demo([demo EXCEPT !.account = "SUSPENDED"])
CompleteSample == AccountsFree /\ demo.sample = "OPEN" /\ Demo([demo EXCEPT !.sample = "COMPLETED"])
\* A correction books the credits away.
Correct == demo.credits > 0 /\ Demo([demo EXCEPT !.credits = 0])
\* Providers of a database older than the constraint, degraded by the worker.
Legacy(b) ==
    /\ effects # {} /\ (b => ~validated) /\ legacy' = b
    /\ UNCHANGED <<effects, record, validated, granted, demo, process, work>>

----------------------------------------------------------------------------
(* worker.ts: a batch when it starts, then one a minute unless one runs. *)

Work(b, r) == batch' = b /\ running' = r /\ UNCHANGED <<schema, demo, process, expiries>>
StartWorker == batch = "down" /\ granted /\ Work("first", TRUE) /\ UNCHANGED stale
Interval == batch = "waiting" /\ ~running /\ Work("batch", TRUE) /\ UNCHANGED stale
Succeed ==
    /\ batch \in {"first", "batch"} /\ Work("waiting", FALSE)
    /\ stale' = IF stale > BatchSize THEN stale - BatchSize ELSE 0
\* The first batch is awaited without a catch; the flag is reset in finally.
FaultyReset == running
Reset == FALSE
FailBatch ==
    /\ batch \in {"first", "batch"} /\ UNCHANGED stale
    /\ Work(IF batch = "first" THEN "down" ELSE "waiting", Reset)
KillWorker == batch # "down" /\ Work("down", FALSE) /\ UNCHANGED stale
Expire ==
    /\ expiries < MaxExpiries /\ expiries' = expiries + 1 /\ stale' = stale + 1
    /\ UNCHANGED <<schema, demo, process, running, batch>>

----------------------------------------------------------------------------
(* The next-state relation. *)

Step(i) ==
    \/ FindNext(i) \/ Execute(i) \/ CommitFile(i)
    \/ SeedAccounts(i) \/ SeedSample(i) \/ SeedCredits(i) \/ SeedGrievances(i) \/ CommitSeed(i)
    \/ Validate(i) \/ Grant(i) \/ Verify(i) \/ StartApi(i)
UserActions == DecidePending \/ ChangeServices \/ Suspend \/ CompleteSample \/ Correct
Worker == StartWorker \/ Interval \/ Succeed \/ FailBatch \/ KillWorker \/ Expire
Deploy == \E i \in Instances : Launch(i) \/ Restart(i) \/ Step(i) \/ Fail(i) \/ Crash(i)

Next == Deploy \/ UserActions \/ (\E b \in BOOLEAN : Legacy(b)) \/ Worker
Spec == Init /\ [][Next]_vars

\* A worker that died is started again, the timer fires, and a batch that is
\* tried again and again is not refused for ever.
Fairness == WF_vars(StartWorker) /\ WF_vars(Interval) /\ SF_vars(Succeed)

----------------------------------------------------------------------------
(* Correctness. *)

TypeOK ==
    /\ effects \subseteq All /\ record \subseteq All
    /\ step \in [Instances -> Busy \cup {"off", "listening", "exited", "crashed"}]
    /\ file \in [Instances -> 1 .. Files + 1] /\ version \in [Instances -> All]
    /\ plan \in [Instances -> SUBSET Rows]
    /\ Cardinality({i \in Instances : step[i] \in Seeding}) <= 1

\* What schema_migration says was applied is what was applied, every file
\* after the ones before it, wherever a migration crashed or met another one.
MigrationsAtomic == record = effects /\ \E n \in 0 .. Files : record = 1 .. n

\* However often instances start, crash and seed at once, the total never
\* holds two sets of the demonstration credits (a total corrected to zero is
\* seeded again), and the grievances are filed once.
SeededOnce == demo.credits <= 1 /\ demo.grievances <= 1

\* A restart does not offer a decided booking again.
DecisionsSurvive ==
    [][demo.pending \in {"CONFIRMED", "DECLINED"} => demo'.pending = demo.pending]_vars

\* An instance set up by deploy-setup serves a complete schema under the
\* runtime role, after whatever failure and beside containers that migrate too.
ServesComplete == \A i \in Setup : step[i] = "listening" => Complete(i)

\* An expired tier does not wait for ever although batches fail.
BatchesGoOn == granted /\ stale > 0 ~> stale = 0
=============================================================================
