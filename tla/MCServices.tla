----------------------------- MODULE MCServices -----------------------------
(* A small instance of Services, in which one component runs in each       *)
(* behaviour: a product of them would show nothing more, since no step     *)
(* reads or changes the variables of two of them.                          *)
EXTENDS Services, MCDirectory

CONSTANTS u1, u2, c1, c2, code1, code2,         \* Accounts
          r1, r2, d1, w1, g1, m1, m2,       \* Authority
          i1, i2, s1,                       \* Deployment
          call1, call2, need1, need2, class1, class2, b1, b2   \* WebClient

VARIABLES component, aspect   \* the component that runs, and what of it

WindowStart == w1 :> 1 @@ g1 :> 0
WindowEnd == w1 :> 2 @@ g1 :> 2

\* A component that does not run stays in one of its initial states.
NoDirectory ==
    /\ Init /\ passes = [p \in Providers |-> {}]
    /\ need = [t \in Requests |-> n1] /\ filter = [t \in Requests |-> f1]
NoAccounts == Acc!Init /\ \A u \in Users : account[u] = "NONE"
NoAuthority == Aut!Init
NoDeployment == Dep!Init
NoClient == Web!Init /\ ~published

StartOne ==
    \/ /\ component = "directory" /\ aspect = "all" /\ Init
       /\ filter[t1] = f1 /\ (need[t1] = n2 => need[t2] = n2)   \* the others rename these
       /\ NoAccounts /\ NoAuthority /\ NoDeployment /\ NoClient
    \/ /\ component = "accounts" /\ Acc!Init   \* one user at a time
       /\ \/ aspect = "routes" /\ account[u2] = "NONE"
          \/ /\ aspect = "seeded" /\ account[u1] = "NONE" /\ account[u2] = "ACTIVE"
             /\ ~profile[u2] \/ (provider[u2] = {} /\ "PROVIDER" \in roles[u2])
       /\ NoDirectory /\ NoAuthority /\ NoDeployment /\ NoClient
    \/ /\ NoDirectory /\ NoAccounts /\ NoAuthority /\ NoDeployment /\ Web!Init
       /\ published => component = "client" /\ aspect = "profile"
       /\ \/ component = "authority" /\ aspect \in {"delegations", "institutions", "quotes", "rules"}
          \/ component = "deployment" /\ aspect \in {"containers", "setup", "worker"}
          \/ component = "client" /\ aspect \in {"lists", "tabs", "provider", "bookings", "profile"}

----------------------------------------------------------------------------
(* Requests of one kind start in the order of their names, and an aspect    *)
(* takes the operations that can disturb each other.                        *)

AccountsAspect ==
    /\ (step'[c2] # "idle" => step'[c1] # "idle")
    /\ \A c \in {c1, c2} : request'[c].user \in {"none", IF aspect = "seeded" THEN u2 ELSE u1}
    /\ aspect = "seeded" => \A c \in {c1, c2} : request'[c].op \notin {"services", "signOut"}

\* A need without a category and a ceiling, where no floor is configured.
PlainNeed == [category |-> "none", ceiling |-> None, floors |-> [k \in Aut!FloorKeys |-> None],
              development |-> FALSE]
AuthorityAspect ==
    /\ (stage'[r2] # "idle" => stage'[r1] # "idle") /\ matter'[m2] = "OPEN"
    /\ aspect = "rules" =>   \* one need, of any body, and its delegation
         /\ clock' = 0 /\ stage'[r2] = "idle" /\ deed'[r1] \in {"none", "need"} /\ matter' = matter
    /\ aspect # "rules" => \A r \in {r1, r2} : routed'[r] # None => routed'[r].body = PlainNeed
    /\ aspect \notin {"delegations", "rules"} =>
         \A r \in {r1, r2} : deed'[r] \notin Aut!Delegated \cup {"referral", "open", "close"}
    /\ aspect # "quotes" => matter' = matter /\ \A r \in {r1, r2} : deed'[r] # "quote"
    /\ aspect # "institutions" => revoked' = {} /\ \A r \in {r1, r2} : target'[r] \notin Aut!Windows

\* The demonstration rows that users have changed.
Changed(d) ==
    {row \in {"account", "services", "pending", "sample"} :
       d[row] \in {"SUSPENDED", "changed", "CONFIRMED", "DECLINED", "COMPLETED"}}
    \cup (IF d.services # "NONE" /\ d.credits = 0 THEN {"credits"} ELSE {})
DeploymentAspect ==
    /\ aspect = "worker" =>
         /\ phase'[i1] = "off" /\ phase'[i2] = "off" /\ starts'[s1] <= 1
         /\ ~legacy' /\ demo' = demo
    /\ aspect # "worker" => batch' = "down" /\ expiries' = 0
    /\ aspect = "setup" =>   \* beside a container that only migrates
         demo' = demo /\ phase'[i2] = "off" /\ phase'[i1] \notin Dep!Seeding /\ starts'[i1] <= 1
    /\ aspect = "containers" =>
         /\ ~legacy' /\ phase'[s1] = "off" /\ (starts'[i2] > 0 => starts'[i1] > 0)
         /\ starts'[i2] <= 1
         /\ \A i \in {i1, i2} : phase'[i] # "off" => version'[i] = 1
         /\ Cardinality(Changed(demo')) <= 2

ClientAspect ==
    /\ total' \in {None} \cup 0 .. 2
    /\ calls'[call2].op # "none" /\ calls[call2].op = "none" => calls[call1].op # "none"
    /\ aspect = "lists" =>
         /\ portal' = "citizen" /\ ledger' = 0
         /\ \A c \in {call1, call2} :
              /\ calls'[c].op # "referral"
              /\ calls'[c].op = "directory" => <<calls'[c].on, calls'[c].type>> # <<need2, class2>>
    /\ aspect = "tabs" =>
         /\ portal' \in {"citizen", "stats"} /\ ledger' = 0 /\ created' \subseteq {need1}
         /\ \A c \in {call1, call2} : calls'[c].type # class2
    /\ aspect \in {"provider", "bookings", "profile"} => portal' \in {"provider", "institution"}
    /\ aspect = "provider" =>   \* one booking
         /\ chosen' = b1 /\ \A c \in {call1, call2} : calls'[c].op # "profile" /\ calls'[c].on # b2
         /\ calls'[call2].op # "other" /\ (calls'[call1].op = "other" => calls'[call2].op \in {"none", "credits"})
    /\ aspect = "bookings" =>
         /\ ledger' = 0 /\ calls'[call1].op \in {"none", "accept", "decline"}
         /\ calls'[call2].op \in {"none", "accept"}
    /\ aspect = "profile" =>
         /\ chosen' = b1 /\ calls'[call1].op \in {"none", "profile"}
         /\ calls'[call2].op \in {"none", "profile", "credits"}

One == <<component, aspect, all>>
NextOne ==
    /\ UNCHANGED <<component, aspect>>
    /\ \/ component = "directory" /\ DirectoryStep
       \/ component = "accounts" /\ AccountsStep /\ AccountsAspect
       \/ component = "authority" /\ AuthorityStep /\ AuthorityAspect
       \/ component = "deployment" /\ DeploymentStep /\ DeploymentAspect
       \/ component = "client" /\ ClientStep /\ ClientAspect

\* The fairness of each component, where it runs.
FairnessOfOne ==
    /\ \A t \in Requests :
         /\ WF_directoryVars(component = "directory" /\ Step(t))
         /\ WF_directoryVars(component = "directory" /\ AbortDeadlocked(t))
    /\ \A c \in {c1, c2} : WF_accountVars(component = "accounts" /\ Acc!Step(c))
    /\ WF_deploymentVars(component = "deployment" /\ Dep!StartWorker)
    /\ WF_deploymentVars(component = "deployment" /\ Dep!Interval)
    /\ SF_deploymentVars(component = "deployment" /\ Dep!Succeed)
    /\ \A c \in {call1, call2} :
         /\ WF_clientVars(component = "client" /\ Web!Serve(c))
         /\ WF_clientVars(component = "client" /\ Web!Settle(c))

OneOfTheServices == StartOne /\ [][NextOne]_One /\ FairnessOfOne
=============================================================================
