------------------------------ MODULE WebClient ------------------------------
(***************************************************************************)
(* The web client: the portal that is mounted, its buttons, the calls it   *)
(* has in flight and what it shows when they settle, beside a server that  *)
(* answers late, in any order, or whose answer is lost.                    *)
(*                                                                         *)
(* A call keeps the arguments it was started with.  Changing the tab       *)
(* unmounts the portal: its state is gone, its calls still reach the       *)
(* server, and what they would have set is dropped.  The portal that is    *)
(* mounted next has its buttons enabled.                                   *)
(***************************************************************************)
EXTENDS Naturals

CONSTANTS Calls, Needs, Types, Bookings, None, MaxTotal,
          FirstBooking   \* of DEMO_BOOKINGS, which is selected at first

Portals == {"citizen", "provider", "institution", "stats"}
\* The calls started by a button that loading disables, and the others.
Guarded == {"need", "select", "referral", "accept", "decline", "claim", "profile", "other"}
Fetches == {"directory", "credits", "inspect"}

VARIABLES portal, loading,
          need, directory,           \* needResult, the list (of which need and class)
          selected, allocation,      \* selectedProvider, allocationResult
          chosen, message,           \* bookingId, the action of bookingActionMsg
          notice, total,             \* profileSuccessMsg, credits.totalCredits
          calls,                     \* [Calls -> call]
          created, surfaced, assigned, booking, published, ledger   \* of the server

citizenView == <<need, directory, selected, allocation>>
providerView == <<chosen, message, notice, total>>
client == <<portal, loading, citizenView, providerView>>
server == <<created, surfaced, assigned, booking, published, ledger>>
vars == <<client, calls, server>>

\* A call: its operation and arguments, whether its portal is still mounted,
\* and its answer: "ok" with a value, "error" or "conflict" ({error: ...}), "thrown".
NoCall == [op |-> "none", on |-> None, type |-> None, live |-> FALSE, answer |-> "none", value |-> None]
NoAllocation == [need |-> None, type |-> None]

Init ==
    /\ portal = "citizen" /\ loading = FALSE
    /\ need = None /\ directory = NoAllocation
    /\ selected = None /\ allocation = NoAllocation
    /\ chosen = FirstBooking /\ message = "none" /\ notice = "none" /\ total = None
    /\ calls = [c \in Calls |-> NoCall]
    /\ created = {} /\ surfaced = {} /\ assigned = [n \in Needs |-> None]
    /\ booking = [b \in Bookings |-> "HELD"] /\ published \in BOOLEAN /\ ledger = 0

----------------------------------------------------------------------------
(* Buttons. *)

Call(c, op, on, t) ==
    /\ calls[c].op = "none" /\ UNCHANGED server
    /\ calls' = [calls EXCEPT ![c] = [NoCall EXCEPT !.op = op, !.on = on, !.type = t, !.live = TRUE]]

\* disabled={loading}; the handler sets it before the call.
FaultyEnabled == TRUE
Enabled == ~loading
Press(c, op, on, t) == Enabled /\ loading' = TRUE /\ Call(c, op, on, t)

SubmitNeed(c) ==
    /\ portal = "citizen" /\ Press(c, "need", None, None)
    /\ need' = None /\ directory' = NoAllocation /\ allocation' = NoAllocation
    /\ UNCHANGED <<portal, selected, providerView>>

\* Choosing a classification asks at once, although an answer is awaited.
FetchDirectory(c) ==
    /\ portal = "citizen" /\ need # None
    /\ \E t \in Types : Call(c, "directory", need, t)
    /\ UNCHANGED client

\* The listed helper; the button of the selected one stays disabled.
SelectProvider(c) ==
    /\ portal = "citizen" /\ need # None /\ directory.type \notin {None, selected}
    /\ Press(c, "select", need, directory.type)
    /\ UNCHANGED <<portal, citizenView, providerView>>
FetchReferral(c) ==
    /\ portal = "citizen" /\ need # None /\ Press(c, "referral", need, None)
    /\ UNCHANGED <<portal, citizenView, providerView>>

\* Exports and quotes of the provider, grievances, the figures of the public:
\* nothing of what they show is kept here.
PressOther(c, p) ==
    /\ portal = p /\ Press(c, "other", None, None)
    /\ UNCHANGED <<portal, citizenView, providerView>>
Export(c) == PressOther(c, "provider")
CreateQuote(c) == PressOther(c, "provider")
FileGrievance(c) == PressOther(c, "institution")
LoadStats(c) == PressOther(c, "stats")
CreateProfile(c) ==
    /\ portal = "provider" /\ Press(c, "profile", None, None) /\ notice' = "none"
    /\ UNCHANGED <<portal, citizenView, chosen, message, total>>
\* The list of bookings is never disabled; a button acts on the one selected.
ChooseBooking(b) ==
    /\ portal = "provider" /\ chosen' = b
    /\ UNCHANGED <<portal, loading, citizenView, message, notice, total, calls, server>>
DecideBooking(c) ==
    /\ portal = "provider" /\ \E op \in {"accept", "decline"} : Press(c, op, chosen, None)
    /\ UNCHANGED <<portal, citizenView, providerView>>
\* An opportunity; its needRequestId is sent as the id of a booking.  Which
\* ones were claimed, and are not offered again, is not kept.
ClaimCase(c) ==
    /\ portal = "provider" /\ \E b \in Bookings : Press(c, "claim", b, None)
    /\ UNCHANGED <<portal, citizenView, providerView>>
\* fetchCredits runs on mount and after a profile is saved, here at any time.
Fetch(c) ==
    /\ \/ portal = "provider" /\ Call(c, "credits", None, None)
       \/ /\ portal = "institution" /\ Call(c, "inspect", None, None)
          /\ ~\E d \in Calls : calls[d].live /\ calls[d].op = "inspect"   \* inspectLoading
    /\ UNCHANGED client

\* The portal is unmounted; PublicStats starts to load when it is mounted.
ChangeTab(p) ==
    /\ portal' = p /\ p # portal /\ loading' = FALSE
    /\ need' = None /\ directory' = NoAllocation
    /\ selected' = None /\ allocation' = NoAllocation
    /\ chosen' = FirstBooking /\ message' = "none" /\ notice' = "none" /\ total' = None
    /\ calls' = [c \in Calls |-> IF calls[c].op = "none" THEN NoCall ELSE [calls[c] EXCEPT !.live = FALSE]]
    /\ UNCHANGED server

----------------------------------------------------------------------------
(* The server. *)

Reply(c, what, v) == calls' = [calls EXCEPT ![c].answer = what, ![c].value = v] /\ UNCHANGED client

ServeNeed(c) ==
    \E n \in Needs \ created :
        /\ calls[c].op = "need" /\ created' = created \cup {n} /\ Reply(c, "ok", n)
        /\ UNCHANGED <<surfaced, assigned, booking, published, ledger>>
ServeDirectory(c) ==
    /\ calls[c].op = "directory" /\ surfaced' = surfaced \cup {<<calls[c].on, calls[c].type>>}
    /\ Reply(c, "ok", None) /\ UNCHANGED <<created, assigned, booking, published, ledger>>
\* A helper that was not surfaced for this need is refused.
FaultySurfaced(c) == calls[c].on \in created
Surfaced(c) == <<calls[c].on, calls[c].type>> \in surfaced
ServeSelect(c) ==
    /\ calls[c].op = "select" /\ Surfaced(c) /\ assigned[calls[c].on] = None
    /\ assigned' = [assigned EXCEPT ![calls[c].on] = calls[c].type]
    /\ Reply(c, "ok", None) /\ UNCHANGED <<created, surfaced, booking, published, ledger>>
ServeBooking(c) ==
    /\ calls[c].op \in {"accept", "decline", "claim"}
    /\ booking[calls[c].on] = "HELD"
    /\ booking' = [booking EXCEPT ![calls[c].on] =
                     IF calls[c].op = "decline" THEN "DECLINED" ELSE "CONFIRMED"]
    /\ Reply(c, "ok", None) /\ UNCHANGED <<created, surfaced, assigned, published, ledger>>
\* A user has one provider profile.
ServeProfile(c) ==
    /\ calls[c].op = "profile" /\ published' = TRUE
    /\ Reply(c, IF published THEN "conflict" ELSE "ok", None)
    /\ UNCHANGED <<created, surfaced, assigned, booking, ledger>>
ServeOther(c) ==
    /\ calls[c].op \in {"referral", "other", "inspect", "credits"}
    /\ Reply(c, "ok", IF calls[c].op = "credits" THEN ledger ELSE None) /\ UNCHANGED server

\* Refused (an answer that is not 2xx still resolves), or never received.
Refuse(c) == \E what \in {"error", "thrown"} : Reply(c, what, None) /\ UNCHANGED server
Serve(c) ==
    /\ calls[c].op # "none" /\ calls[c].answer = "none"
    /\ \/ ServeNeed(c) \/ ServeDirectory(c) \/ ServeSelect(c) \/ ServeBooking(c)
       \/ ServeProfile(c) \/ ServeOther(c) \/ Refuse(c)
\* The answer is lost on the way back: fetch rejects.
LoseAnswer(c) == calls[c].answer = "ok" /\ Reply(c, "thrown", None) /\ UNCHANGED server

\* An administrator books a service, the only way a credit comes to be.
Append ==
    /\ ledger < MaxTotal /\ ledger' = ledger + 1
    /\ UNCHANGED <<client, calls, created, surfaced, assigned, booking, published>>

----------------------------------------------------------------------------
(* Answers arrive: the rest of the handler. *)

\* setLoading(false) in finally, whatever was answered.
Ends(c) == loading' = (loading /\ calls[c].op \notin Guarded)
\* res.error is looked at before the answer is shown.
Shows(c) == calls[c].answer = "ok"

SettleNeed(c) ==
    /\ calls[c].op = "need" /\ need' = IF Shows(c) THEN calls[c].value ELSE need
    /\ UNCHANGED <<portal, directory, selected, allocation, providerView>>
SettleDirectory(c) ==
    /\ calls[c].op = "directory"
    /\ directory' = IF Shows(c) THEN [need |-> calls[c].on, type |-> calls[c].type] ELSE directory
    /\ UNCHANGED <<portal, need, selected, allocation, providerView>>
SettleSelect(c) ==
    /\ calls[c].op = "select"
    /\ selected' = IF Shows(c) THEN calls[c].type ELSE selected
    /\ allocation' = IF Shows(c) THEN [need |-> calls[c].on, type |-> calls[c].type] ELSE allocation
    /\ UNCHANGED <<portal, need, directory, providerView>>
\* bookingActionMsg keeps a title; the reference shown with it is that of the
\* booking selected at the moment.
SettleBooking(c) ==
    /\ calls[c].op \in {"accept", "decline"}
    /\ message' = IF Shows(c) THEN calls[c].op ELSE message
    /\ UNCHANGED <<portal, citizenView, chosen, notice, total>>
\* "Registered", and "Saved & Active" after a conflict or a thrown error.
SettleProfile(c) ==
    /\ calls[c].op = "profile"
    /\ notice' = CASE Shows(c) -> "registered"
                    [] calls[c].answer \in {"conflict", "thrown"} -> "saved"
                    [] OTHER -> notice
    /\ UNCHANGED <<portal, citizenView, chosen, message, total>>
\* The answer is not looked at: the reward is added to what is shown, or to
\* a total of its own when none has been loaded.
SettleClaim(c) ==
    /\ calls[c].op = "claim" /\ total' = IF total = None THEN 1 ELSE total + 1
    /\ UNCHANGED <<portal, citizenView, chosen, message, notice>>
SettleCredits(c) ==
    /\ calls[c].op = "credits" /\ total' = IF Shows(c) THEN calls[c].value ELSE total
    /\ UNCHANGED <<portal, citizenView, chosen, message, notice>>
SettleOther(c) ==
    calls[c].op \in {"referral", "other", "inspect"} /\ UNCHANGED <<portal, citizenView, providerView>>

Settle(c) ==
    /\ calls[c].answer # "none" /\ calls' = [calls EXCEPT ![c] = NoCall] /\ UNCHANGED server
    /\ \/ ~calls[c].live /\ UNCHANGED client
       \/ /\ calls[c].live /\ Ends(c)
          /\ \/ SettleNeed(c) \/ SettleDirectory(c) \/ SettleSelect(c) \/ SettleBooking(c)
             \/ SettleProfile(c) \/ SettleClaim(c) \/ SettleCredits(c) \/ SettleOther(c)

Buttons(c) ==
    \/ SubmitNeed(c) \/ FetchDirectory(c) \/ SelectProvider(c) \/ FetchReferral(c)
    \/ CreateProfile(c) \/ Export(c) \/ CreateQuote(c) \/ FileGrievance(c) \/ LoadStats(c)
    \/ DecideBooking(c) \/ ClaimCase(c) \/ Fetch(c)
Next ==
    \/ \E c \in Calls : Buttons(c) \/ Serve(c) \/ LoseAnswer(c) \/ Settle(c)
    \/ \E p \in Portals : ChangeTab(p)
    \/ \E b \in Bookings : ChooseBooking(b)
    \/ Append
Spec == Init /\ [][Next]_vars

\* A call is answered, or the browser gives it up.
Fairness == \A c \in Calls : WF_vars(Serve(c)) /\ WF_vars(Settle(c))

----------------------------------------------------------------------------
(* Correctness. *)

\* loading, shared by every button of the portal that is mounted, is TRUE exactly
\* while one call of theirs is in flight, and there is never a second one: while
\* the tab stays, pressing again sends nothing twice.  (Leaving the tab forgets
\* loading: a call that is still in flight then is not live, and coming back the
\* same request can be sent again.)
OneAtATime ==
    /\ loading <=> \E c \in Calls : calls[c].live /\ calls[c].op \in Guarded
    /\ \A c, d \in Calls :
         calls[c].live /\ calls[d].live /\ {calls[c].op, calls[d].op} \subseteq Guarded => c = d

\* A confirmed consultation that is shown is the one the server has assigned
\* to the need on the screen, with a helper surfaced for that need, though the
\* list it was chosen from may be that of an older need or classification.
ShownAllocationStands ==
    allocation # NoAllocation =>
        /\ allocation.need = need /\ assigned[need] = allocation.type
        /\ <<need, allocation.type>> \in surfaced

\* "Consultation Confirmed" or "Declined" is shown once the server has done so to
\* a booking (not always the one selected now, whose reference is shown beside it);
\* "New Practice Profile Registered!" once the profile is there ("Saved & Active"
\* promises less: it is also shown when nothing was saved).
MessageStands ==
    /\ message # "none" =>
         \E b \in Bookings : booking[b] = IF message = "accept" THEN "CONFIRMED" ELSE "DECLINED"
    /\ notice = "registered" => published

\* A portal does not stay disabled: loading ends, with an answer or without.
LoadingEnds == loading ~> ~loading

\* The total shown to a provider has been booked in the ledger ("Pro-Bono
\* Credits added to your Bar Council Standing Ledger"); nothing books credits
\* away in this model.
ShownCreditsBooked == total # None => total <= ledger
=============================================================================
