------------------------------ MODULE PartLedger ------------------------------
(***************************************************************************)
(* What sending parts back promises, without rows, requests or snapshots:  *)
(* every part is in the hands of at most one parcel, and a parcel moves    *)
(* forward, sent, received, invoiced, paid, until it is void.              *)
(***************************************************************************)
CONSTANTS Shipments, Parts, None

VARIABLES holder,   \* the parcel that holds each part, or None
          phase     \* how far each parcel has come

vars == <<holder, phase>>

Phases == {"unsent", "Sent", "Received", "Invoiced", "Paid", "void"}

Contents(s) == {p \in Parts : holder[p] = s}
Release(P) == holder' = [p \in Parts |-> IF p \in P THEN None ELSE holder[p]]
Move(s, from, to) == phase[s] \in from /\ phase' = [phase EXCEPT ![s] = to]

Send(s, P) ==
    /\ Move(s, {"unsent"}, "Sent")
    /\ P # {} /\ \A p \in P : holder[p] = None
    /\ holder' = [p \in Parts |-> IF p \in P THEN s ELSE holder[p]]

\* What did not arrive is released; something did arrive.
Receive(s, lost) ==
    /\ Move(s, {"Sent"}, "Received")
    /\ lost \subseteq Contents(s) /\ lost # Contents(s)
    /\ Release(lost)

Invoice(s) ==
    /\ Move(s, {"Received"}, "Invoiced")
    /\ Contents(s) # {}
    /\ UNCHANGED holder

Pay(s) == Move(s, {"Invoiced"}, "Paid") /\ UNCHANGED holder

\* Rejected or withdrawn while Sent, or deleted at any time.
Void(s) == Move(s, Phases \ {"unsent", "void"}, "void") /\ Release(Contents(s))

\* A repair report was deleted together with its shipped lines.
Forget(P) == Release(P) /\ UNCHANGED phase

Init == /\ holder = [p \in Parts |-> None]
        /\ phase = [s \in Shipments |-> "unsent"]

Next == \/ \E s \in Shipments, P \in SUBSET Parts : Send(s, P) \/ Receive(s, P)
        \/ \E s \in Shipments : Invoice(s) \/ Pay(s) \/ Void(s)
        \/ \E P \in SUBSET Parts : Forget(P)

Spec == Init /\ [][Next]_vars
=============================================================================
