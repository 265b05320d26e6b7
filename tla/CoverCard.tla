------------------------------ MODULE CoverCard ------------------------------
(***************************************************************************)
(* What a guarantee promises the customer who holds it: it waits for a     *)
(* decision, and once it covers the product the cover only ever gets       *)
(* longer, until the guarantee is cancelled for good.                      *)
(***************************************************************************)
EXTENDS Integers

CONSTANT Guarantees

VARIABLES phase,   \* where each guarantee stands
          until    \* the last day of its cover

vars == <<phase, until>>

Move(g, from, to) == phase[g] \in from /\ phase' = [phase EXCEPT ![g] = to]

\* Guarantee g now ends on some day; every other one ends when it did.
Dated(g) == until'[g] \in Nat /\ until' = [until EXCEPT ![g] = until'[g]]

\* Registered by the customer, or entered by the office with a decision.
Open(g) == /\ \E to \in {"pending", "refused", "covered"} : Move(g, {"none"}, to)
           /\ Dated(g)

\* Edited while it waits, or submitted again after a refusal.
Submit(g) == Move(g, {"pending", "refused"}, "pending") /\ Dated(g)

Decide(g) == /\ \E to \in {"refused", "covered"} : Move(g, {"pending"}, to)
             /\ UNCHANGED until

Extend(g) == Move(g, {"covered"}, "covered") /\ Dated(g) /\ until[g] <= until'[g]

Void(g) == Move(g, {"pending", "refused", "covered"}, "void") /\ UNCHANGED until

Init == /\ phase = [g \in Guarantees |-> "none"]
        /\ until = [g \in Guarantees |-> 0]

Next == \E g \in Guarantees :
            Open(g) \/ Submit(g) \/ Decide(g) \/ Extend(g) \/ Void(g)

Spec == Init /\ [][Next]_vars
=============================================================================
