----------------------------- MODULE MCGuarantees -----------------------------
(* Small instances of Guarantees: codes, cover lengths and workloads. *)
EXTENDS Guarantees, TLC

CONSTANTS r1, r2, k1, k2, gen, p1, p2

\* k1 and k2 are printed on products p1 and p2; gen is a generated code.
MCProductOf == [code \in Codes |-> IF code = k1 THEN p1
                                   ELSE IF code = k2 THEN p2 ELSE None]

\* p1 is covered for two units and golden for one, p2 for one and never golden.
MCDefaultMonths == [p \in Products |-> IF p = p1 THEN 2 ELSE 1]
MCGoldenMonths == [p \in Products |-> IF p = p1 THEN 1 ELSE 0]

\* One desk, and an office that enters guarantees beside it (OneDesk).
DeskAndEntry == r1 :> Operations @@ r2 :> {"create", "adminCreate"}

\* Ids without an order are interchangeable.
Symmetry == Permutations(Customers)
=============================================================================
