--------------------------- MODULE MCPartShipments ---------------------------
(* Small instances of PartShipments: who may be in flight with whom. *)
EXTENDS PartShipments, TLC

CONSTANTS r1, r2, r3, p1, p2, x1, x2, t1

\* One or two repairs of technician t1; any other technician owns nothing.
MCRepairOf == [p \in Parts |-> IF p = p2 /\ x2 \in Repairs THEN x2 ELSE x1]
MCTechOf == [x \in Repairs |-> t1]

\* Any two requests interleave, restoring included.
AnyTwo == [r \in Requests |-> Operations]

\* Two parcels are being filed while a desk works on parcels and reports.
ParcelDesk == {"cancel", "receive", "invoice", "pay", "reject", "delete"}
TwoSenders ==
    [r \in Requests |-> IF r = r3 THEN ParcelDesk \union RepairOperations \union DeleteOperations
                                  ELSE {"create"}]

\* Unused parcels are alike, and so are r1 and r2, which serve the same.
Symmetry == Permutations(Shipments) \union Permutations({r1, r2})
=============================================================================
