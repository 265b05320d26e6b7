---------------------------- MODULE MCRepairParts ----------------------------
(* Small instances of RepairParts: one technician, one or two tabs. *)
EXTENDS RepairParts

CONSTANTS q1, q2, g1, g2, h1, h2

MCTechOf == [t \in Tabs |-> "tech"]
MCRequestFor == [q \in Requests |-> IF q = q1 THEN g1 ELSE g2]

\* The office's handler and the one that files reports, side by side.
OfficeAndFiling ==
    [h \in Handlers |-> IF h = h1 THEN {"review", "cancel", "status", "withdraw"}
                                  ELSE {"file"}]
=============================================================================
