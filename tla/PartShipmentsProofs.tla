------------------------- MODULE PartShipmentsProofs -------------------------
(***************************************************************************)
(* What holds of PartShipments for any number of parcels, parts, repairs,  *)
(* technicians, prices and requests in flight.                             *)
(***************************************************************************)
EXTENDS PartShipments, FiniteSetTheorems, WellFoundedInduction, TLAPS

\* The status a parcel must have for a request to be let through.
Source(op) == CASE op = "invoice" -> "Received" [] op = "pay" -> "Invoiced"
                [] OTHER -> "Sent"

\* Every snapshot in flight is a consistent row of the right status: it is what
\* makes saving it over whatever the row has become harmless to MoneyTrail.
Snapshots ==
    \A r \in Requests : req[r].op \in RowOperations =>
        /\ req[r].ship \in Shipments
        /\ req[r].row.status = Source(req[r].op)
        /\ Consistent(req[r].row)

IInv == TypeOK /\ MoneyTrail /\ Snapshots

\* The empty rows have their types, and an idle slot is no operation.
LEMMA Defaults ==
    /\ NoRow \in PartShipment
    /\ NoItems \in [Parts -> PartShipmentItem]
    /\ Idle \in Request
    /\ Idle.op = "none"
    /\ Consistent(NoRow)
<1>1. NoRow \in PartShipment
  BY DEF NoRow, PartShipment, Totals
<1>2. NoItems \in [Parts -> PartShipmentItem]
  BY ConstantsAssumption DEF NoItems, NoItem, PartShipmentItem
<1>3. Idle \in Request /\ Idle.op = "none"
  BY <1>1, <1>2 DEF Idle, Request
<1>4. Consistent(NoRow)
  BY DEF Consistent, NoRow
<1> QED BY <1>1, <1>2, <1>3, <1>4

\* The transition table and the withdrawal test let a row through only from
\* one status per operation.
LEMMA GuardSource ==
    ASSUME NEW op \in RowOperations, NEW row,
           row.status \in Statuses, MayStart(op, row)
    PROVE  row.status = Source(op)
  BY DEF RowOperations, MayStart, Source, Target, allowedTransitions, Statuses

\* A request that ends leaves the snapshots of the others.
LEMMA FinishPreserves ==
    ASSUME NEW r \in Requests, Finish(r), req \in [Requests -> Request], Snapshots
    PROVE  req' \in [Requests -> Request] /\ Snapshots'
  BY Defaults DEF Finish, Snapshots, RowOperations, Consistent

\* The strengthened invariant holds at the start.
THEOREM InvInit == Init => IInv
<1> SUFFICES ASSUME Init PROVE IInv
  OBVIOUS
<1>1. TypeOK
  BY Defaults DEF Init, TypeOK, RepairRow
<1>2. MoneyTrail
  BY Defaults DEF Init, MoneyTrail
<1>3. Snapshots
  BY Defaults DEF Init, Snapshots, RowOperations
<1> QED BY <1>1, <1>2, <1>3 DEF IInv

\* A request that only reads: the tables stay, its new record is in order.
LEMMA ReadPreserves ==
    ASSUME IInv, NEW r \in Requests, NEW q \in Request,
           req' = [req EXCEPT ![r] = q],
           q.op \in RowOperations =>
               /\ q.ship \in Shipments
               /\ q.row.status = Source(q.op)
               /\ Consistent(q.row),
           UNCHANGED <<shipments, items, repairs, payouts>>
    PROVE  IInv'
<1>1. TypeOK'
  BY DEF IInv, TypeOK
<1>2. MoneyTrail'
  BY DEF IInv, MoneyTrail, Consistent
<1>3. Snapshots'
  <2> SUFFICES ASSUME NEW z \in Requests, req'[z].op \in RowOperations
               PROVE  /\ req'[z].ship \in Shipments
                      /\ req'[z].row.status = Source(req'[z].op)
                      /\ Consistent(req'[z].row)
    BY DEF Snapshots, Consistent
  <2>1. CASE z = r
    BY <2>1 DEF IInv, TypeOK
  <2>2. CASE z # r
    BY <2>2 DEF IInv, TypeOK, Snapshots
  <2> QED BY <2>1, <2>2
<1> QED BY <1>1, <1>2, <1>3 DEF IInv

\* A step that saves one well-typed, consistent row.
LEMMA SavePreserves ==
    ASSUME IInv, NEW s \in Shipments, NEW row \in PartShipment,
           Consistent(row), Save(s, row)
    PROVE  shipments' \in [Shipments -> PartShipment] /\ MoneyTrail'
  BY DEF IInv, TypeOK, MoneyTrail, Save, Consistent

\* Lines that are written are lines.
LEMMA UpdateLinesType ==
    ASSUME TypeOK, NEW s \in Shipments, NEW P,
           NEW line \in [Parts -> PartShipmentItem], UpdateLines(s, P, line)
    PROVE  items' \in [Shipments -> [Parts -> PartShipmentItem]]
  BY DEF TypeOK, UpdateLines

\* Every statement of every request keeps it.
THEOREM InvNext == IInv /\ [Next]_vars => IInv'
<1> SUFFICES ASSUME IInv, [Next]_vars PROVE IInv'
  OBVIOUS
<1> USE DEF IInv
<1>1. CASE UNCHANGED vars
  BY <1>1 DEF vars, TypeOK, MoneyTrail, Snapshots, Consistent
<1>2. ASSUME NEW r \in Requests, NEW t \in Techs, NEW P \in SUBSET Parts, LockParts(r, t, P)
      PROVE  IInv'
  <2> DEFINE q == [Idle EXCEPT !.op = "create", !.at = "locked",
                               !.technician = t, !.parts = P]
  <2>1. q \in Request /\ q.op \notin RowOperations
    BY Defaults DEF Request, RowOperations, Operations
  <2> QED BY <1>2, <2>1, ReadPreserves DEF LockParts
<1>3. ASSUME NEW r \in Requests, VerifyOwnStandingRepairs(r)
      PROVE  IInv'
  <2> DEFINE q == [req[r] EXCEPT !.at = "verified"]
  <2>1. q \in Request /\ q.op \notin RowOperations /\ req' = [req EXCEPT ![r] = q]
    <3>1. req[r] \in Request /\ req[r].op = "create"
      BY <1>3 DEF VerifyOwnStandingRepairs, At, TypeOK
    <3>2. req' = [req EXCEPT ![r].at = "verified"]
      BY <1>3 DEF VerifyOwnStandingRepairs, Advance
    <3> QED BY <3>1, <3>2 DEF Request, RowOperations
  <2> QED BY <1>3, <2>1, ReadPreserves DEF VerifyOwnStandingRepairs
<1>4. ASSUME NEW r \in Requests, VerifyNotHeld(r)
      PROVE  IInv'
  <2> DEFINE q == [req[r] EXCEPT !.at = "free"]
  <2>1. q \in Request /\ q.op \notin RowOperations /\ req' = [req EXCEPT ![r] = q]
    <3>1. req[r] \in Request /\ req[r].op = "create"
      BY <1>4 DEF VerifyNotHeld, At, TypeOK
    <3>2. req' = [req EXCEPT ![r].at = "free"]
      BY <1>4 DEF VerifyNotHeld, Advance
    <3> QED BY <3>1, <3>2 DEF Request, RowOperations
  <2> QED BY <1>4, <2>1, ReadPreserves DEF VerifyNotHeld
<1>5. ASSUME NEW r \in Requests, NEW s \in Shipments, InsertShipment(r, s)
      PROVE  IInv'
  <2> DEFINE row == [NoRow EXCEPT !.technician = req[r].technician, !.status = "Sent"]
  <2>1. row \in PartShipment /\ Consistent(row)
    <3>1. req[r].technician \in Techs \union {None}
      BY DEF TypeOK, Request
    <3>2. row \in PartShipment
      BY <3>1, Defaults DEF PartShipment, Statuses
    <3> QED BY <3>2 DEF Consistent, NoRow
  <2>2. shipments' \in [Shipments -> PartShipment] /\ MoneyTrail'
    BY <1>5, <2>1, SavePreserves DEF InsertShipment
  <2>3. items' \in [Shipments -> [Parts -> PartShipmentItem]]
    BY <1>5, ConstantsAssumption
    DEF InsertShipment, TypeOK, PartShipmentItem, NoItem
  <2>4. req' \in [Requests -> Request] /\ Snapshots'
    BY <1>5, FinishPreserves DEF InsertShipment, TypeOK
  <2> QED BY <1>5, <2>2, <2>3, <2>4 DEF InsertShipment, TypeOK
<1>6. ASSUME NEW r \in Requests, NEW op \in RowOperations, NEW s \in Shipments,
             FindShipment(r, op, s)
      PROVE  IInv'
  <2> DEFINE q == [Idle EXCEPT !.op = op, !.at = "found",
                               !.ship = s, !.row = shipments[s]]
  <2>1. q \in Request /\ q.op = op /\ q.ship = s /\ q.row = shipments[s]
    <3>1. shipments[s] \in PartShipment
      BY DEF TypeOK
    <3>2. op \in Operations
      BY DEF RowOperations, Operations
    <3> QED BY <3>1, <3>2, Defaults DEF Request
  <2>2. shipments[s].status \in Statuses
    BY <1>6 DEF FindShipment, Live, TypeOK, PartShipment
  <2>3. shipments[s].status = Source(op)
    BY <1>6, <2>2, GuardSource DEF FindShipment
  <2>4. Consistent(shipments[s])
    BY DEF MoneyTrail
  <2> HIDE DEF q
  <2>5. req' = [req EXCEPT ![r] = q]
    BY <1>6 DEF FindShipment, q
  <2>6. q.ship \in Shipments /\ q.row.status = Source(q.op) /\ Consistent(q.row)
    BY <2>1, <2>3, <2>4
  <2>7. UNCHANGED <<shipments, items, repairs, payouts>>
    BY <1>6 DEF FindShipment
  <2> QED BY <2>1, <2>5, <2>6, <2>7, ReadPreserves
<1>7. ASSUME NEW r \in Requests, LoadItems(r)
      PROVE  IInv'
  <2> DEFINE q == [req[r] EXCEPT !.at = "loaded", !.items = items[req[r].ship]]
  <2>1. req[r] \in Request /\ req[r].op \in RowOperations /\ req[r].ship \in Shipments
    BY <1>7 DEF LoadItems, At, RowOperations, Snapshots, TypeOK
  <2>2. items[req[r].ship] \in [Parts -> PartShipmentItem]
    BY <2>1 DEF TypeOK
  <2>3. q \in Request /\ q.op = req[r].op /\ q.ship = req[r].ship /\ q.row = req[r].row
    BY <2>1, <2>2 DEF Request
  <2>4. req' = [req EXCEPT ![r] = q]
    BY <1>7, <2>1 DEF LoadItems, TypeOK, Request
  <2> HIDE DEF q
  <2>5. q.ship \in Shipments /\ q.row.status = Source(q.op) /\ Consistent(q.row)
    BY <2>1, <2>3 DEF Snapshots
  <2>6. UNCHANGED <<shipments, items, repairs, payouts>>
    BY <1>7 DEF LoadItems
  <2> QED BY <2>3, <2>4, <2>5, <2>6, ReadPreserves
<1>8. ASSUME NEW r \in Requests, NEW arrived \in SUBSET Parts, SaveReceipt(r, arrived)
      PROVE  IInv'
  <2> DEFINE row == [req[r].row EXCEPT !.status = "Received", !.receivedAt = TRUE]
             line == [p \in Parts |-> [items[req[r].ship][p] EXCEPT !.received =
                                        IF p \in arrived THEN "yes" ELSE "no"]]
  <2>1. /\ req[r].ship \in Shipments
        /\ req[r].row \in PartShipment
        /\ req[r].row.status = "Sent"
        /\ Consistent(req[r].row)
    BY <1>8 DEF SaveReceipt, At, RowOperations, Snapshots, TypeOK, Request, Source
  <2>2. row \in PartShipment /\ Consistent(row)
    BY <2>1 DEF PartShipment, Statuses, Consistent
  <2>3. shipments' \in [Shipments -> PartShipment] /\ MoneyTrail'
    BY <1>8, <2>1, <2>2, SavePreserves DEF SaveReceipt
  <2>4. line \in [Parts -> PartShipmentItem]
    BY <2>1 DEF TypeOK, PartShipmentItem
  <2>5. items' \in [Shipments -> [Parts -> PartShipmentItem]]
    <3> HIDE DEF line
    <3>1. UpdateLines(req[r].ship, LinesOf(req[r].items), line)
      BY <1>8 DEF SaveReceipt, line
    <3> QED BY <3>1, <2>1, <2>4, UpdateLinesType
  <2>6. req' \in [Requests -> Request] /\ Snapshots'
    BY <1>8, FinishPreserves DEF SaveReceipt, TypeOK
  <2> QED BY <1>8, <2>3, <2>5, <2>6 DEF SaveReceipt, TypeOK
<1>9. ASSUME NEW r \in Requests, NEW price \in [Parts -> Prices], SaveInvoice(r, price)
      PROVE  IInv'
  <2> DEFINE row == [req[r].row EXCEPT !.status = "Invoiced", !.invoicedAt = TRUE,
                                       !.total = InvoiceTotal(price)]
             line == [p \in Parts |->
                        [items[req[r].ship][p] EXCEPT !.price = price[p]]]
  <2>1. /\ req[r].ship \in Shipments
        /\ req[r].row \in PartShipment
        /\ req[r].row.status = "Received"
        /\ Consistent(req[r].row)
    BY <1>9 DEF SaveInvoice, At, RowOperations, Snapshots, TypeOK, Request, Source
  <2>2. InvoiceTotal(price) \in Totals /\ InvoiceTotal(price) > 0
    BY <1>9 DEF SaveInvoice, Totals
  <2>3. row \in PartShipment /\ Consistent(row)
    BY <2>1, <2>2 DEF PartShipment, Statuses, Consistent
  <2>4. shipments' \in [Shipments -> PartShipment] /\ MoneyTrail'
    BY <1>9, <2>1, <2>3, SavePreserves DEF SaveInvoice
  <2>5. line \in [Parts -> PartShipmentItem]
    BY <2>1 DEF TypeOK, PartShipmentItem
  <2>6. items' \in [Shipments -> [Parts -> PartShipmentItem]]
    <3> HIDE DEF line
    <3>1. UpdateLines(req[r].ship, Arrived(req[r].items), line)
      BY <1>9 DEF SaveInvoice, line
    <3> QED BY <3>1, <2>1, <2>5, UpdateLinesType
  <2>7. req' \in [Requests -> Request] /\ Snapshots'
    BY <1>9, FinishPreserves DEF SaveInvoice, TypeOK
  <2> QED BY <1>9, <2>4, <2>6, <2>7 DEF SaveInvoice, TypeOK
<1>10. ASSUME NEW r \in Requests, SavePayment(r)
       PROVE  IInv'
  <2> DEFINE row == [req[r].row EXCEPT !.status = "Paid", !.paidAt = TRUE]
  <2>1. /\ req[r].ship \in Shipments
        /\ req[r].row \in PartShipment
        /\ req[r].row.status = "Invoiced"
        /\ Consistent(req[r].row)
    BY <1>10 DEF SavePayment, At, RowOperations, Snapshots, TypeOK, Request, Source
  <2>2. row \in PartShipment /\ Consistent(row)
    BY <2>1 DEF PartShipment, Statuses, Consistent
  <2>3. shipments' \in [Shipments -> PartShipment] /\ MoneyTrail'
    BY <1>10, <2>1, <2>2, SavePreserves DEF SavePayment
  <2>4. payouts' \in [Shipments -> 0..2]
    <3> DEFINE n == IF payouts[req[r].ship] = 0 THEN 1 ELSE 2
    <3>1. n \in 0..2
      OBVIOUS
    <3>2. payouts' = [payouts EXCEPT ![req[r].ship] = n]
      BY <1>10 DEF SavePayment
    <3> HIDE DEF n
    <3> QED BY <3>1, <3>2 DEF TypeOK
  <2>5. req' \in [Requests -> Request] /\ Snapshots'
    BY <1>10, FinishPreserves DEF SavePayment, TypeOK
  <2> QED BY <1>10, <2>3, <2>4, <2>5 DEF SavePayment, TypeOK
<1>11. ASSUME NEW r \in Requests, SaveWithdrawal(r)
       PROVE  IInv'
  <2> DEFINE row == [req[r].row EXCEPT !.status = Target(req[r].op)]
  <2>1. /\ req[r].ship \in Shipments
        /\ req[r].row \in PartShipment
        /\ req[r].row.status = "Sent"
        /\ Consistent(req[r].row)
    BY <1>11 DEF SaveWithdrawal, At, RowOperations, Snapshots, TypeOK, Request, Source
  <2>2. Target(req[r].op) \in {"Cancelled", "Rejected"}
    BY <1>11 DEF SaveWithdrawal, At, Target
  <2>3. row \in PartShipment /\ Consistent(row)
    BY <2>1, <2>2 DEF PartShipment, Statuses, Consistent
  <2>4. shipments' \in [Shipments -> PartShipment] /\ MoneyTrail'
    BY <1>11, <2>1, <2>3, SavePreserves DEF SaveWithdrawal
  <2>5. req' \in [Requests -> Request] /\ Snapshots'
    BY <1>11, FinishPreserves DEF SaveWithdrawal, TypeOK
  <2> QED BY <1>11, <2>4, <2>5 DEF SaveWithdrawal, TypeOK
<1>12. ASSUME NEW r \in Requests, NEW s \in Shipments,
              DeleteShipment(r, s) \/ RestoreShipment(r, s)
       PROVE  IInv'
  <2>1. ASSUME NEW b \in BOOLEAN
        PROVE  /\ [shipments[s] EXCEPT !.deleted = b] \in PartShipment
               /\ Consistent([shipments[s] EXCEPT !.deleted = b])
    <3>1. shipments[s] \in PartShipment /\ Consistent(shipments[s])
      BY DEF TypeOK, MoneyTrail
    <3> QED BY <3>1 DEF PartShipment, Consistent
  <2>2. shipments' \in [Shipments -> PartShipment] /\ MoneyTrail'
    BY <1>12, <2>1, SavePreserves DEF DeleteShipment, RestoreShipment
  <2> QED BY <1>12, <2>2
          DEF DeleteShipment, RestoreShipment, TypeOK, Snapshots, Consistent
<1>13. ASSUME NEW r \in Requests, NEW op \in RepairOperations, NEW x \in Repairs,
              FindRepair(r, op, x)
       PROVE  IInv'
  <2> DEFINE q == [Idle EXCEPT !.op = op, !.at = "found", !.repair = x]
  <2>1. q \in Request /\ q.op \notin RowOperations
    BY Defaults DEF Request, RowOperations, RepairOperations, Operations
  <2> QED BY <1>13, <2>1, ReadPreserves DEF FindRepair
<1>14. ASSUME NEW r \in Requests, SaveRepair(r)
       PROVE  IInv'
  <2>1. Verdict(req[r].op) \in {"Approved", "Rejected", "Cancelled"}
    BY <1>14 DEF SaveRepair, At, RepairOperations, Verdict
  <2>2. repairs' \in [Repairs -> RepairRow]
    BY <1>14, <2>1 DEF SaveRepair, TypeOK, RepairRow
  <2>3. req' \in [Requests -> Request] /\ Snapshots'
    BY <1>14, FinishPreserves DEF SaveRepair, TypeOK
  <2> QED BY <1>14, <2>2, <2>3 DEF SaveRepair, TypeOK, MoneyTrail, Consistent
<1>15. ASSUME NEW r \in Requests, NEW op \in DeleteOperations, NEW x \in Repairs,
              CheckShippedParts(r, op, x)
       PROVE  IInv'
  <2> DEFINE q == [Idle EXCEPT !.op = op, !.at = "found",
                               !.repair = x, !.lines = ShippedLines(x)]
  <2>1. q \in Request /\ q.op \notin RowOperations
    BY Defaults
    DEF Request, RowOperations, DeleteOperations, Operations, ShippedLines
  <2> HIDE DEF q
  <2>2. req' = [req EXCEPT ![r] = q]
    BY <1>15 DEF CheckShippedParts, q
  <2> QED BY <1>15, <2>1, <2>2, ReadPreserves DEF CheckShippedParts
<1>16. ASSUME NEW r \in Requests, DeleteRepair(r)
       PROVE  IInv'
  <2>1. items' \in [Shipments -> [Parts -> PartShipmentItem]]
    BY <1>16, ConstantsAssumption DEF DeleteRepair, TypeOK, PartShipmentItem, NoItem
  <2>2. repairs' \in [Repairs -> RepairRow]
    BY <1>16 DEF DeleteRepair, TypeOK, RepairRow
  <2>3. req' \in [Requests -> Request] /\ Snapshots'
    BY <1>16, FinishPreserves DEF DeleteRepair, TypeOK
  <2> QED BY <1>16, <2>1, <2>2, <2>3 DEF DeleteRepair, TypeOK, MoneyTrail, Consistent
<1>17. ASSUME NEW r \in Requests, NEW x \in Repairs, RestoreRepair(r, x)
       PROVE  IInv'
  BY <1>17 DEF RestoreRepair, TypeOK, RepairRow, MoneyTrail, Snapshots, Consistent
<1>18. ASSUME NEW r \in Requests, Abandon(r)
       PROVE  IInv'
  BY <1>18, FinishPreserves DEF Abandon, TypeOK, MoneyTrail, Consistent
<1> QED
  BY <1>1, <1>2, <1>3, <1>4, <1>5, <1>6, <1>7, <1>8, <1>9, <1>10, <1>11, <1>12,
     <1>13, <1>14, <1>15, <1>16, <1>17, <1>18
  DEF Next, ShipmentStep, RepairStep

\* Every variable keeps its type, snapshots in flight included, for any
\* constants (all handlers of PartShipments).
THEOREM TypeCorrect == Spec => []TypeOK
<1>1. IInv => TypeOK
  BY DEF IInv
<1> QED BY <1>1, InvInit, InvNext, PTL DEF Spec

\* No interleaving of any number of requests leaves a parcel paid without an
\* invoice, invoiced without a receipt or with an amount nobody invoiced.
THEOREM MoneyTrailHolds == Spec => []MoneyTrail
<1>1. IInv => MoneyTrail
  BY DEF IInv
<1> QED BY <1>1, InvInit, InvNext, PTL DEF Spec

-----------------------------------------------------------------------------
(* A part is in one live parcel: parcels filed by any number of technicians *)
(* at once, while one desk at a time handles them.                          *)

\* A request does what its slot serves, and an idle slot does nothing.
Served ==
    \A r \in Requests : /\ req[r].op \in Serves[r] \union {"none"}
                        /\ req[r].at = "idle" => req[r].op = "none"

\* With one desk, what it read is still what the database has.
Fresh ==
    \A r \in Requests :
        req[r].op \in RowOperations => req[r].row = shipments[req[r].ship]

\* The lines of a parcel that was not received are undecided.
Undecided ==
    \A s \in Shipments, p \in Parts :
        shipments[s].status = "Sent" => items[s][p].received \in {"none", "unknown"}

\* No two requests hold the lock of one part.
Disjoint ==
    \A r, z \in Requests : r # z => req[r].parts \intersect req[z].parts = {}

\* What VerifyNotHeld saw stays true while the locks are held.
FreeParts ==
    \A r \in Requests : req[r].at = "free" =>
        \A p \in req[r].parts, s \in Shipments : ~Holds(s, p)

HInv == IInv /\ Served /\ Fresh /\ Undecided /\ Disjoint /\ FreeParts /\ HeldOnce

\* No parcel holds a part it did not hold before.
Shrinks == \A s \in Shipments, p \in Parts : Holds(s, p)' => Holds(s, p)

\* The new record q of request r keeps the promises of HInv.
InOrder(r, q) ==
    /\ q.op \in Serves[r] \union {"none"}
    /\ q.at = "idle" => q.op = "none"
    /\ q.op \in RowOperations => q.row = shipments'[q.ship]
    /\ \A z \in Requests \ {r} : q.parts \intersect req[z].parts = {}
    /\ q.at = "free" => \A p \in q.parts, s \in Shipments : ~Holds(s, p)'

\* A step that writes neither table lets nothing grow.
LEMMA UnchangedShrinks ==
    UNCHANGED <<shipments, items>> => Shrinks
  BY DEF Shrinks, Holds, Live

\* Every step that takes no part into a parcel.
LEMMA StepKeepsHInv ==
    ASSUME HInv, IInv', Undecided', Shrinks,
           NEW r \in Requests, NEW q, req' = [req EXCEPT ![r] = q], InOrder(r, q),
           \A z \in Requests \ {r} : req[z].op \in RowOperations =>
               shipments'[req[z].ship] = shipments[req[z].ship]
    PROVE  HInv'
<1>1. req'[r] = q /\ \A z \in Requests \ {r} : req'[z] = req[z]
  BY DEF HInv, IInv, TypeOK
<1>2. Served'
  BY <1>1 DEF HInv, Served, InOrder
<1>3. Fresh'
  BY <1>1 DEF HInv, Fresh, InOrder
<1>4. Disjoint'
  <2> SUFFICES ASSUME NEW y \in Requests, NEW z \in Requests, y # z
               PROVE  req'[y].parts \intersect req'[z].parts = {}
    BY DEF Disjoint
  <2>1. CASE y = r
    BY <1>1, <2>1 DEF InOrder
  <2>2. CASE z = r
    BY <1>1, <2>2 DEF InOrder
  <2>3. CASE y # r /\ z # r
    BY <1>1, <2>3 DEF HInv, Disjoint
  <2> QED BY <2>1, <2>2, <2>3
<1>5. FreeParts'
  <2> SUFFICES ASSUME NEW z \in Requests, req'[z].at = "free",
                      NEW p \in req'[z].parts, NEW s \in Shipments
               PROVE  ~Holds(s, p)'
    BY DEF FreeParts
  <2>1. CASE z = r
    BY <1>1, <2>1 DEF InOrder
  <2>2. CASE z # r
    <3>1. ~Holds(s, p) /\ p \in Parts
      BY <1>1, <2>2 DEF HInv, FreeParts, IInv, TypeOK, Request
    <3> QED BY <3>1 DEF Shrinks
  <2> QED BY <2>1, <2>2
<1>6. HeldOnce'
  BY DEF HInv, HeldOnce, Shrinks
<1> QED BY <1>2, <1>3, <1>4, <1>5, <1>6 DEF HInv

\* A request that ends leaves the promises of an idle slot behind.
LEMMA IdleInOrder ==
    ASSUME NEW r \in Requests PROVE InOrder(r, Idle)
  BY Defaults DEF InOrder, Idle, RowOperations

\* While the desk handles parcels, no other slot does.
LEMMA DeskAlone ==
    ASSUME OneDesk, HInv, NEW r \in Requests, NEW o \in Serves[r],
           o \in RowOperations \union {"delete"}
    PROVE  \A z \in Requests \ {r} : req[z].op \notin RowOperations
<1>1. PICK d \in Requests : \A z \in Requests \ {d} :
           Serves[z] \intersect (RowOperations \union {"delete", "restore"}) = {}
  BY DEF OneDesk
<1>2. r = d
  BY <1>1
<1>3. "none" \notin RowOperations
  BY DEF RowOperations
<1> QED BY <1>1, <1>2, <1>3 DEF HInv, Served

\* A desk that saves over the row it read: a live row of status Source(op)
\* becomes another status, and lines only gain a decision.
LEMMA DeskSaveKeepsHInv ==
    ASSUME OneDesk, HInv, IInv', NEW r \in Requests,
           req[r].op \in RowOperations, Finish(r),
           NEW row, Save(req[r].ship, row),
           row.deleted = req[r].row.deleted, row.status # "Sent",
           \A s \in Shipments, p \in Parts :
               items'[s][p].received \in {"unknown", "yes"} =>
                   items[s][p].received \in {"unknown", "yes"},
           \A s \in Shipments, p \in Parts : s # req[r].ship =>
               items'[s][p].received = items[s][p].received
    PROVE  HInv'
<1> DEFINE ship == req[r].ship
<1>1. /\ ship \in Shipments
      /\ shipments[ship] = req[r].row
      /\ shipments[ship].status \in {"Sent", "Received", "Invoiced"}
  BY DEF HInv, IInv, Snapshots, Fresh, Source
<1>2. /\ shipments'[ship] = row
      /\ \A s \in Shipments \ {ship} : shipments'[s] = shipments[s]
  BY <1>1 DEF Save, HInv, IInv, TypeOK
<1> HIDE DEF ship
<1>3. Shrinks
  <2> SUFFICES ASSUME NEW s \in Shipments, NEW p \in Parts, Holds(s, p)'
               PROVE  Holds(s, p)
    BY DEF Shrinks
  <2>1. items[s][p].received \in {"unknown", "yes"}
    BY DEF Holds
  <2>2. CASE s = ship
    BY <1>1, <1>2, <2>1, <2>2 DEF Holds, Live, liveStatuses
  <2>3. CASE s # ship
    BY <1>2, <2>1, <2>3 DEF Holds, Live
  <2> QED BY <2>2, <2>3
<1>4. Undecided'
  BY <1>2 DEF HInv, Undecided, ship
<1>5. req[r].op \in Serves[r]
  BY DEF HInv, Served, RowOperations
<1>6. \A z \in Requests \ {r} : req[z].op \notin RowOperations
  BY <1>5, DeskAlone
<1>7. req' = [req EXCEPT ![r] = Idle]
  BY DEF Finish
<1> QED BY <1>3, <1>4, <1>6, <1>7, IdleInOrder, StepKeepsHInv

\* A step that leaves parcels and lines alone.
LEMMA QuietStepKeepsHInv ==
    ASSUME HInv, IInv', UNCHANGED <<shipments, items>>,
           NEW r \in Requests, NEW q, req' = [req EXCEPT ![r] = q], InOrder(r, q)
    PROVE  HInv'
<1>1. Undecided'
  BY DEF HInv, Undecided
<1> QED BY <1>1, UnchangedShrinks, StepKeepsHInv

\* The parts a sender inserts were verified free under its locks.
LEMMA InsertKeepsHInv ==
    ASSUME HInv, IInv', NEW r \in Requests, NEW s \in Shipments, InsertShipment(r, s)
    PROVE  HInv'
<1> DEFINE P == req[r].parts
<1>1. /\ req[r] \in Request /\ P \subseteq Parts
      /\ \A p \in P, z \in Shipments : ~Holds(z, p)
  BY DEF HInv, IInv, TypeOK, Request, FreeParts, InsertShipment, At
<1>2. /\ req'[r] = Idle
      /\ \A z \in Requests \ {r} : req'[z] = req[z]
  BY DEF InsertShipment, Finish, HInv, IInv, TypeOK
<1>3. /\ shipments[s].status = "None"
      /\ \A z \in Shipments \ {s} : shipments'[z] = shipments[z]
  BY DEF InsertShipment, Save, HInv, IInv, TypeOK
<1>4. /\ \A p \in Parts : items'[s][p].received = IF p \in P THEN "unknown" ELSE "none"
      /\ \A z \in Shipments \ {s} : items'[z] = items[z]
  BY DEF InsertShipment, NoItem, HInv, IInv, TypeOK
<1>5. \A z \in Shipments, p \in Parts : Holds(z, p)' => Holds(z, p) \/ (z = s /\ p \in P)
  BY <1>3, <1>4 DEF Holds, Live
<1>6. Served'
  BY <1>2 DEF HInv, Served, Idle
<1>7. Fresh'
  <2> SUFFICES ASSUME NEW z \in Requests, req'[z].op \in RowOperations
               PROVE  req'[z].row = shipments'[req'[z].ship]
    BY DEF Fresh
  <2>1. z # r
    BY <1>2 DEF Idle, RowOperations
  <2>2. req'[z] = req[z] /\ req[z].row = shipments[req[z].ship]
    BY <1>2, <2>1 DEF HInv, Fresh
  <2>3. req[z].ship \in Shipments /\ req[z].row.status # "None"
    BY <2>2 DEF HInv, IInv, Snapshots, Source
  <2> QED BY <1>3, <2>2, <2>3
<1>8. Undecided'
  BY <1>3, <1>4 DEF HInv, Undecided
<1>9. Disjoint'
  BY <1>2 DEF HInv, Disjoint, Idle
<1>10. FreeParts'
  <2> SUFFICES ASSUME NEW z \in Requests, req'[z].at = "free",
                      NEW p \in req'[z].parts, NEW y \in Shipments, Holds(y, p)'
               PROVE  FALSE
    BY DEF FreeParts
  <2>1. z # r
    BY <1>2 DEF Idle
  <2>2. p \in Parts /\ p \notin P /\ ~Holds(y, p)
    BY <1>2, <2>1 DEF HInv, FreeParts, Disjoint, IInv, TypeOK, Request
  <2> QED BY <1>5, <2>2
<1>11. HeldOnce'
  <2> SUFFICES ASSUME NEW y \in Shipments, NEW z \in Shipments, NEW p \in Parts,
                      Holds(y, p)', Holds(z, p)'
               PROVE  y = z
    BY DEF HeldOnce
  <2> QED BY <1>1, <1>5 DEF HInv, HeldOnce
<1> QED BY <1>6, <1>7, <1>8, <1>9, <1>10, <1>11 DEF HInv

\* No part is in a parcel at the start.
THEOREM HInvInit == Init => HInv
<1> SUFFICES ASSUME Init PROVE HInv
  OBVIOUS
<1>1. IInv
  BY InvInit
<1>2. \A r \in Requests : req[r] = Idle
  BY DEF Init
<1>3. \A s \in Shipments : shipments[s].status = "None"
  BY DEF Init, NoRow
<1> QED
  BY <1>1, <1>2, <1>3
  DEF HInv, Served, Fresh, Undecided, Disjoint, FreeParts, HeldOnce, Holds, Live,
      Idle, RowOperations

\* With one desk every statement keeps what the parcels hold apart.
THEOREM HInvNext == OneDesk /\ HInv /\ [Next]_vars => HInv'
<1> SUFFICES ASSUME OneDesk, HInv, [Next]_vars PROVE HInv'
  OBVIOUS
<1>0. IInv /\ IInv'
  BY InvNext DEF HInv
<1>1. CASE UNCHANGED vars
  BY <1>0, <1>1
  DEF vars, HInv, Served, Fresh, Undecided, Disjoint, FreeParts, HeldOnce, Holds, Live
<1>2. ASSUME NEW r \in Requests, NEW t \in Techs, NEW P \in SUBSET Parts, LockParts(r, t, P)
      PROVE  HInv'
  <2> DEFINE q == [Idle EXCEPT !.op = "create", !.at = "locked",
                               !.technician = t, !.parts = P]
  <2>1. q.op = "create" /\ q.at = "locked" /\ q.parts = P
    BY DEF Idle
  <2>2. "create" \in Serves[r] /\ P \intersect LockedParts = {}
    BY <1>2 DEF LockParts, Starts
  <2>3. req' = [req EXCEPT ![r] = q] /\ UNCHANGED <<shipments, items>>
    BY <1>2 DEF LockParts
  <2> HIDE DEF q
  <2>4. InOrder(r, q)
    BY <2>1, <2>2 DEF InOrder, LockedParts, RowOperations
  <2> QED BY <1>0, <2>3, <2>4, QuietStepKeepsHInv
<1>3. ASSUME NEW r \in Requests, VerifyOwnStandingRepairs(r) \/ VerifyNotHeld(r)
      PROVE  HInv'
  <2> DEFINE point == IF VerifyNotHeld(r) THEN "free" ELSE "verified"
             q == [req[r] EXCEPT !.at = point]
  <2>1. req[r] \in Request /\ req[r].op = "create"
    BY <1>0, <1>3 DEF VerifyOwnStandingRepairs, VerifyNotHeld, At, IInv, TypeOK
  <2>2. req' = [req EXCEPT ![r].at = point] /\ UNCHANGED <<shipments, items>>
    BY <1>3 DEF VerifyOwnStandingRepairs, VerifyNotHeld, Advance, At
  <2>3. q.op = "create" /\ q.parts = req[r].parts /\ q.at = point
    BY <2>1 DEF Request
  <2>4. point = "free" => \A p \in req[r].parts, s \in Shipments : ~Holds(s, p)'
    BY <2>2 DEF VerifyNotHeld, Held, Holds, Live
  <2>5. req' = [req EXCEPT ![r] = q]
    BY <2>2
  <2>6. point # "idle"
    OBVIOUS
  <2> HIDE DEF q, point
  <2>7. InOrder(r, q)
    BY <2>1, <2>3, <2>4, <2>6 DEF InOrder, RowOperations, HInv, Served, Disjoint
  <2> QED BY <1>0, <2>2, <2>5, <2>7, QuietStepKeepsHInv
<1>4. ASSUME NEW r \in Requests, NEW s \in Shipments, InsertShipment(r, s)
      PROVE  HInv'
  BY <1>0, <1>4, InsertKeepsHInv
<1>5. ASSUME NEW r \in Requests, NEW op \in RowOperations, NEW s \in Shipments,
             FindShipment(r, op, s)
      PROVE  HInv'
  <2> DEFINE q == [Idle EXCEPT !.op = op, !.at = "found",
                               !.ship = s, !.row = shipments[s]]
  <2>1. q.op = op /\ q.at = "found" /\ q.parts = {} /\ q.ship = s /\ q.row = shipments[s]
    BY DEF Idle
  <2>2. /\ op \in Serves[r] /\ req' = [req EXCEPT ![r] = q]
        /\ UNCHANGED <<shipments, items>>
    BY <1>5 DEF FindShipment, Starts
  <2> HIDE DEF q
  <2>3. InOrder(r, q)
    BY <2>1, <2>2 DEF InOrder
  <2> QED BY <1>0, <2>2, <2>3, QuietStepKeepsHInv
<1>6. ASSUME NEW r \in Requests, LoadItems(r)
      PROVE  HInv'
  <2> DEFINE q == [req[r] EXCEPT !.at = "loaded", !.items = items[req[r].ship]]
  <2>1. req[r] \in Request /\ req[r].op \in RowOperations
    BY <1>0, <1>6 DEF LoadItems, At, RowOperations, IInv, TypeOK
  <2>2. /\ q.op = req[r].op /\ q.at = "loaded" /\ q.parts = req[r].parts
        /\ q.ship = req[r].ship /\ q.row = req[r].row
    BY <2>1 DEF Request
  <2>3. req' = [req EXCEPT ![r] = q] /\ UNCHANGED <<shipments, items>>
    BY <1>6, <2>1 DEF LoadItems, Request
  <2> HIDE DEF q
  <2>4. InOrder(r, q)
    BY <2>1, <2>2, <2>3 DEF InOrder, HInv, Served, Fresh, Disjoint
  <2> QED BY <1>0, <2>3, <2>4, QuietStepKeepsHInv
<1>7. ASSUME NEW r \in Requests, NEW arrived \in SUBSET Parts, SaveReceipt(r, arrived)
      PROVE  HInv'
  <2> DEFINE row == [req[r].row EXCEPT !.status = "Received", !.receivedAt = TRUE]
  <2>1. /\ req[r].op = "receive" /\ req[r].op \in RowOperations
        /\ req[r].ship \in Shipments /\ req[r].row \in PartShipment
        /\ shipments[req[r].ship].status = "Sent"
    BY <1>0, <1>7
    DEF SaveReceipt, At, RowOperations, HInv, IInv, Snapshots, Fresh, Source,
        TypeOK, Request
  <2>2. row.deleted = req[r].row.deleted /\ row.status # "Sent"
    BY <2>1 DEF PartShipment
  <2>3. Finish(r) /\ Save(req[r].ship, row)
    BY <1>7 DEF SaveReceipt
  <2>4. /\ \A p \in Parts : items'[req[r].ship][p].received \in {"unknown", "yes"} =>
              items[req[r].ship][p].received \in {"unknown", "yes"}
        /\ \A s \in Shipments \ {req[r].ship} : items'[s] = items[s]
    BY <1>0, <1>7, <2>1 DEF SaveReceipt, UpdateLines, LinesOf, Undecided, HInv,
       IInv, TypeOK, PartShipmentItem
  <2> HIDE DEF row
  <2> QED BY <1>0, <2>1, <2>2, <2>3, <2>4, DeskSaveKeepsHInv
<1>8. ASSUME NEW r \in Requests, NEW price \in [Parts -> Prices], SaveInvoice(r, price)
      PROVE  HInv'
  <2> DEFINE row == [req[r].row EXCEPT !.status = "Invoiced", !.invoicedAt = TRUE,
                                       !.total = InvoiceTotal(price)]
  <2>1. /\ req[r].op \in RowOperations
        /\ req[r].ship \in Shipments /\ req[r].row \in PartShipment
    BY <1>0, <1>8
    DEF SaveInvoice, At, RowOperations, IInv, Snapshots, TypeOK, Request
  <2>2. row.deleted = req[r].row.deleted /\ row.status # "Sent"
    BY <2>1 DEF PartShipment
  <2>3. Finish(r) /\ Save(req[r].ship, row)
    BY <1>8 DEF SaveInvoice
  <2>4. \A s \in Shipments, p \in Parts : items'[s][p].received = items[s][p].received
    BY <1>0, <1>8, <2>1 DEF SaveInvoice, UpdateLines, IInv, TypeOK, PartShipmentItem
  <2> HIDE DEF row
  <2> QED BY <1>0, <2>1, <2>2, <2>3, <2>4, DeskSaveKeepsHInv
<1>9. ASSUME NEW r \in Requests, SavePayment(r)
      PROVE  HInv'
  <2> DEFINE row == [req[r].row EXCEPT !.status = "Paid", !.paidAt = TRUE]
  <2>1. req[r].op \in RowOperations /\ req[r].row \in PartShipment
    BY <1>0, <1>9 DEF SavePayment, At, RowOperations, IInv, TypeOK, Request
  <2>2. row.deleted = req[r].row.deleted /\ row.status # "Sent"
    BY <2>1 DEF PartShipment
  <2>3. Finish(r) /\ Save(req[r].ship, row) /\ UNCHANGED items
    BY <1>9 DEF SavePayment
  <2> HIDE DEF row
  <2> QED BY <1>0, <2>1, <2>2, <2>3, DeskSaveKeepsHInv
<1>10. ASSUME NEW r \in Requests, SaveWithdrawal(r)
       PROVE  HInv'
  <2> DEFINE row == [req[r].row EXCEPT !.status = Target(req[r].op)]
  <2>1. req[r].op \in {"cancel", "reject"} /\ req[r].row \in PartShipment
    BY <1>0, <1>10 DEF SaveWithdrawal, At, IInv, TypeOK, Request
  <2>2. Target(req[r].op) # "Sent"
    BY <2>1 DEF Target
  <2>3. row.deleted = req[r].row.deleted /\ row.status # "Sent"
    BY <2>1, <2>2 DEF PartShipment
  <2>4. Finish(r) /\ Save(req[r].ship, row) /\ UNCHANGED items
    BY <1>10 DEF SaveWithdrawal
  <2>5. req[r].op \in RowOperations
    BY <2>1 DEF RowOperations
  <2> HIDE DEF row
  <2> QED BY <1>0, <2>3, <2>4, <2>5, DeskSaveKeepsHInv
<1>11. ASSUME NEW r \in Requests, NEW s \in Shipments, DeleteShipment(r, s)
       PROVE  HInv'
  <2>1. \A z \in Requests : req[z].op \notin RowOperations
    <3>1. "delete" \in Serves[r] /\ req[r].op = "none"
      BY <1>11 DEF DeleteShipment, Starts, HInv, Served
    <3>2. \A z \in Requests \ {r} : req[z].op \notin RowOperations
      BY <3>1, DeskAlone
    <3> QED BY <3>1, <3>2 DEF RowOperations
  <2>2. /\ shipments'[s] = [shipments[s] EXCEPT !.deleted = TRUE]
        /\ \A z \in Shipments \ {s} : shipments'[z] = shipments[z]
        /\ shipments[s] \in PartShipment
        /\ UNCHANGED <<items, req>>
    BY <1>0, <1>11 DEF DeleteShipment, Save, IInv, TypeOK
  <2>3. shipments'[s].deleted /\ shipments'[s].status = shipments[s].status
    BY <2>2 DEF PartShipment
  <2>4. Shrinks
    BY <2>2, <2>3 DEF Shrinks, Holds, Live
  <2>5. Undecided'
    <3>1. \A z \in Shipments : shipments'[z].status = shipments[z].status
      BY <2>2, <2>3
    <3> QED BY <3>1, <2>2 DEF HInv, Undecided
  <2>6. FreeParts'
    <3> SUFFICES ASSUME NEW z \in Requests, req[z].at = "free",
                        NEW p \in req[z].parts, NEW y \in Shipments
                 PROVE  ~Holds(y, p)'
      BY <2>2 DEF FreeParts
    <3>1. req[z] \in Request
      BY <1>0 DEF HInv, IInv, TypeOK
    <3>2. p \in Parts
      BY <3>1 DEF Request
    <3>3. ~Holds(y, p)
      BY <1>0 DEF HInv, FreeParts
    <3> QED BY <3>2, <3>3, <2>4 DEF Shrinks
  <2>7. HeldOnce'
    BY <2>4 DEF HInv, HeldOnce, Shrinks
  <2>8. Served' /\ Fresh' /\ Disjoint'
    BY <2>1, <2>2 DEF HInv, Served, Fresh, Disjoint
  <2> QED BY <1>0, <2>5, <2>6, <2>7, <2>8 DEF HInv
<1>12. ASSUME NEW r \in Requests, NEW s \in Shipments, RestoreShipment(r, s)
       PROVE  HInv'
  BY <1>12 DEF RestoreShipment, Starts, OneDesk
<1>13. ASSUME NEW r \in Requests, NEW op \in RepairOperations, NEW x \in Repairs,
              FindRepair(r, op, x)
       PROVE  HInv'
  <2> DEFINE q == [Idle EXCEPT !.op = op, !.at = "found", !.repair = x]
  <2>1. q.op = op /\ q.at = "found" /\ q.parts = {}
    BY DEF Idle
  <2>2. /\ op \in Serves[r] /\ req' = [req EXCEPT ![r] = q]
        /\ UNCHANGED <<shipments, items>>
    BY <1>13 DEF FindRepair, Starts
  <2> HIDE DEF q
  <2>3. InOrder(r, q)
    BY <2>1, <2>2 DEF InOrder, RowOperations, RepairOperations
  <2> QED BY <1>0, <2>2, <2>3, QuietStepKeepsHInv
<1>14. ASSUME NEW r \in Requests, NEW op \in DeleteOperations, NEW x \in Repairs,
              CheckShippedParts(r, op, x)
       PROVE  HInv'
  <2> DEFINE q == [Idle EXCEPT !.op = op, !.at = "found",
                               !.repair = x, !.lines = ShippedLines(x)]
  <2>1. q.op = op /\ q.at = "found" /\ q.parts = {}
    BY DEF Idle
  <2>2. /\ op \in Serves[r] /\ req' = [req EXCEPT ![r] = q]
        /\ UNCHANGED <<shipments, items>>
    BY <1>14 DEF CheckShippedParts, Starts
  <2> HIDE DEF q
  <2>3. InOrder(r, q)
    BY <2>1, <2>2 DEF InOrder, RowOperations, DeleteOperations
  <2> QED BY <1>0, <2>2, <2>3, QuietStepKeepsHInv
<1>15. ASSUME NEW r \in Requests, SaveRepair(r) \/ Abandon(r)
       PROVE  HInv'
  <2>1. req' = [req EXCEPT ![r] = Idle] /\ UNCHANGED <<shipments, items>>
    BY <1>15 DEF SaveRepair, Abandon, Finish
  <2> QED BY <1>0, <2>1, IdleInOrder, QuietStepKeepsHInv
<1>16. ASSUME NEW r \in Requests, DeleteRepair(r)
       PROVE  HInv'
  <2>1. req' = [req EXCEPT ![r] = Idle] /\ UNCHANGED shipments
    BY <1>16 DEF DeleteRepair, Finish
  <2>2. \A s \in Shipments, p \in Parts :
            items'[s][p].received \in {"none", items[s][p].received}
    BY <1>16 DEF DeleteRepair, NoItem
  <2>3. Shrinks
    BY <2>1, <2>2 DEF Shrinks, Holds, Live
  <2>4. Undecided'
    BY <2>1, <2>2 DEF HInv, Undecided
  <2> QED BY <1>0, <2>1, <2>3, <2>4, IdleInOrder, StepKeepsHInv
<1>17. ASSUME NEW r \in Requests, NEW x \in Repairs, RestoreRepair(r, x)
       PROVE  HInv'
  BY <1>0, <1>17
  DEF RestoreRepair, HInv, Served, Fresh, Undecided, Disjoint, FreeParts, HeldOnce,
      Holds, Live
<1> QED
  BY <1>1, <1>2, <1>3, <1>4, <1>5, <1>6, <1>7, <1>8, <1>9, <1>10, <1>11, <1>12,
     <1>13, <1>14, <1>15, <1>16, <1>17
  DEF Next, ShipmentStep, RepairStep

\* "A part can only be in one live shipment", for any number of parcels being
\* filed at once, when parcels are handled one at a time and none is restored:
\* the row locks of CreateByTechnician are enough.
THEOREM HeldOnceHolds == ASSUME OneDesk PROVE Spec => []HeldOnce
<1>1. HInv => HeldOnce
  BY DEF HInv
<1>2. HInv /\ [Next]_vars => HInv'
  BY HInvNext
<1> QED BY <1>1, <1>2, HInvInit, PTL DEF Spec

-----------------------------------------------------------------------------
(* Money moves forward and is paid once, under the same workload.          *)

\* One parcel takes one step of the path, and Pay is the step into Paid.
OneMove(s) ==
    /\ <<shipments[s].status, shipments'[s].status>> \in Path
    /\ \A z \in Shipments \ {s} : shipments'[z].status = shipments[z].status
    /\ payouts' = IF shipments'[s].status = "Paid"
                  THEN [payouts EXCEPT ![s] = IF @ = 0 THEN 1 ELSE 2] ELSE payouts

NoMove ==
    /\ \A s \in Shipments : shipments'[s].status = shipments[s].status
    /\ payouts' = payouts

\* The row the desk saves replaces the row it read.
LEMMA DeskSaveMoves ==
    ASSUME HInv, NEW r \in Requests, req[r].op \in RowOperations,
           NEW row, Save(req[r].ship, row), row.status = Target(req[r].op),
           payouts' = IF req[r].op = "pay"
                      THEN [payouts EXCEPT ![req[r].ship] = IF @ = 0 THEN 1 ELSE 2]
                      ELSE payouts
    PROVE  req[r].ship \in Shipments /\ OneMove(req[r].ship)
<1>1. /\ req[r].ship \in Shipments
      /\ shipments[req[r].ship].status = Source(req[r].op)
  BY DEF HInv, IInv, Snapshots, Fresh
<1>2. /\ shipments'[req[r].ship].status = Target(req[r].op)
      /\ \A z \in Shipments \ {req[r].ship} : shipments'[z] = shipments[z]
  BY <1>1 DEF Save, HInv, IInv, TypeOK
<1>3. Target(req[r].op) = "Paid" <=> req[r].op = "pay"
  BY DEF Target, RowOperations
<1>4. <<Source(req[r].op), Target(req[r].op)>> \in Path
  BY DEF Source, Target, RowOperations, Path
<1> QED BY <1>1, <1>2, <1>3, <1>4 DEF OneMove

\* A step moves no parcel, or one of them forward.
LEMMA StepMoves == HInv /\ [Next]_vars => NoMove \/ \E s \in Shipments : OneMove(s)
<1> SUFFICES ASSUME HInv, [Next]_vars PROVE NoMove \/ \E s \in Shipments : OneMove(s)
  OBVIOUS
<1>0. TypeOK
  BY DEF HInv, IInv
<1>1. CASE UNCHANGED <<shipments, payouts>>
  BY <1>1 DEF NoMove
<1>2. ASSUME NEW r \in Requests, NEW s \in Shipments, InsertShipment(r, s)
      PROVE  OneMove(s)
  <2>1. shipments'[s].status = "Sent" /\ shipments[s].status = "None"
    BY <1>0, <1>2 DEF InsertShipment, Save, NoRow, TypeOK
  <2>2. \A z \in Shipments \ {s} : shipments'[z] = shipments[z]
    BY <1>0, <1>2 DEF InsertShipment, Save, TypeOK
  <2> QED BY <1>2, <2>1, <2>2 DEF InsertShipment, OneMove, Path
<1>3. ASSUME NEW r \in Requests, NEW arrived \in SUBSET Parts, SaveReceipt(r, arrived)
      PROVE  \E s \in Shipments : OneMove(s)
  <2> DEFINE row == [req[r].row EXCEPT !.status = "Received", !.receivedAt = TRUE]
  <2>1. req[r].op = "receive" /\ req[r].row \in PartShipment
    BY <1>0, <1>3 DEF SaveReceipt, At, TypeOK, Request
  <2>2. row.status = "Received" /\ Save(req[r].ship, row) /\ payouts' = payouts
    BY <1>3, <2>1 DEF SaveReceipt, PartShipment
  <2>3. req[r].op \in RowOperations /\ Target(req[r].op) = "Received"
    BY <2>1 DEF RowOperations, Target
  <2> HIDE DEF row
  <2> QED BY <2>1, <2>2, <2>3, DeskSaveMoves
<1>4. ASSUME NEW r \in Requests, NEW price \in [Parts -> Prices], SaveInvoice(r, price)
      PROVE  \E s \in Shipments : OneMove(s)
  <2> DEFINE row == [req[r].row EXCEPT !.status = "Invoiced", !.invoicedAt = TRUE,
                                       !.total = InvoiceTotal(price)]
  <2>1. req[r].op = "invoice" /\ req[r].row \in PartShipment
    BY <1>0, <1>4 DEF SaveInvoice, At, TypeOK, Request
  <2>2. row.status = "Invoiced" /\ Save(req[r].ship, row) /\ payouts' = payouts
    BY <1>4, <2>1 DEF SaveInvoice, PartShipment
  <2>3. req[r].op \in RowOperations /\ Target(req[r].op) = "Invoiced"
    BY <2>1 DEF RowOperations, Target
  <2> HIDE DEF row
  <2> QED BY <2>1, <2>2, <2>3, DeskSaveMoves
<1>5. ASSUME NEW r \in Requests, SavePayment(r)
      PROVE  \E s \in Shipments : OneMove(s)
  <2> DEFINE row == [req[r].row EXCEPT !.status = "Paid", !.paidAt = TRUE]
  <2>1. req[r].op = "pay" /\ req[r].row \in PartShipment
    BY <1>0, <1>5 DEF SavePayment, At, TypeOK, Request
  <2>2. row.status = "Paid" /\ Save(req[r].ship, row)
    BY <1>5, <2>1 DEF SavePayment, PartShipment
  <2>3. req[r].op \in RowOperations /\ Target(req[r].op) = "Paid"
    BY <2>1 DEF RowOperations, Target
  <2>4. payouts' = [payouts EXCEPT ![req[r].ship] = IF @ = 0 THEN 1 ELSE 2]
    BY <1>5 DEF SavePayment
  <2> HIDE DEF row
  <2> QED BY <2>1, <2>2, <2>3, <2>4, DeskSaveMoves
<1>6. ASSUME NEW r \in Requests, SaveWithdrawal(r)
      PROVE  \E s \in Shipments : OneMove(s)
  <2> DEFINE row == [req[r].row EXCEPT !.status = Target(req[r].op)]
  <2>1. req[r].op \in {"cancel", "reject"} /\ req[r].row \in PartShipment
    BY <1>0, <1>6 DEF SaveWithdrawal, At, TypeOK, Request
  <2>2. /\ row.status = Target(req[r].op)
        /\ Save(req[r].ship, row) /\ payouts' = payouts
    BY <1>6, <2>1 DEF SaveWithdrawal, PartShipment
  <2>3. req[r].op \in RowOperations /\ req[r].op # "pay"
    BY <2>1 DEF RowOperations
  <2> HIDE DEF row
  <2> QED BY <2>2, <2>3, DeskSaveMoves
<1>7. ASSUME NEW r \in Requests, NEW s \in Shipments,
             DeleteShipment(r, s) \/ RestoreShipment(r, s)
      PROVE  NoMove
  <2>1. PICK b \in BOOLEAN : Save(s, [shipments[s] EXCEPT !.deleted = b])
    BY <1>7 DEF DeleteShipment, RestoreShipment
  <2>2. \A z \in Shipments : shipments'[z].status = shipments[z].status
    BY <1>0, <2>1 DEF Save, TypeOK, PartShipment
  <2> QED BY <1>7, <2>2 DEF DeleteShipment, RestoreShipment, NoMove
<1> QED
  BY <1>1, <1>2, <1>3, <1>4, <1>5, <1>6, <1>7
  DEF Next, ShipmentStep, RepairStep, vars, LockParts, VerifyOwnStandingRepairs,
      VerifyNotHeld, FindShipment, LoadItems, FindRepair, SaveRepair,
      CheckShippedParts, DeleteRepair, RestoreRepair, Abandon

\* "Nothing leaves a terminal state, no skipping the invoice": statuses only
\* follow the path, when one desk at a time handles parcels.
THEOREM ForwardOnlyHolds == ASSUME OneDesk PROVE Spec => ForwardOnly
<1>1. HInv /\ [Next]_vars => [MovesForward]_vars
  <2> SUFFICES ASSUME HInv, [Next]_vars PROVE MovesForward
    OBVIOUS
  <2> QED BY StepMoves DEF NoMove, OneMove, MovesForward
<1>2. HInv /\ [Next]_vars => HInv'
  BY HInvNext
<1> QED BY <1>1, <1>2, HInvInit, PTL DEF Spec, ForwardOnly

\* A payment is on record exactly for the parcels that are Paid.
Settled ==
    \A s \in Shipments : payouts[s] = IF shipments[s].status = "Paid" THEN 1 ELSE 0

\* "No paying twice", under the same workload.
THEOREM PaidOnceHolds == ASSUME OneDesk PROVE Spec => []PaidOnce
<1>1. Init => Settled
  BY DEF Init, Settled, NoRow
<1>2. HInv /\ Settled /\ [Next]_vars => Settled'
  <2> SUFFICES ASSUME HInv, Settled, [Next]_vars PROVE Settled'
    OBVIOUS
  <2>1. CASE NoMove
    BY <2>1 DEF NoMove, Settled
  <2>2. ASSUME NEW s \in Shipments, OneMove(s) PROVE Settled'
    <3>1. shipments[s].status # "Paid" /\ payouts[s] = 0
      BY <2>2 DEF OneMove, Path, Settled
    <3> QED BY <2>2, <3>1 DEF OneMove, Settled, HInv, IInv, TypeOK
  <2> QED BY <2>1, <2>2, StepMoves
<1>3. HInv /\ [Next]_vars => HInv'
  BY HInvNext
<1>4. Settled => PaidOnce
  BY DEF Settled, PaidOnce
<1> QED BY <1>1, <1>2, <1>3, <1>4, HInvInit, PTL DEF Spec

-----------------------------------------------------------------------------
(* No line outlives its repair, when parcels are filed and repair reports  *)
(* deleted one after the other.  Any number of other requests may handle   *)
(* parcels, review reports and restore either.                             *)

FilingOperations == {"create"} \union DeleteOperations

OneFilesOrDeletes == \E d \in Requests : \A r \in Requests \ {d} :
                Serves[r] \intersect FilingOperations = {}

\* The repairs of a parcel whose repairs have been checked are still there; a
\* deletion has counted every line there is to take along.
InFiling(r, q) ==
    /\ q.op \in Serves[r] \union {"none"}
    /\ q.at = "idle" => q.op = "none"
    /\ q.op = "create" /\ q.at \in {"verified", "free"} =>
           \A p \in q.parts : ~repairs[RepairOf[p]].deleted
    /\ q.op \in DeleteOperations => ShippedLines(q.repair) \subseteq q.lines

InFilingAll == \A r \in Requests : InFiling(r, req[r])

FInv == IInv /\ NoOrphanLines /\ InFilingAll

\* An idle slot is filing nothing.
LEMMA IdleInFiling ==
    ASSUME NEW r \in Requests PROVE InFiling(r, Idle)
  BY DEF InFiling, Idle, DeleteOperations

\* While the one slot files or deletes reports, nobody else does.
LEMMA FilerAlone ==
    ASSUME OneFilesOrDeletes, FInv, NEW r \in Requests, NEW o \in Serves[r], o \in FilingOperations
    PROVE  \A z \in Requests \ {r} : req[z].op \notin FilingOperations
<1>1. PICK d \in Requests : \A z \in Requests \ {d} :
           Serves[z] \intersect FilingOperations = {}
  BY DEF OneFilesOrDeletes
<1>2. "none" \notin FilingOperations
  BY DEF FilingOperations, DeleteOperations
<1>3. r = d
  BY <1>1
<1> QED BY <1>1, <1>2, <1>3 DEF FInv, InFilingAll, InFiling

\* No step but the filing of a parcel adds a line, none but a deletion deletes.
Wanes ==
    /\ \A s \in Shipments, p \in Parts :
           items'[s][p].received # "none" => items[s][p].received # "none"
    /\ \A x \in Repairs : repairs'[x].deleted => repairs[x].deleted

\* Lines and deletions that only wane disturb neither a filer nor a deletion.
LEMMA WaningKeepsFInv ==
    ASSUME FInv, IInv', Wanes, NEW r \in Requests, NEW q,
           req' = [req EXCEPT ![r] = q], InFiling(r, q)
    PROVE  FInv'
<1>1. ASSUME NEW x, NEW l \in Shipments \X Parts,
             items'[l[1]][l[2]].received # "none", RepairOf[l[2]] = x
      PROVE  l \in ShippedLines(x)
  BY <1>1 DEF Wanes, ShippedLines
<1>2. NoOrphanLines'
  <2> SUFFICES ASSUME NEW x \in Repairs, repairs'[x].deleted,
                      NEW l \in Shipments \X Parts,
                      items'[l[1]][l[2]].received # "none", RepairOf[l[2]] = x
               PROVE  FALSE
    BY DEF NoOrphanLines, ShippedLines
  <2> QED BY <1>1 DEF FInv, NoOrphanLines, Wanes
<1>3. ASSUME NEW z \in Requests PROVE InFiling(z, req'[z])
  <2>1. CASE z = r
    BY <2>1 DEF FInv, IInv, TypeOK
  <2>2. CASE z # r
    BY <2>2 DEF FInv, IInv, TypeOK, InFilingAll
  <2> QED BY <2>1, <2>2
<1>4. InFilingAll'
  <2> SUFFICES ASSUME NEW z \in Requests
               PROVE  /\ req'[z].op \in Serves[z] \union {"none"}
                      /\ req'[z].at = "idle" => req'[z].op = "none"
                      /\ req'[z].op = "create" /\ req'[z].at \in {"verified", "free"} =>
                             \A p \in req'[z].parts : ~repairs'[RepairOf[p]].deleted
                      /\ req'[z].op \in DeleteOperations =>
                             \A l \in Shipments \X Parts :
                                 items'[l[1]][l[2]].received # "none"
                                     /\ RepairOf[l[2]] = req'[z].repair
                                 => l \in req'[z].lines
    BY DEF InFilingAll, InFiling, ShippedLines
  <2>1. req'[z].parts \subseteq Parts
    BY DEF IInv, TypeOK, Request
  <2>2. \A p \in req'[z].parts : RepairOf[p] \in Repairs
    BY <2>1, ConstantsAssumption
  <2>3. \A p \in req'[z].parts : repairs'[RepairOf[p]].deleted => repairs[RepairOf[p]].deleted
    BY <2>2 DEF Wanes
  <2> QED BY <1>1, <1>3, <2>3 DEF InFiling
<1> QED BY <1>2, <1>4 DEF FInv

\* The parcel's rows are inserted while nobody deletes a repair.
LEMMA InsertKeepsFInv ==
    ASSUME OneFilesOrDeletes, FInv, IInv', NEW r \in Requests, NEW s \in Shipments,
           InsertShipment(r, s)
    PROVE  FInv'
<1>1. /\ req[r].op = "create" /\ req[r].at = "free" /\ req[r].op \in Serves[r]
      /\ req[r].parts \subseteq Parts
  BY DEF InsertShipment, At, FInv, InFilingAll, InFiling, IInv, TypeOK, Request
<1>2. \A p \in req[r].parts : ~repairs[RepairOf[p]].deleted
  BY <1>1 DEF FInv, InFilingAll, InFiling
<1>3. \A z \in Requests \ {r} : req[z].op \notin FilingOperations
  BY <1>1, FilerAlone DEF FilingOperations
<1>4. /\ req'[r] = Idle /\ \A z \in Requests \ {r} : req'[z] = req[z]
      /\ repairs' = repairs
  BY DEF InsertShipment, Finish, FInv, IInv, TypeOK
<1>5. \A z \in Shipments, p \in Parts : items'[z][p].received # "none" =>
          p \in req[r].parts \/ items[z][p].received # "none"
  BY DEF InsertShipment, FInv, IInv, TypeOK, NoItem
<1>6. NoOrphanLines'
  <2> SUFFICES ASSUME NEW x \in Repairs, repairs[x].deleted,
                      NEW l \in Shipments \X Parts,
                      items'[l[1]][l[2]].received # "none", RepairOf[l[2]] = x
               PROVE  FALSE
    BY <1>4 DEF NoOrphanLines, ShippedLines
  <2>1. l[2] \notin req[r].parts
    BY <1>2
  <2>2. l \in ShippedLines(x)
    BY <1>5, <2>1 DEF ShippedLines
  <2> QED BY <2>2 DEF FInv, NoOrphanLines
<1>7. InFilingAll'
  <2> SUFFICES ASSUME NEW z \in Requests
               PROVE  /\ req'[z].op \in Serves[z] \union {"none"}
                      /\ req'[z].at = "idle" => req'[z].op = "none"
                      /\ req'[z].op \notin FilingOperations
    BY DEF InFilingAll, InFiling, FilingOperations
  <2>1. CASE z = r
    BY <1>4, <2>1 DEF Idle, FilingOperations, DeleteOperations
  <2>2. CASE z # r
    BY <1>3, <1>4, <2>2 DEF FInv, InFilingAll, InFiling
  <2> QED BY <2>1, <2>2
<1> QED BY <1>6, <1>7 DEF FInv

\* A deletion takes along what it counted, while nobody files a parcel.
LEMMA DeletionKeepsFInv ==
    ASSUME OneFilesOrDeletes, FInv, IInv', NEW r \in Requests, DeleteRepair(r)
    PROVE  FInv'
<1> DEFINE y == req[r].repair
<1>1. /\ req[r].op \in DeleteOperations /\ req[r].op \in Serves[r]
      /\ ShippedLines(y) \subseteq req[r].lines
  BY DEF DeleteRepair, At, FInv, InFilingAll, InFiling, DeleteOperations
<1>2. \A z \in Requests \ {r} : req[z].op \notin FilingOperations
  BY <1>1, FilerAlone DEF FilingOperations
<1>3. /\ req'[r] = Idle /\ \A z \in Requests \ {r} : req'[z] = req[z]
      /\ \A x \in Repairs : x # y => repairs'[x] = repairs[x]
  BY DEF DeleteRepair, Finish, FInv, IInv, TypeOK
<1>4. \A z \in Shipments, p \in Parts : items'[z][p].received # "none" =>
          items[z][p].received # "none" /\ <<z, p>> \notin req[r].lines
  BY DEF DeleteRepair, NoItem
<1> HIDE DEF y
<1>5. NoOrphanLines'
  <2> SUFFICES ASSUME NEW x \in Repairs, repairs'[x].deleted,
                      NEW l \in Shipments \X Parts,
                      items'[l[1]][l[2]].received # "none", RepairOf[l[2]] = x
               PROVE  FALSE
    BY DEF NoOrphanLines, ShippedLines
  <2>1. l \in ShippedLines(x) /\ l \notin req[r].lines
    BY <1>4 DEF ShippedLines
  <2>2. x # y /\ repairs[x].deleted
    BY <1>1, <1>3, <2>1
  <2> QED BY <2>1, <2>2 DEF FInv, NoOrphanLines
<1>6. InFilingAll'
  <2> SUFFICES ASSUME NEW z \in Requests
               PROVE  /\ req'[z].op \in Serves[z] \union {"none"}
                      /\ req'[z].at = "idle" => req'[z].op = "none"
                      /\ req'[z].op \notin FilingOperations
    BY DEF InFilingAll, InFiling, FilingOperations
  <2>1. CASE z = r
    BY <1>3, <2>1 DEF Idle, FilingOperations, DeleteOperations
  <2>2. CASE z # r
    BY <1>2, <1>3, <2>2 DEF FInv, InFilingAll, InFiling
  <2> QED BY <2>1, <2>2
<1> QED BY <1>5, <1>6 DEF FInv

\* What a request that only reads may write down.
LEMMA ReadKeepsFInv ==
    ASSUME FInv, IInv', NEW r \in Requests, NEW q,
           req' = [req EXCEPT ![r] = q], InFiling(r, q), UNCHANGED <<items, repairs>>
    PROVE  FInv'
  BY WaningKeepsFInv DEF Wanes

\* A request that ends is no longer filing.
LEMMA FinishKeepsFInv ==
    ASSUME FInv, IInv', NEW r \in Requests, Finish(r), Wanes
    PROVE  FInv'
  BY IdleInFiling, WaningKeepsFInv DEF Finish

\* Every statement keeps it.
THEOREM FInvNext == ASSUME OneFilesOrDeletes PROVE FInv /\ [Next]_vars => FInv'
<1> SUFFICES ASSUME OneFilesOrDeletes, FInv, [Next]_vars PROVE FInv'
  OBVIOUS
<1>0. IInv' /\ TypeOK
  BY InvNext DEF FInv, IInv
<1>1. CASE UNCHANGED vars
  <2>1. UNCHANGED <<items, repairs, req>>
    BY <1>1 DEF vars
  <2> QED BY <1>0, <2>1
          DEF FInv, NoOrphanLines, InFilingAll, InFiling, ShippedLines
<1>2. ASSUME NEW r \in Requests, NEW t \in Techs, NEW P \in SUBSET Parts, LockParts(r, t, P)
      PROVE  FInv'
  <2> DEFINE q == [Idle EXCEPT !.op = "create", !.at = "locked",
                               !.technician = t, !.parts = P]
  <2>1. InFiling(r, q)
    BY <1>2 DEF LockParts, Starts, InFiling, Idle, DeleteOperations
  <2>2. req' = [req EXCEPT ![r] = q] /\ UNCHANGED <<items, repairs>>
    BY <1>2 DEF LockParts
  <2> HIDE DEF q
  <2> QED BY <1>0, <2>1, <2>2, ReadKeepsFInv
<1>3. ASSUME NEW r \in Requests, VerifyOwnStandingRepairs(r)
      PROVE  FInv'
  <2> DEFINE q == [req[r] EXCEPT !.at = "verified"]
  <2>1. req[r] \in Request /\ InFiling(r, req[r]) /\ req[r].op = "create"
    BY <1>0, <1>3 DEF VerifyOwnStandingRepairs, At, TypeOK, FInv, InFilingAll
  <2>2. q.op = "create" /\ q.at = "verified" /\ q.parts = req[r].parts
    BY <2>1 DEF Request
  <2>3. \A p \in req[r].parts : ~repairs[RepairOf[p]].deleted
    BY <1>3 DEF VerifyOwnStandingRepairs, Standing
  <2>4. req' = [req EXCEPT ![r] = q] /\ UNCHANGED <<items, repairs>>
    BY <1>3 DEF VerifyOwnStandingRepairs, Advance
  <2> HIDE DEF q
  <2>5. InFiling(r, q)
    BY <2>1, <2>2, <2>3 DEF InFiling, DeleteOperations
  <2> QED BY <1>0, <2>4, <2>5, ReadKeepsFInv
<1>4. ASSUME NEW r \in Requests, VerifyNotHeld(r)
      PROVE  FInv'
  <2> DEFINE q == [req[r] EXCEPT !.at = "free"]
  <2>1. /\ req[r] \in Request /\ InFiling(r, req[r])
        /\ req[r].op = "create" /\ req[r].at = "verified"
    BY <1>0, <1>4 DEF VerifyNotHeld, At, TypeOK, FInv, InFilingAll
  <2>2. q.op = "create" /\ q.at = "free" /\ q.parts = req[r].parts
    BY <2>1 DEF Request
  <2>3. req' = [req EXCEPT ![r] = q] /\ UNCHANGED <<items, repairs>>
    BY <1>4 DEF VerifyNotHeld, Advance
  <2> HIDE DEF q
  <2>4. InFiling(r, q)
    BY <2>1, <2>2 DEF InFiling, DeleteOperations
  <2> QED BY <1>0, <2>3, <2>4, ReadKeepsFInv
<1>5. ASSUME NEW r \in Requests, NEW s \in Shipments, InsertShipment(r, s)
      PROVE  FInv'
  BY <1>0, <1>5, InsertKeepsFInv
<1>6. ASSUME NEW r \in Requests, NEW op \in RowOperations, NEW s \in Shipments,
             FindShipment(r, op, s)
      PROVE  FInv'
  <2> DEFINE q == [Idle EXCEPT !.op = op, !.at = "found",
                               !.ship = s, !.row = shipments[s]]
  <2>1. InFiling(r, q)
    BY <1>6 DEF FindShipment, Starts, InFiling, Idle, RowOperations, DeleteOperations
  <2>2. req' = [req EXCEPT ![r] = q] /\ UNCHANGED <<items, repairs>>
    BY <1>6 DEF FindShipment
  <2> HIDE DEF q
  <2> QED BY <1>0, <2>1, <2>2, ReadKeepsFInv
<1>7. ASSUME NEW r \in Requests, LoadItems(r)
      PROVE  FInv'
  <2> DEFINE q == [req[r] EXCEPT !.at = "loaded", !.items = items[req[r].ship]]
  <2>1. /\ req[r] \in Request /\ InFiling(r, req[r])
        /\ req[r].op \in {"receive", "invoice"}
    BY <1>0, <1>7 DEF LoadItems, At, TypeOK, FInv, InFilingAll
  <2>2. q.op = req[r].op /\ q.at = "loaded"
    BY <2>1 DEF Request
  <2>3. req' = [req EXCEPT ![r] = q] /\ UNCHANGED <<items, repairs>>
    BY <1>0, <1>7, <2>1 DEF LoadItems, TypeOK, Request
  <2> HIDE DEF q
  <2>4. InFiling(r, q)
    BY <2>1, <2>2 DEF InFiling, DeleteOperations
  <2> QED BY <1>0, <2>3, <2>4, ReadKeepsFInv
<1>8. ASSUME NEW r \in Requests, NEW arrived \in SUBSET Parts, SaveReceipt(r, arrived)
      PROVE  FInv'
  <2>1. Finish(r) /\ UNCHANGED repairs
    BY <1>8 DEF SaveReceipt
  <2>2. Wanes
    BY <1>0, <1>8, <2>1 DEF SaveReceipt, UpdateLines, LinesOf, TypeOK, Wanes
  <2> QED BY <1>0, <2>1, <2>2, FinishKeepsFInv
<1>9. ASSUME NEW r \in Requests, NEW price \in [Parts -> Prices], SaveInvoice(r, price)
      PROVE  FInv'
  <2>1. Finish(r) /\ UNCHANGED repairs
    BY <1>9 DEF SaveInvoice
  <2>2. Wanes
    BY <1>0, <1>9, <2>1 DEF SaveInvoice, UpdateLines, LinesOf, TypeOK, Wanes
  <2> QED BY <1>0, <2>1, <2>2, FinishKeepsFInv
<1>10. ASSUME NEW r \in Requests, SavePayment(r) \/ SaveWithdrawal(r) \/ Abandon(r)
       PROVE  FInv'
  <2>1. Finish(r) /\ UNCHANGED <<items, repairs>>
    BY <1>10 DEF SavePayment, SaveWithdrawal, Abandon
  <2> QED BY <1>0, <2>1, FinishKeepsFInv DEF Wanes
<1>11. ASSUME NEW r \in Requests, NEW s \in Shipments,
              DeleteShipment(r, s) \/ RestoreShipment(r, s)
       PROVE  FInv'
  <2>1. UNCHANGED <<items, repairs, req>>
    BY <1>11 DEF DeleteShipment, RestoreShipment
  <2> QED BY <1>0, <2>1
          DEF FInv, NoOrphanLines, InFilingAll, InFiling, ShippedLines
<1>12. ASSUME NEW r \in Requests, NEW op \in RepairOperations, NEW x \in Repairs,
              FindRepair(r, op, x)
       PROVE  FInv'
  <2> DEFINE q == [Idle EXCEPT !.op = op, !.at = "found", !.repair = x]
  <2>1. InFiling(r, q)
    BY <1>12 DEF FindRepair, Starts, InFiling, Idle, RepairOperations, DeleteOperations
  <2>2. req' = [req EXCEPT ![r] = q] /\ UNCHANGED <<items, repairs>>
    BY <1>12 DEF FindRepair
  <2> HIDE DEF q
  <2> QED BY <1>0, <2>1, <2>2, ReadKeepsFInv
<1>13. ASSUME NEW r \in Requests, SaveRepair(r)
       PROVE  FInv'
  <2>1. Finish(r) /\ UNCHANGED items
    BY <1>13 DEF SaveRepair
  <2>2. \A x \in Repairs : repairs'[x].deleted => repairs[x].deleted
    BY <1>0, <1>13 DEF SaveRepair, TypeOK
  <2> QED BY <1>0, <2>1, <2>2, FinishKeepsFInv DEF Wanes
<1>14. ASSUME NEW r \in Requests, NEW op \in DeleteOperations, NEW x \in Repairs,
              CheckShippedParts(r, op, x)
       PROVE  FInv'
  <2> DEFINE q == [Idle EXCEPT !.op = op, !.at = "found",
                               !.repair = x, !.lines = ShippedLines(x)]
  <2>1. q.op = op /\ q.at = "found" /\ q.repair = x /\ q.lines = ShippedLines(x)
    BY DEF Idle
  <2>2. /\ op \in Serves[r] /\ req' = [req EXCEPT ![r] = q]
        /\ UNCHANGED <<items, repairs>>
    BY <1>14 DEF CheckShippedParts, Starts
  <2> HIDE DEF q
  <2>3. InFiling(r, q)
    BY <2>1, <2>2 DEF InFiling, DeleteOperations
  <2> QED BY <1>0, <2>2, <2>3, ReadKeepsFInv
<1>15. ASSUME NEW r \in Requests, DeleteRepair(r)
       PROVE  FInv'
  BY <1>0, <1>15, DeletionKeepsFInv
<1>16. ASSUME NEW r \in Requests, NEW x \in Repairs, RestoreRepair(r, x)
       PROVE  FInv'
  <2>1. UNCHANGED <<items, req>> /\ repairs' = [repairs EXCEPT ![x].deleted = FALSE]
    BY <1>16 DEF RestoreRepair
  <2>2. req' = [req EXCEPT ![r] = req[r]] /\ InFiling(r, req[r])
    BY <1>0, <2>1 DEF TypeOK, FInv, InFilingAll
  <2>3. Wanes
    BY <1>0, <2>1 DEF TypeOK, Wanes, RepairRow
  <2> QED BY <1>0, <2>2, <2>3, WaningKeepsFInv
<1> QED
  BY <1>1, <1>2, <1>3, <1>4, <1>5, <1>6, <1>7, <1>8, <1>9, <1>10, <1>11, <1>12,
     <1>13, <1>14, <1>15, <1>16
  DEF Next, ShipmentStep, RepairStep

\* A parcel never keeps a line of a deleted repair, however reviews, receipts,
\* payments and restores come in between, when one request at a time files a
\* parcel or deletes a report: what the unlocked count in Delete relies on.
THEOREM NoOrphanLinesHolds == ASSUME OneFilesOrDeletes PROVE Spec => []NoOrphanLines
<1>1. Init => FInv
  <2> SUFFICES ASSUME Init PROVE FInv
    OBVIOUS
  <2>1. \A s \in Shipments, p \in Parts : items[s][p].received = "none"
    BY DEF Init, NoItems, NoItem
  <2>2. NoOrphanLines
    BY <2>1 DEF NoOrphanLines, ShippedLines
  <2>3. InFilingAll
    BY IdleInFiling DEF Init, InFilingAll
  <2> QED BY <2>2, <2>3, InvInit DEF FInv
<1>2. FInv /\ [Next]_vars => FInv'
  BY FInvNext
<1>3. FInv => NoOrphanLines
  BY DEF FInv
<1> QED BY <1>1, <1>2, <1>3, PTL DEF Spec

-----------------------------------------------------------------------------
(* Sums over finite sets.  A proof by induction takes a smallest set that   *)
(* is an exception and shows there is none.                                 *)

\* Among subsets of a finite set one is smallest: this stands in for induction.
LEMMA SmallestException ==
    ASSUME NEW S, IsFiniteSet(S), NEW T \in SUBSET SUBSET S, T # {}
    PROVE  \E t \in T : \A u \in T : u \subseteq t => u = t
<1>1. IsWellFoundedOn(StrictSubsetOrdering(S), SUBSET S)
  BY FS_StrictSubsetOrderingWellFounded, FS_FiniteSubsetsOfFinite
<1>2. PICK t \in T : \A u \in T : <<u, t>> \notin StrictSubsetOrdering(S)
  BY <1>1, WFMin
<1> QED BY <1>2 DEF StrictSubsetOrdering

\* The element MapThenSumSet takes next.
First(S) == CHOOSE x \in S : TRUE

\* g has the sums of f over the subsets of S.
IsSum(g, f, S) ==
    g = [s \in SUBSET S |-> IF s = {} THEN 0 ELSE f[First(s)] + g[s \ {First(s)}]]

Sum(f, S) == (CHOOSE g : IsSum(g, f, S))[S]

\* The element taken first is one of the set.
LEMMA FirstIn == ASSUME NEW S, S # {} PROVE First(S) \in S
  BY DEF First

\* The sum over nothing is zero.
LEMMA SumOfNone ==
    ASSUME NEW g, NEW f, NEW S, IsSum(g, f, S)
    PROVE  g[{}] = 0
  BY DEF IsSum

\* A sum is the first element's share and the sum over the others.
LEMMA SumOfSome ==
    ASSUME NEW g, NEW f, NEW S, IsSum(g, f, S),
           NEW s \in SUBSET S, s # {}, NEW u, u = s \ {First(s)}
    PROVE  g[s] = f[First(s)] + g[u]
  BY DEF IsSum

\* Two such functions agree where both are defined.
LEMMA SumAgrees ==
    ASSUME NEW S, IsFiniteSet(S), NEW T, NEW f, NEW g, NEW h,
           IsSum(g, f, S), IsSum(h, f, T), NEW s, s \subseteq S, s \subseteq T
    PROVE  g[s] = h[s]
<1> DEFINE Bad == {u \in SUBSET S : u \subseteq T /\ g[u] # h[u]}
<1> SUFFICES ASSUME Bad # {} PROVE FALSE
  OBVIOUS
<1>1. PICK t \in Bad : \A u \in Bad : u \subseteq t => u = t
  <2>1. Bad \in SUBSET SUBSET S
    OBVIOUS
  <2> HIDE DEF Bad
  <2> QED BY <2>1, SmallestException
<1>2. t # {}
  BY SumOfNone
<1> DEFINE u == t \ {First(t)}
<1>3. u \subseteq t /\ u # t
  BY <1>2, FirstIn
<1>4. g[u] = h[u]
  BY <1>1, <1>3
<1>5. t \in SUBSET S /\ t \in SUBSET T
  BY <1>1
<1>6. g[t] = f[First(t)] + g[u]
  BY <1>2, <1>5, SumOfSome
<1>7. h[t] = f[First(t)] + h[u]
  BY <1>2, <1>5, SumOfSome
<1> QED BY <1>1, <1>4, <1>6, <1>7

\* There is a function that sums, for every finite set.
LEMMA SumExists ==
    ASSUME NEW S, IsFiniteSet(S), NEW f
    PROVE  \E g : IsSum(g, f, S)
<1> DEFINE Bad == {u \in SUBSET S : ~ \E g : IsSum(g, f, u)}
<1> SUFFICES ASSUME Bad # {} PROVE FALSE
  OBVIOUS
<1>1. PICK t \in Bad : \A u \in Bad : u \subseteq t => u = t
  <2>1. Bad \in SUBSET SUBSET S
    OBVIOUS
  <2> HIDE DEF Bad
  <2> QED BY <2>1, SmallestException
<1> DEFINE G(u) == CHOOSE g : IsSum(g, f, u)
           h == [s \in SUBSET t |-> IF s = {} THEN 0
                                    ELSE f[First(s)] + G(s \ {First(s)})[s \ {First(s)}]]
<1>2. \A u \in SUBSET t : u # t => IsSum(G(u), f, u)
  BY <1>1
<1> HIDE DEF G
<1>3. ASSUME NEW s \in SUBSET t, s # {}
      PROVE  G(s \ {First(s)})[s \ {First(s)}] = h[s \ {First(s)}]
  <2>1. PICK u : u = s \ {First(s)}
    OBVIOUS
  <2>2. u \in SUBSET t /\ u # t /\ First(s) \notin u
    BY <1>3, <2>1, FirstIn
  <2>3. IsSum(G(u), f, u)
    BY <1>2, <2>2
  <2>4. CASE u = {}
    BY <2>1, <2>2, <2>3, <2>4, SumOfNone
  <2>5. CASE u # {}
    <3>1. PICK v : v = u \ {First(u)}
      OBVIOUS
    <3>2. v \in SUBSET u /\ v \in SUBSET t /\ v # t
      BY <2>2, <3>1
    <3>3. IsSum(G(v), f, v)
      BY <1>2, <3>2
    <3>4. IsFiniteSet(u)
      <4>1. IsFiniteSet(t) /\ u \subseteq t
        BY <2>2, FS_Subset
      <4> QED BY <4>1, FS_Subset
    <3>5. G(u)[v] = G(v)[v]
      BY <2>3, <3>2, <3>3, <3>4, SumAgrees
    <3>6. G(u)[u] = f[First(u)] + G(u)[v]
      BY <2>3, <2>5, <3>1, SumOfSome
    <3>7. h[u] = f[First(u)] + G(v)[v]
      BY <2>2, <2>5, <3>1
    <3> QED BY <2>1, <3>5, <3>6, <3>7
  <2> QED BY <2>4, <2>5
<1>4. IsSum(h, f, t)
  <2>1. \A s \in SUBSET t : h[s] = IF s = {} THEN 0 ELSE f[First(s)] + h[s \ {First(s)}]
    BY <1>3
  <2> QED BY <2>1 DEF IsSum
<1> QED BY <1>1, <1>4

\* What the fold of the library comes to.
LEMMA SumIs ==
    ASSUME NEW f, NEW S
    PROVE  MapThenSumSet(LAMBDA p : f[p], S) = Sum(f, S)
  BY DEF MapThenSumSet, MapThenFoldSet, Sum, IsSum, First

\* Sum is such a function, as far as its defining equations go.
LEMMA SumStep ==
    ASSUME NEW S, IsFiniteSet(S), NEW f
    PROVE  /\ S = {} => Sum(f, S) = 0
           /\ S # {} => Sum(f, S) = f[First(S)] + Sum(f, S \ {First(S)})
<1> DEFINE G(u) == CHOOSE g : IsSum(g, f, u)
<1>0. PICK u : u = S \ {First(S)}
  OBVIOUS
<1>1. IsSum(G(S), f, S)
  BY SumExists
<1>2. IsFiniteSet(u) /\ u \subseteq S
  BY <1>0, FS_Subset
<1>3. IsSum(G(u), f, u)
  BY <1>2, SumExists
<1>4. Sum(f, S) = G(S)[S] /\ Sum(f, u) = G(u)[u]
  BY DEF Sum
<1> HIDE DEF G
<1>5. G(S)[u] = G(u)[u]
  BY <1>1, <1>2, <1>3, SumAgrees
<1>6. S = {} => G(S)[S] = 0
  BY <1>1, SumOfNone
<1>7. S # {} => G(S)[S] = f[First(S)] + G(S)[u]
  BY <1>0, <1>1, SumOfSome
<1> QED BY <1>0, <1>4, <1>5, <1>6, <1>7

\* A sum of integers is an integer.
LEMMA SumInt ==
    ASSUME NEW S, IsFiniteSet(S), NEW f, \A x \in S : f[x] \in Int
    PROVE  Sum(f, S) \in Int
<1> DEFINE Bad == {u \in SUBSET S : Sum(f, u) \notin Int}
<1> SUFFICES ASSUME Bad # {} PROVE FALSE
  OBVIOUS
<1>1. PICK t \in Bad : \A u \in Bad : u \subseteq t => u = t
  <2>1. Bad \in SUBSET SUBSET S
    OBVIOUS
  <2> HIDE DEF Bad
  <2> QED BY <2>1, SmallestException
<1>2. IsFiniteSet(t)
  BY FS_Subset
<1>3. t # {}
  <2>1. t = {} => Sum(f, t) = 0
    BY <1>2, SumStep
  <2> QED BY <1>1, <2>1
<1> DEFINE u == t \ {First(t)}
<1>4. First(t) \in S /\ u \in SUBSET S /\ u \subseteq t /\ u # t
  BY <1>3, FirstIn
<1>5. Sum(f, u) \in Int
  BY <1>1, <1>4
<1>6. Sum(f, t) = f[First(t)] + Sum(f, u)
  BY <1>2, <1>3, SumStep
<1> QED BY <1>1, <1>4, <1>5, <1>6

\* Any element may be taken first.
LEMMA SumWithout ==
    ASSUME NEW S, IsFiniteSet(S), NEW f, \A x \in S : f[x] \in Int, NEW y \in S
    PROVE  Sum(f, S) = f[y] + Sum(f, S \ {y})
<1> DEFINE Bad == {u \in SUBSET S : \E x \in u : Sum(f, u) # f[x] + Sum(f, u \ {x})}
<1> SUFFICES ASSUME Bad # {} PROVE FALSE
  OBVIOUS
<1>1. PICK t \in Bad : \A u \in Bad : u \subseteq t => u = t
  <2>1. Bad \in SUBSET SUBSET S
    OBVIOUS
  <2> HIDE DEF Bad
  <2> QED BY <2>1, SmallestException
<1>2. PICK x \in t : Sum(f, t) # f[x] + Sum(f, t \ {x})
  BY <1>1
<1> DEFINE z == First(t)
           w == (t \ {z}) \ {x}
<1>3. z \in t /\ z \in S /\ x \in S
  BY <1>2, FirstIn
<1>4. IsFiniteSet(t) /\ IsFiniteSet(t \ {z}) /\ IsFiniteSet(t \ {x}) /\ IsFiniteSet(w)
  BY FS_Subset
<1>5. Sum(f, t) = f[z] + Sum(f, t \ {z})
  BY <1>2, <1>4, SumStep
<1>6. z # x
  BY <1>2, <1>5
<1>7. Sum(f, t \ {z}) = f[x] + Sum(f, w)
  <2>1. t \ {z} \in SUBSET S /\ t \ {z} \subseteq t /\ t \ {z} # t /\ x \in t \ {z}
    BY <1>2, <1>3, <1>6
  <2>2. t \ {z} \notin Bad
    BY <1>1, <2>1
  <2> QED BY <2>1, <2>2
<1>8. Sum(f, t \ {x}) = f[z] + Sum(f, w)
  <2>1. t \ {x} \in SUBSET S /\ t \ {x} \subseteq t /\ t \ {x} # t /\ z \in t \ {x}
    BY <1>2, <1>3, <1>6
  <2>2. t \ {x} \notin Bad
    BY <1>1, <2>1
  <2>3. (t \ {x}) \ {z} = w
    OBVIOUS
  <2> QED BY <2>1, <2>2, <2>3
<1>9. Sum(f, w) \in Int /\ f[x] \in Int /\ f[z] \in Int
  BY <1>3, <1>4, SumInt
<1> HIDE DEF z, w
<1> QED BY <1>2, <1>5, <1>7, <1>8, <1>9

\* Elements that count nothing may be left out.
LEMMA SumOfNonzero ==
    ASSUME NEW S, IsFiniteSet(S), NEW f, \A x \in S : f[x] \in Int,
           NEW T \in SUBSET S, \A x \in S \ T : f[x] = 0
    PROVE  Sum(f, S) = Sum(f, T)
<1> DEFINE Bad == {u \in SUBSET S : T \subseteq u /\ Sum(f, u) # Sum(f, T)}
<1> SUFFICES ASSUME Bad # {} PROVE FALSE
  OBVIOUS
<1>1. PICK t \in Bad : \A u \in Bad : u \subseteq t => u = t
  <2>1. Bad \in SUBSET SUBSET S
    OBVIOUS
  <2> HIDE DEF Bad
  <2> QED BY <2>1, SmallestException
<1>2. PICK x \in t : x \notin T
  <2>1. T \subseteq t /\ t # T
    BY <1>1
  <2> QED BY <2>1
<1>3. IsFiniteSet(t) /\ IsFiniteSet(t \ {x})
  BY FS_Subset
<1>4. t \ {x} \in SUBSET S /\ t \ {x} \subseteq t /\ t \ {x} # t /\ T \subseteq t \ {x}
  BY <1>1, <1>2
<1>5. Sum(f, t \ {x}) = Sum(f, T)
  BY <1>1, <1>4
<1>6. Sum(f, t) = 0 + Sum(f, t \ {x}) /\ Sum(f, t \ {x}) \in Int
  BY <1>2, <1>3, SumWithout, SumInt
<1> QED BY <1>1, <1>5, <1>6

\* A sum depends on nothing but what is summed.
LEMMA SumSame ==
    ASSUME NEW S, IsFiniteSet(S), NEW f, NEW g, \A x \in S : f[x] = g[x]
    PROVE  Sum(f, S) = Sum(g, S)
<1> DEFINE Bad == {u \in SUBSET S : Sum(f, u) # Sum(g, u)}
<1> SUFFICES ASSUME Bad # {} PROVE FALSE
  OBVIOUS
<1>1. PICK t \in Bad : \A u \in Bad : u \subseteq t => u = t
  <2>1. Bad \in SUBSET SUBSET S
    OBVIOUS
  <2> HIDE DEF Bad
  <2> QED BY <2>1, SmallestException
<1>2. IsFiniteSet(t)
  BY FS_Subset
<1>3. t # {}
  BY <1>1, <1>2, SumStep
<1> DEFINE u == t \ {First(t)}
<1>4. First(t) \in S /\ u \in SUBSET S /\ u \subseteq t /\ u # t
  BY <1>3, FirstIn
<1>5. Sum(f, u) = Sum(g, u)
  BY <1>1, <1>4
<1>6. Sum(f, t) = f[First(t)] + Sum(f, u) /\ Sum(g, t) = g[First(t)] + Sum(g, u)
  BY <1>2, <1>3, SumStep
<1> QED BY <1>1, <1>4, <1>5, <1>6

\* The sum of a field of rows.
LEMMA SumOfPrices ==
    ASSUME NEW rows, NEW S, NEW f, \A p \in S : f[p] = rows[p].price
    PROVE  MapThenSumSet(LAMBDA p : rows[p].price, S) = Sum(f, S)
<1> DEFINE R(g) == g = [s \in SUBSET S |-> IF s = {} THEN 0
                                  ELSE rows[First(s)].price + g[s \ {First(s)}]]
<1>1. ASSUME NEW g PROVE R(g) <=> IsSum(g, f, S)
  <2>1. \A s \in SUBSET S : s # {} => rows[First(s)].price = f[First(s)]
    BY FirstIn
  <2> QED BY <2>1 DEF IsSum
<1>2. (CHOOSE g : R(g)) = (CHOOSE g : IsSum(g, f, S))
  <2> HIDE DEF R
  <2> QED BY <1>1
<1>3. MapThenSumSet(LAMBDA p : rows[p].price, S) = (CHOOSE g : R(g))[S]
  BY DEF MapThenSumSet, MapThenFoldSet, First
<1> QED BY <1>2, <1>3 DEF Sum

-----------------------------------------------------------------------------
(* What the desk has read of a parcel and its lines is still so when it     *)
(* saves, unless reports are deleted behind its back.                       *)

KeepsReports == \A r \in Requests : Serves[r] \intersect DeleteOperations = {}

\* One desk handles parcels and deletes reports, and restores no parcel.
OneHandler == \E d \in Requests :
    /\ "restore" \notin Serves[d]
    /\ \A r \in Requests \ {d} : Serves[r] \intersect
           (RowOperations \union {"delete", "restore"} \union DeleteOperations) = {}

\* The lines the desk has loaded are the lines of the parcel.
LoadedFresh ==
    \A r \in Requests : req[r].op \in RowOperations /\ req[r].at = "loaded" =>
        req[r].items = items[req[r].ship]

LiveSnapshots ==
    \A r \in Requests : req[r].op \in RowOperations => ~req[r].row.deleted

FilesSomething == \A r \in Requests : req[r].op = "create" => req[r].parts # {}

RInv == HInv /\ LoadedFresh /\ LiveSnapshots /\ FilesSomething

\* The new record q of request r keeps the promises of RInv.
WellRead(q) ==
    /\ q.op \in RowOperations =>
           ~q.row.deleted /\ (q.at = "loaded" => q.items = items'[q.ship])
    /\ q.op = "create" => q.parts # {}

\* An idle slot has read nothing.
LEMMA IdleWellRead == WellRead(Idle)
  BY Defaults DEF WellRead, RowOperations

\* A step that changes the lines of no parcel another request is handling.
LEMMA StepKeepsRInv ==
    ASSUME RInv, HInv', NEW r \in Requests, NEW q, req' = [req EXCEPT ![r] = q],
           WellRead(q),
           \A z \in Requests \ {r} : req[z].op \in RowOperations =>
               items'[req[z].ship] = items[req[z].ship]
    PROVE  RInv'
<1>1. req'[r] = q /\ \A z \in Requests \ {r} : req'[z] = req[z]
  BY DEF RInv, HInv, IInv, TypeOK
<1>2. LoadedFresh'
  BY <1>1 DEF RInv, LoadedFresh, WellRead
<1>3. LiveSnapshots' /\ FilesSomething'
  BY <1>1 DEF RInv, LiveSnapshots, FilesSomething, WellRead
<1> QED BY <1>2, <1>3 DEF RInv

\* The desk ends what it was doing.
LEMMA DeskEndKeepsRInv ==
    ASSUME OneDesk, RInv, HInv', NEW r \in Requests, req[r].op \in RowOperations, Finish(r)
    PROVE  RInv'
<1>1. req[r].op \in Serves[r]
  BY DEF RInv, HInv, Served, RowOperations
<1>2. \A z \in Requests \ {r} : req[z].op \notin RowOperations
  BY <1>1, DeskAlone DEF RInv
<1> QED BY <1>2, IdleWellRead, StepKeepsRInv DEF Finish

\* Nothing has been read at the start.
THEOREM RInvInit == Init => RInv
<1> SUFFICES ASSUME Init PROVE RInv
  OBVIOUS
<1>1. \A r \in Requests : req[r].op \notin RowOperations /\ req[r].op # "create"
  BY Defaults DEF Init, RowOperations
<1> QED BY <1>1, HInvInit DEF RInv, LoadedFresh, LiveSnapshots, FilesSomething

\* Every statement of every request keeps it.
THEOREM RInvNext ==
    ASSUME OneDesk, KeepsReports \/ OneHandler PROVE RInv /\ [Next]_vars => RInv'
<1> SUFFICES ASSUME RInv, [Next]_vars PROVE RInv'
  OBVIOUS
<1>0. HInv /\ HInv' /\ TypeOK
  BY HInvNext DEF RInv, HInv, IInv
<1>1. CASE UNCHANGED <<items, req>>
  BY <1>0, <1>1 DEF RInv, LoadedFresh, LiveSnapshots, FilesSomething
<1>2. ASSUME NEW r \in Requests, NEW q, req' = [req EXCEPT ![r] = q], UNCHANGED items,
             WellRead(q)
      PROVE  RInv'
  BY <1>0, <1>2, StepKeepsRInv
<1>3. ASSUME NEW r \in Requests, NEW t \in Techs, NEW P \in SUBSET Parts, LockParts(r, t, P)
      PROVE  RInv'
  <2> DEFINE q == [Idle EXCEPT !.op = "create", !.at = "locked",
                               !.technician = t, !.parts = P]
  <2>1. WellRead(q)
    BY <1>3 DEF WellRead, Idle, RowOperations, LockParts
  <2>2. req' = [req EXCEPT ![r] = q] /\ UNCHANGED items
    BY <1>3 DEF LockParts
  <2> HIDE DEF q
  <2> QED BY <1>2, <2>1, <2>2
<1>4. ASSUME NEW r \in Requests, VerifyOwnStandingRepairs(r) \/ VerifyNotHeld(r)
      PROVE  RInv'
  <2>1. PICK point : req' = [req EXCEPT ![r].at = point] /\ UNCHANGED items
    BY <1>4 DEF VerifyOwnStandingRepairs, VerifyNotHeld, Advance
  <2> DEFINE q == [req[r] EXCEPT !.at = point]
  <2>2. req[r] \in Request /\ req[r].op = "create" /\ req[r].parts # {}
    BY <1>0, <1>4
    DEF VerifyOwnStandingRepairs, VerifyNotHeld, At, TypeOK, RInv, FilesSomething
  <2>3. WellRead(q)
    BY <2>2 DEF WellRead, Request, RowOperations
  <2>4. req' = [req EXCEPT ![r] = q]
    BY <2>1
  <2> HIDE DEF q
  <2> QED BY <1>2, <2>1, <2>3, <2>4
<1>5. ASSUME NEW r \in Requests, NEW s \in Shipments, InsertShipment(r, s)
      PROVE  RInv'
  <2>1. shipments[s].status = "None" /\ Finish(r)
    BY <1>5 DEF InsertShipment
  <2>2. \A z \in Shipments \ {s} : items'[z] = items[z]
    BY <1>0, <1>5 DEF InsertShipment, TypeOK
  <2>3. ASSUME NEW z \in Requests, req[z].op \in RowOperations
        PROVE  items'[req[z].ship] = items[req[z].ship]
    <3>1. req[z].ship \in Shipments /\ shipments[req[z].ship].status # "None"
      BY <1>0, <2>3 DEF HInv, IInv, Snapshots, Fresh, Source
    <3> QED BY <2>1, <2>2, <3>1
  <2> QED BY <1>0, <2>1, <2>3, IdleWellRead, StepKeepsRInv DEF Finish
<1>6. ASSUME NEW r \in Requests, NEW op \in RowOperations, NEW s \in Shipments,
             FindShipment(r, op, s)
      PROVE  RInv'
  <2> DEFINE q == [Idle EXCEPT !.op = op, !.at = "found",
                               !.ship = s, !.row = shipments[s]]
  <2>1. WellRead(q)
    BY <1>6 DEF WellRead, Idle, RowOperations, FindShipment, Live
  <2>2. req' = [req EXCEPT ![r] = q] /\ UNCHANGED items
    BY <1>6 DEF FindShipment
  <2> HIDE DEF q
  <2> QED BY <1>2, <2>1, <2>2
<1>7. ASSUME NEW r \in Requests, LoadItems(r) PROVE RInv'
  <2> DEFINE q == [req[r] EXCEPT !.at = "loaded", !.items = items[req[r].ship]]
  <2>1. req[r] \in Request /\ req[r].op \in RowOperations /\ ~req[r].row.deleted
    BY <1>0, <1>7 DEF TypeOK, RInv, LiveSnapshots, LoadItems, At, RowOperations
  <2>2. req' = [req EXCEPT ![r] = q] /\ UNCHANGED items
    BY <1>7, <2>1 DEF LoadItems, Request
  <2>3. WellRead(q)
    BY <2>1, <2>2 DEF WellRead, Request, RowOperations
  <2> HIDE DEF q
  <2> QED BY <1>2, <2>2, <2>3
<1>8. ASSUME NEW r \in Requests,
             \/ \E arrived \in SUBSET Parts : SaveReceipt(r, arrived)
             \/ \E price \in [Parts -> Prices] : SaveInvoice(r, price)
             \/ SavePayment(r)
             \/ SaveWithdrawal(r)
      PROVE  RInv'
  <2>1. req[r].op \in RowOperations /\ Finish(r)
    BY <1>8 DEF SaveReceipt, SaveInvoice, SavePayment, SaveWithdrawal, At, RowOperations
  <2> QED BY <1>0, <2>1, DeskEndKeepsRInv
<1>9. ASSUME NEW r \in Requests,
             \/ \E s \in Shipments : DeleteShipment(r, s) \/ RestoreShipment(r, s)
             \/ \E x \in Repairs : RestoreRepair(r, x)
      PROVE  RInv'
  BY <1>1, <1>9 DEF DeleteShipment, RestoreShipment, RestoreRepair
<1>10. ASSUME NEW r \in Requests, NEW op \in RepairOperations, NEW x \in Repairs,
              FindRepair(r, op, x)
       PROVE  RInv'
  <2> DEFINE q == [Idle EXCEPT !.op = op, !.at = "found", !.repair = x]
  <2>1. WellRead(q)
    BY DEF WellRead, Idle, RowOperations, RepairOperations
  <2>2. req' = [req EXCEPT ![r] = q] /\ UNCHANGED items
    BY <1>10 DEF FindRepair
  <2> HIDE DEF q
  <2> QED BY <1>2, <2>1, <2>2
<1>11. ASSUME NEW r \in Requests, NEW op \in DeleteOperations, NEW x \in Repairs,
              CheckShippedParts(r, op, x)
       PROVE  RInv'
  <2> DEFINE q == [Idle EXCEPT !.op = op, !.at = "found",
                               !.repair = x, !.lines = ShippedLines(x)]
  <2>1. WellRead(q)
    BY DEF WellRead, Idle, RowOperations, DeleteOperations
  <2>2. req' = [req EXCEPT ![r] = q] /\ UNCHANGED items
    BY <1>11 DEF CheckShippedParts
  <2> HIDE DEF q
  <2> QED BY <1>2, <2>1, <2>2
<1>12. ASSUME NEW r \in Requests, SaveRepair(r) \/ Abandon(r)
       PROVE  RInv'
  <2>1. Finish(r) /\ UNCHANGED items
    BY <1>12 DEF SaveRepair, Abandon
  <2> QED BY <1>2, <2>1, IdleWellRead DEF Finish
<1>13. ASSUME NEW r \in Requests, DeleteRepair(r)
       PROVE  RInv'
  <2>1. req[r].op \in DeleteOperations /\ req[r].op \in Serves[r] /\ Finish(r)
    BY <1>0, <1>13 DEF DeleteRepair, At, HInv, Served, DeleteOperations
  <2>2. \A z \in Requests \ {r} : req[z].op \notin RowOperations
    <3>1. PICK d \in Requests : \A z \in Requests \ {d} : Serves[z] \intersect
              (RowOperations \union {"delete", "restore"} \union DeleteOperations) = {}
      BY <2>1 DEF KeepsReports, OneHandler
    <3>2. r = d
      BY <2>1, <3>1
    <3> QED BY <1>0, <3>1, <3>2 DEF HInv, Served, RowOperations
  <2> QED BY <1>0, <2>1, <2>2, IdleWellRead, StepKeepsRInv DEF Finish
<1> QED
  BY <1>1, <1>3, <1>4, <1>5, <1>6, <1>7, <1>8, <1>9, <1>10, <1>11, <1>12, <1>13
  DEF Next, ShipmentStep, RepairStep, vars

-----------------------------------------------------------------------------
(* The amount on an invoice is the sum of the lines that arrived, while one *)
(* desk handles parcels and no report is deleted.                           *)

\* Lines have no price before the invoice.
Unpriced ==
    \A s \in Shipments, p \in Parts :
        shipments[s].status \notin {"Invoiced", "Paid"} => items[s][p].price = 0

PriceOf(rows) == [p \in Parts |-> rows[p].price]

SumInv == RInv /\ Unpriced /\ TotalsAreSums

\* The total an invoice computes is the sum of the prices of what arrived.
LEMMA TotalOfLines ==
    ASSUME NEW rows
    PROVE  ReceivedTotal(rows) = Sum(PriceOf(rows), Arrived(rows))
<1>1. \A p \in Arrived(rows) : PriceOf(rows)[p] = rows[p].price
  BY DEF PriceOf, Arrived
<1> QED BY <1>1, SumOfPrices DEF ReceivedTotal

\* The property in terms of Sum.
TotalIs(row, rows) ==
    row.status \in {"Invoiced", "Paid"} => row.total = Sum(PriceOf(rows), Arrived(rows))

\* TotalsAreSums says so of each parcel's row and lines.
LEMMA TotalIsSum ==
    TotalsAreSums <=> \A s \in Shipments : TotalIs(shipments[s], items[s])
  BY TotalOfLines DEF TotalsAreSums, TotalIs

\* What the server adds up is what it writes on the lines that arrived.
LEMMA InvoiceTotalOfLines ==
    ASSUME NEW price \in [Parts -> Prices], NEW rows \in [Parts -> PartShipmentItem],
           \A p \in Parts \ Arrived(rows) : price[p] = 0,
           \A p \in Arrived(rows) : rows[p].price = price[p]
    PROVE  InvoiceTotal(price) = Sum(PriceOf(rows), Arrived(rows))
<1>1. IsFiniteSet(Parts) /\ IsFiniteSet(Arrived(rows)) /\ Arrived(rows) \in SUBSET Parts
  <2>1. Arrived(rows) \in SUBSET Parts
    BY DEF Arrived
  <2> QED BY <2>1, ConstantsAssumption, FS_Subset
<1>2. InvoiceTotal(price) = Sum(price, Parts)
  <2>1. DOMAIN price = Parts
    OBVIOUS
  <2> QED BY <2>1, SumIs DEF InvoiceTotal
<1>3. \A p \in Parts : price[p] \in Int
  <2>1. Prices \subseteq Int
    BY ConstantsAssumption
  <2> QED BY <2>1
<1>4. Sum(price, Parts) = Sum(price, Arrived(rows))
  BY <1>1, <1>3, SumOfNonzero
<1>5. \A p \in Arrived(rows) : price[p] = PriceOf(rows)[p]
  BY <1>1 DEF PriceOf
<1>6. Sum(price, Arrived(rows)) = Sum(PriceOf(rows), Arrived(rows))
  BY <1>1, <1>5, SumSame
<1> QED BY <1>2, <1>4, <1>6

\* A positive amount has a line that arrived.
LEMMA PositiveTotal ==
    ASSUME NEW price \in [Parts -> Prices], InvoiceTotal(price) > 0
    PROVE  \E p \in Parts : price[p] # 0
<1> SUFFICES ASSUME \A p \in Parts : price[p] = 0 PROVE FALSE
  OBVIOUS
<1>1. InvoiceTotal(price) = Sum(price, Parts)
  <2>1. DOMAIN price = Parts
    OBVIOUS
  <2> QED BY <2>1, SumIs DEF InvoiceTotal
<1>2. Sum(price, Parts) = Sum(price, {})
  BY ConstantsAssumption, SumOfNonzero
<1>3. Sum(price, {}) = 0
  BY SumStep, FS_EmptySet
<1> QED BY <1>1, <1>2, <1>3

\* A step that gives one parcel a new row and new lines.
LEMMA RowStepKeepsSum ==
    ASSUME SumInv, RInv', NEW s \in Shipments, NEW row, Save(s, row),
           NEW rows, items' = [items EXCEPT ![s] = rows], TotalIs(row, rows),
           row.status \notin {"Invoiced", "Paid"} => \A p \in Parts : rows[p].price = 0
    PROVE  SumInv'
<1>1. /\ shipments'[s] = row /\ items'[s] = rows
      /\ \A z \in Shipments \ {s} : shipments'[z] = shipments[z] /\ items'[z] = items[z]
  BY DEF SumInv, RInv, HInv, IInv, TypeOK, Save
<1>2. Unpriced'
  BY <1>1 DEF SumInv, Unpriced
<1>3. \A z \in Shipments : TotalIs(shipments'[z], items'[z])
  BY <1>1, TotalIsSum DEF SumInv
<1>4. TotalsAreSums'
  BY <1>3, TotalOfLines DEF TotalsAreSums, TotalIs
<1> QED BY <1>2, <1>4 DEF SumInv

\* A step that leaves the lines alone.
LEMMA SameLines ==
    ASSUME TypeOK, NEW s \in Shipments, items' = items
    PROVE  items' = [items EXCEPT ![s] = items[s]]
  BY DEF TypeOK

\* At the start there is no amount to account for.
THEOREM SumInvInit == Init => SumInv
<1> SUFFICES ASSUME Init PROVE SumInv
  OBVIOUS
<1>1. \A s \in Shipments : /\ shipments[s].status = "None"
                           /\ \A p \in Parts : items[s][p].price = 0
  BY DEF Init, NoRow, NoItems, NoItem
<1> QED BY <1>1, RInvInit DEF SumInv, Unpriced, TotalsAreSums

\* Every statement of every request keeps amounts and lines together.
THEOREM SumInvNext ==
    ASSUME OneDesk, KeepsReports PROVE SumInv /\ [Next]_vars => SumInv'
<1> SUFFICES ASSUME SumInv, [Next]_vars PROVE SumInv'
  OBVIOUS
<1>0. RInv /\ RInv' /\ HInv /\ TypeOK
  BY RInvNext DEF SumInv, RInv, HInv, IInv
<1>1. CASE UNCHANGED <<shipments, items>>
  BY <1>0, <1>1 DEF SumInv, Unpriced, TotalsAreSums
<1>2. ASSUME NEW r \in Requests, NEW s \in Shipments, InsertShipment(r, s)
      PROVE  SumInv'
  <2> DEFINE row == [NoRow EXCEPT !.technician = req[r].technician, !.status = "Sent"]
             rows == [p \in Parts |-> IF p \in req[r].parts
                                      THEN [NoItem EXCEPT !.received = "unknown"]
                                      ELSE NoItem]
  <2>1. /\ Save(s, row) /\ row.status = "Sent"
        /\ items' = [items EXCEPT ![s] = rows] /\ \A p \in Parts : rows[p].price = 0
    BY <1>2 DEF InsertShipment, NoRow, NoItem
  <2> HIDE DEF row, rows
  <2>2. shipments[s].status = "None" /\ Finish(r)
    BY <1>2 DEF InsertShipment
  <2>4. TotalIs(row, rows)
    BY <2>1 DEF TotalIs
  <2> QED BY <1>0, <2>1, <2>4, RowStepKeepsSum
<1>3. ASSUME NEW r \in Requests, NEW arrived \in SUBSET Parts, SaveReceipt(r, arrived)
      PROVE  SumInv'
  <2> DEFINE row == [req[r].row EXCEPT !.status = "Received", !.receivedAt = TRUE]
  <2>1. /\ req[r].op \in RowOperations /\ req[r].row \in PartShipment
        /\ req[r].ship \in Shipments /\ shipments[req[r].ship].status = "Sent"
    BY <1>0, <1>3 DEF SaveReceipt, At, RowOperations, HInv, IInv, Snapshots, Fresh,
       Source, TypeOK, Request
  <2>2. row.status = "Received" /\ Save(req[r].ship, row) /\ Finish(r)
    BY <1>3, <2>1 DEF SaveReceipt, PartShipment
  <2>3. \A p \in Parts : items[req[r].ship][p].price = 0
    BY <2>1 DEF SumInv, Unpriced
  <2> DEFINE lines == items[req[r].ship]
             line == [p \in Parts |-> [lines[p] EXCEPT !.received =
                                          IF p \in arrived THEN "yes" ELSE "no"]]
             rows == [p \in Parts |-> IF p \in LinesOf(req[r].items) \intersect LinesOf(lines)
                                      THEN line[p] ELSE lines[p]]
  <2>4. /\ items' = [items EXCEPT ![req[r].ship] = rows]
        /\ \A p \in Parts : rows[p].price = 0
    <3>1. items' = [items EXCEPT ![req[r].ship] = rows]
      BY <1>3 DEF SaveReceipt, UpdateLines
    <3>2. \A p \in Parts : lines[p] \in PartShipmentItem /\ lines[p].price = 0
      BY <1>0, <2>1, <2>3 DEF TypeOK
    <3> HIDE DEF lines
    <3>3. \A p \in Parts : line[p].price = 0
      BY <3>2 DEF PartShipmentItem
    <3> HIDE DEF line
    <3>4. \A p \in Parts : rows[p].price = 0
      BY <3>2, <3>3
    <3> QED BY <3>1, <3>4
  <2> HIDE DEF row, rows
  <2>5. TotalIs(row, rows)
    BY <2>2 DEF TotalIs
  <2> QED BY <1>0, <2>1, <2>2, <2>4, <2>5, RowStepKeepsSum
<1>4. ASSUME NEW r \in Requests, NEW price \in [Parts -> Prices], SaveInvoice(r, price)
      PROVE  SumInv'
  <2> DEFINE row == [req[r].row EXCEPT !.status = "Invoiced", !.invoicedAt = TRUE,
                                       !.total = InvoiceTotal(price)]
             lines == items[req[r].ship]
             rows == [p \in Parts |-> IF p \in Arrived(req[r].items) \intersect LinesOf(lines)
                                      THEN [lines[p] EXCEPT !.price = price[p]]
                                      ELSE lines[p]]
  <2>1. /\ req[r].op \in RowOperations /\ req[r].row \in PartShipment
        /\ req[r].ship \in Shipments /\ shipments[req[r].ship].status = "Received"
    BY <1>0, <1>4 DEF SaveInvoice, At, RowOperations, HInv, IInv, Snapshots, Fresh,
       Source, TypeOK, Request
  <2>2. /\ row.status = "Invoiced" /\ row.total = InvoiceTotal(price)
        /\ Save(req[r].ship, row) /\ Finish(r)
    BY <1>4, <2>1 DEF SaveInvoice, PartShipment
  <2>3. req[r].items = lines
    BY <1>4, <2>1 DEF SumInv, RInv, LoadedFresh, SaveInvoice, At
  <2>4. lines \in [Parts -> PartShipmentItem]
    BY <1>0, <2>1 DEF TypeOK
  <2>5. \A p \in Parts : price[p] \in Prices
    OBVIOUS
  <2> HIDE DEF row, lines
  <2>6. items' = [items EXCEPT ![req[r].ship] = rows]
    BY <1>4 DEF SaveInvoice, UpdateLines, lines
  <2>7. rows \in [Parts -> PartShipmentItem]
    BY <2>4, <2>5 DEF PartShipmentItem
  <2>8. /\ Arrived(rows) = Arrived(lines)
        /\ \A p \in Arrived(rows) : rows[p].price = price[p]
    BY <2>3, <2>4 DEF Arrived, LinesOf, PartShipmentItem
  <2>9. \A p \in Parts \ Arrived(rows) : price[p] = 0
    BY <1>4, <2>3, <2>8 DEF SaveInvoice
  <2> HIDE DEF rows
  <2>10. TotalIs(row, rows)
    BY <2>2, <2>7, <2>8, <2>9, InvoiceTotalOfLines DEF TotalIs
  <2> QED BY <1>0, <2>1, <2>2, <2>6, <2>10, RowStepKeepsSum
<1>5. ASSUME NEW r \in Requests, SavePayment(r) PROVE SumInv'
  <2> DEFINE row == [req[r].row EXCEPT !.status = "Paid", !.paidAt = TRUE]
             lines == items[req[r].ship]
  <2>1. /\ req[r].op \in RowOperations /\ req[r].row \in PartShipment
        /\ req[r].ship \in Shipments /\ req[r].row = shipments[req[r].ship]
        /\ req[r].row.status = "Invoiced"
    BY <1>0, <1>5 DEF SavePayment, At, RowOperations, HInv, IInv, Snapshots, Fresh,
       Source, TypeOK, Request
  <2>2. /\ row.status = "Paid" /\ row.total = req[r].row.total
        /\ Save(req[r].ship, row) /\ Finish(r) /\ items' = items
    BY <1>5, <2>1 DEF SavePayment, PartShipment
  <2> HIDE DEF row
  <2>3. TotalIs(row, lines)
    BY <2>1, <2>2, TotalIsSum DEF SumInv, TotalIs
  <2>4. items' = [items EXCEPT ![req[r].ship] = lines]
    BY <1>0, <2>1, <2>2, SameLines
  <2> HIDE DEF lines
  <2> QED BY <1>0, <2>1, <2>2, <2>3, <2>4, RowStepKeepsSum
<1>6. ASSUME NEW r \in Requests, SaveWithdrawal(r) PROVE SumInv'
  <2> DEFINE row == [req[r].row EXCEPT !.status = Target(req[r].op)]
             lines == items[req[r].ship]
  <2>1. /\ req[r].op \in {"cancel", "reject"} /\ req[r].row \in PartShipment
        /\ req[r].op \in RowOperations
        /\ req[r].ship \in Shipments /\ shipments[req[r].ship].status = "Sent"
    BY <1>0, <1>6 DEF SaveWithdrawal, At, RowOperations, HInv, IInv, Snapshots, Fresh,
       Source, TypeOK, Request
  <2>2. /\ row.status \notin {"Invoiced", "Paid"}
        /\ Save(req[r].ship, row) /\ Finish(r) /\ items' = items
    BY <1>6, <2>1 DEF SaveWithdrawal, PartShipment, Target
  <2>3. \A p \in Parts : lines[p].price = 0
    BY <2>1 DEF SumInv, Unpriced
  <2> HIDE DEF row
  <2>4. TotalIs(row, lines)
    BY <2>2 DEF TotalIs
  <2>5. items' = [items EXCEPT ![req[r].ship] = lines]
    BY <1>0, <2>1, <2>2, SameLines
  <2> HIDE DEF lines
  <2> QED BY <1>0, <2>1, <2>2, <2>3, <2>4, <2>5, RowStepKeepsSum
<1>7. ASSUME NEW r \in Requests, NEW s \in Shipments,
              DeleteShipment(r, s) \/ RestoreShipment(r, s)
       PROVE  SumInv'
  <2>1. PICK b \in BOOLEAN : Save(s, [shipments[s] EXCEPT !.deleted = b])
    BY <1>7 DEF DeleteShipment, RestoreShipment
  <2> DEFINE row == [shipments[s] EXCEPT !.deleted = b]
             lines == items[s]
  <2>2. row.status = shipments[s].status /\ row.total = shipments[s].total
    BY <1>0 DEF TypeOK, PartShipment
  <2>3. UNCHANGED <<items, req>> /\ Save(s, row)
    BY <1>7, <2>1 DEF DeleteShipment, RestoreShipment
  <2> HIDE DEF row
  <2>4. TotalIs(row, lines)
    BY <2>2, TotalIsSum DEF SumInv, TotalIs
  <2>5. row.status \notin {"Invoiced", "Paid"} => \A p \in Parts : lines[p].price = 0
    BY <2>2 DEF SumInv, Unpriced
  <2>6. items' = [items EXCEPT ![s] = lines]
    BY <1>0, <2>3, SameLines
  <2> HIDE DEF lines
  <2> QED BY <1>0, <2>3, <2>4, <2>5, <2>6, RowStepKeepsSum
<1>8. ASSUME NEW r \in Requests, DeleteRepair(r)
       PROVE  SumInv'
  <2>1. req[r].op \in DeleteOperations => req[r].op \in Serves[r]
    BY <1>0 DEF HInv, Served, DeleteOperations
  <2> QED BY <1>8, <2>1 DEF DeleteRepair, At, KeepsReports
<1> QED
  BY <1>1, <1>2, <1>3, <1>4, <1>5, <1>6, <1>7, <1>8
  DEF Next, ShipmentStep, RepairStep, vars, LockParts, VerifyOwnStandingRepairs,
      VerifyNotHeld, FindShipment, LoadItems, FindRepair, SaveRepair,
      CheckShippedParts, RestoreRepair, Abandon

\* "invoice_total is the sum of received items' unit prices" (migration 024),
\* for any number of parcels, lines and prices, when one desk at a time handles
\* parcels and no report is deleted.
THEOREM InvoiceTotalIsSumHolds ==
    ASSUME OneDesk, KeepsReports PROVE Spec => [](TotalsAreSums /\ InvoiceTotalIsSum)
<1>1. SumInv /\ [Next]_vars => SumInv'
  BY SumInvNext
<1>2. SumInv => TotalsAreSums /\ InvoiceTotalIsSum
  BY DEF SumInv, InvoiceTotalIsSum
<1> QED BY <1>1, <1>2, SumInvInit, PTL DEF Spec

-----------------------------------------------------------------------------
(* The parcels implement the ledger, while one desk handles parcels and     *)
(* deletes reports.                                                         *)

\* One slot that does everything is one desk.
LEMMA OneHandlerIsOneDesk == OneHandler => OneDesk
  BY DEF OneHandler, OneDesk

\* The ledger's holder of a part is the one parcel that holds it.
HolderFacts == \A p \in Parts :
    /\ \A s \in Shipments : Holder[p] = s <=> Holds(s, p)
    /\ ~Held(p) => Holder[p] = None

\* The holder of a part is the one live parcel that holds it.
LEMMA HolderIs == HeldOnce => HolderFacts
<1> SUFFICES ASSUME HeldOnce, NEW p \in Parts
             PROVE  /\ \A s \in Shipments : Holder[p] = s <=> Holds(s, p)
                    /\ ~Held(p) => Holder[p] = None
  BY DEF HolderFacts
<1>1. Holder[p] = IF Held(p) THEN CHOOSE s \in Shipments : Holds(s, p) ELSE None
  BY DEF Holder
<1>2. CASE Held(p)
  <2>1. Holder[p] \in Shipments /\ Holds(Holder[p], p)
    BY <1>1, <1>2 DEF Held
  <2> QED BY <1>2, <2>1 DEF HeldOnce
<1>3. CASE ~Held(p)
  BY <1>1, <1>3, ConstantsAssumption DEF Held
<1> QED BY <1>2, <1>3

\* So it is after a step.
LEMMA HolderIsNext == HeldOnce' => HolderFacts'
  BY HolderIs, PTL

\* Parcels that keep what they hold leave the holder of a part alone.
LEMMA SameHolder ==
    ASSUME HolderFacts, HolderFacts', NEW p \in Parts,
           \A s \in Shipments : Holds(s, p)' <=> Holds(s, p)
    PROVE  Holder'[p] = Holder[p]
<1>1. CASE Held(p)
  <2>1. PICK s \in Shipments : Holds(s, p)
    BY <1>1 DEF Held
  <2> QED BY <2>1 DEF HolderFacts
<1>2. CASE ~Held(p)
  <2>1. ~Held(p)'
    BY <1>2 DEF Held
  <2> QED BY <1>2, <2>1 DEF HolderFacts
<1> QED BY <1>1, <1>2

\* A part that no parcel holds any more has no holder.
LEMMA NoHolder ==
    ASSUME HolderFacts', NEW p \in Parts, \A s \in Shipments : ~Holds(s, p)'
    PROVE  Holder'[p] = None
  BY DEF HolderFacts, Held

\* The ledger sees a step that keeps what is held and how far parcels are.
LEMMA HolderStays ==
    ASSUME HolderFacts, HolderFacts',
           \A s \in Shipments, p \in Parts : Holds(s, p)' <=> Holds(s, p)
    PROVE  Holder' = Holder
<1>1. \A p \in Parts : Holder'[p] = Holder[p]
  BY SameHolder
<1> QED BY <1>1 DEF Holder

\* Saving one row moves one parcel of the ledger.
LEMMA PhaseStep ==
    ASSUME TypeOK, NEW s \in Shipments, NEW row, Save(s, row)
    PROVE  Phase' = [Phase EXCEPT ![s] = PhaseOf(row)]
<1>1. \A z \in Shipments : shipments'[z] = IF z = s THEN row ELSE shipments[z]
  BY DEF Save, TypeOK
<1>2. \A z \in Shipments : Phase[z] = PhaseOf(shipments[z])
  BY DEF Phase
<1>3. Phase' = [z \in Shipments |-> PhaseOf(shipments'[z])]
  BY DEF Phase
<1>4. Phase' = [z \in Shipments |-> IF z = s THEN PhaseOf(row) ELSE Phase[z]]
  BY <1>1, <1>2, <1>3
<1> QED BY <1>4 DEF Phase

\* What one parcel lets go of is released.
LEMMA Released ==
    ASSUME HolderFacts, HolderFacts', HeldOnce, NEW P \in SUBSET Parts,
           \A p \in P, s \in Shipments : ~Holds(s, p)',
           \A p \in Parts \ P, s \in Shipments : Holds(s, p)' <=> Holds(s, p)
    PROVE  Ledger!Release(P)
<1>1. \A p \in P : Holder'[p] = None
  BY NoHolder
<1>2. \A p \in Parts \ P : Holder'[p] = Holder[p]
  BY SameHolder
<1>3. Holder' = [p \in Parts |-> Holder'[p]]
  BY DEF Holder
<1>4. Holder' = [p \in Parts |-> IF p \in P THEN None ELSE Holder[p]]
  BY <1>1, <1>2, <1>3
<1> QED BY <1>4 DEF Ledger!Release

\* What the desk is about to save over.
LEMMA DeskRow ==
    ASSUME RInv, NEW r \in Requests, req[r].op \in RowOperations
    PROVE  /\ req[r].ship \in Shipments /\ req[r].row \in PartShipment
           /\ shipments[req[r].ship] = req[r].row
           /\ req[r].row.status = Source(req[r].op) /\ ~req[r].row.deleted
           /\ Phase[req[r].ship] = Source(req[r].op)
<1>1. /\ req[r].ship \in Shipments /\ req[r].row \in PartShipment
      /\ shipments[req[r].ship] = req[r].row
      /\ req[r].row.status = Source(req[r].op) /\ ~req[r].row.deleted
  BY DEF RInv, HInv, IInv, TypeOK, Request, Snapshots, Fresh, LiveSnapshots
<1>2. Source(req[r].op) \in liveStatuses /\ Source(req[r].op) # "None"
  BY DEF Source, liveStatuses
<1> QED BY <1>1, <1>2 DEF Phase, PhaseOf

\* The ledger's contents of a parcel are the parts it holds.
LEMMA ContentsAre ==
    ASSUME HolderFacts, NEW s \in Shipments
    PROVE  Ledger!Contents(s) = {p \in Parts : Holds(s, p)}
  BY DEF HolderFacts, Ledger!Contents

\* A live parcel that ends: rejected, withdrawn or deleted.
LEMMA Voided ==
    ASSUME HolderFacts, HolderFacts', HeldOnce, TypeOK, NEW s \in Shipments,
           NEW row, Save(s, row), UNCHANGED items, row.status # "None",
           row.deleted \/ row.status \notin liveStatuses,
           Live(s), shipments[s].status \in liveStatuses
    PROVE  Ledger!Void(s)
<1>1. /\ Phase[s] \in Ledger!Phases \ {"unsent", "void"}
      /\ Phase' = [Phase EXCEPT ![s] = "void"]
  <2>1. Phase[s] \in liveStatuses
    BY DEF Phase, PhaseOf, Live
  <2>2. PhaseOf(row) = "void"
    BY DEF PhaseOf
  <2> QED BY <2>1, <2>2, PhaseStep DEF liveStatuses, Ledger!Phases
<1>2. Ledger!Release(Ledger!Contents(s))
  <2>1. PICK P : P = {p \in Parts : Holds(s, p)}
    OBVIOUS
  <2>2. /\ shipments'[s] = row
        /\ \A z \in Shipments \ {s} : shipments'[z] = shipments[z]
    BY DEF Save, TypeOK
  <2>3. \A p \in Parts : ~Holds(s, p)'
    BY <2>2 DEF Holds, Live
  <2>4. \A z \in Shipments \ {s}, p \in Parts : Holds(z, p)' <=> Holds(z, p)
    BY <2>2 DEF Holds, Live
  <2>5. \A p \in P, z \in Shipments : ~Holds(z, p)'
    BY <2>1, <2>3, <2>4 DEF HeldOnce
  <2>6. \A p \in Parts \ P, z \in Shipments : Holds(z, p)' <=> Holds(z, p)
    BY <2>1, <2>3, <2>4
  <2>7. Ledger!Release(P)
    BY <2>1, <2>5, <2>6, Released
  <2> QED BY <2>1, <2>7, ContentsAre
<1> QED BY <1>1, <1>2 DEF Ledger!Void, Ledger!Move

\* Nothing is sent at the start.
LEMMA LedgerInit == Init => Ledger!Init
<1> SUFFICES ASSUME Init PROVE Ledger!Init
  OBVIOUS
<1>1. \A s \in Shipments : shipments[s].status = "None"
  BY DEF Init, NoRow
<1>2. \A p \in Parts : ~Held(p)
  BY <1>1 DEF Held, Holds, Live
<1>3. Holder = [p \in Parts |-> None]
  BY <1>2 DEF Holder
<1>4. Phase = [s \in Shipments |-> "unsent"]
  BY <1>1 DEF Phase, PhaseOf
<1> QED BY <1>3, <1>4 DEF Ledger!Init

\* Every step of a request is a step of the ledger or none.
THEOREM LedgerStep ==
    RInv /\ RInv' /\ [Next]_vars /\ OneHandler => [Ledger!Next]_Ledger!vars
<1> SUFFICES ASSUME RInv, RInv', [Next]_vars, OneHandler
             PROVE  Ledger!Next \/ UNCHANGED <<Holder, Phase>>
  BY DEF Ledger!vars
<1>0. /\ TypeOK /\ HeldOnce /\ HolderFacts /\ HolderFacts'
  BY HolderIs, HolderIsNext DEF RInv, HInv, IInv
<1>1. CASE UNCHANGED <<shipments, items>>
  BY <1>1 DEF Holder, Phase, Held, Holds, Live
<1>2. ASSUME NEW r \in Requests, NEW s \in Shipments, InsertShipment(r, s)
      PROVE  Ledger!Next
  <2> DEFINE row == [NoRow EXCEPT !.technician = req[r].technician, !.status = "Sent"]
  <2>1. PICK P \in SUBSET Parts : P = req[r].parts
    BY <1>0 DEF TypeOK, Request
  <2>2. P # {} /\ \A p \in P, z \in Shipments : ~Holds(z, p)
    BY <1>2, <2>1
    DEF InsertShipment, At, RInv, HInv, FilesSomething, FreeParts
  <2>3. Save(s, row) /\ shipments[s].status = "None"
    BY <1>2 DEF InsertShipment
  <2>4. row.status = "Sent" /\ ~row.deleted
    BY DEF NoRow
  <2>5. \A z \in Shipments, p \in Parts :
            items'[z][p].received = IF z # s THEN items[z][p].received
                                    ELSE IF p \in P THEN "unknown" ELSE "none"
    BY <1>0, <1>2, <2>1 DEF InsertShipment, TypeOK, NoItem
  <2> HIDE DEF row
  <2>6. \A z \in Shipments : shipments'[z] = IF z = s THEN row ELSE shipments[z]
    BY <1>0, <2>3 DEF Save, TypeOK
  <2>7. \A p \in Parts : Holds(s, p)' <=> p \in P
    BY <2>4, <2>5, <2>6 DEF Holds, Live, liveStatuses
  <2>8. \A z \in Shipments \ {s}, p \in Parts : Holds(z, p)' <=> Holds(z, p)
    BY <2>5, <2>6 DEF Holds, Live
  <2>9. \A p \in Parts : ~Holds(s, p)
    BY <2>3 DEF Holds, Live
  <2>10. \A p \in P : Holder[p] = None /\ Holder'[p] = s
    BY <1>0, <2>2, <2>7 DEF HolderFacts, Held
  <2>11. \A p \in Parts \ P : Holder'[p] = Holder[p]
    BY <1>0, <2>7, <2>8, <2>9, SameHolder
  <2>12. Holder' = [p \in Parts |-> IF p \in P THEN s ELSE Holder[p]]
    <3>1. Holder' = [p \in Parts |-> Holder'[p]]
      BY DEF Holder
    <3> QED BY <2>10, <2>11, <3>1
  <2>13. Phase[s] = "unsent" /\ Phase' = [Phase EXCEPT ![s] = "Sent"]
    <3>1. PhaseOf(row) = "Sent" /\ Phase[s] = "unsent"
      BY <2>3, <2>4 DEF PhaseOf, Phase, liveStatuses
    <3> QED BY <1>0, <2>3, <3>1, PhaseStep
  <2>14. Ledger!Send(s, P)
    BY <2>2, <2>10, <2>12, <2>13 DEF Ledger!Send, Ledger!Move
  <2> QED BY <2>14 DEF Ledger!Next
<1>3. ASSUME NEW r \in Requests, NEW arrived \in SUBSET Parts, SaveReceipt(r, arrived)
      PROVE  Ledger!Next
  <2> DEFINE row == [req[r].row EXCEPT !.status = "Received", !.receivedAt = TRUE]
  <2>0. PICK s : s = req[r].ship
    OBVIOUS
  <2>1. req[r].op = "receive" /\ req[r].op \in RowOperations
    BY <1>3 DEF SaveReceipt, At, RowOperations
  <2>2. /\ s \in Shipments /\ shipments[s] = req[r].row /\ Phase[s] = "Sent"
        /\ req[r].row \in PartShipment /\ req[r].row.status = "Sent"
        /\ ~req[r].row.deleted
    BY <2>0, <2>1, DeskRow DEF Source
  <2>3. Save(s, row) /\ row.status = "Received" /\ ~row.deleted
    BY <1>3, <2>0, <2>2 DEF SaveReceipt, PartShipment
  <2> HIDE DEF row
  <2>4. req[r].items = items[s]
    BY <1>3, <2>0, <2>1 DEF SaveReceipt, At, RInv, LoadedFresh
  <2>5. PICK L \in SUBSET Parts : L = LinesOf(items[s])
    BY DEF LinesOf
  <2>6. arrived # {} /\ arrived \subseteq L
    BY <1>3, <2>4, <2>5 DEF SaveReceipt
  <2>7. \A z \in Shipments : shipments'[z] = IF z = s THEN row ELSE shipments[z]
    BY <1>0, <2>3 DEF Save, TypeOK
  <2>8. /\ \A z \in Shipments \ {s} : items'[z] = items[z]
        /\ \A p \in Parts : items'[s][p].received =
               IF p \in L THEN IF p \in arrived THEN "yes" ELSE "no" ELSE "none"
    <3>1. \A p \in Parts : p \in L <=> items[s][p].received # "none"
      BY <2>5 DEF LinesOf
    <3>2. \A p \in Parts : items[s][p] \in PartShipmentItem
      BY <1>0, <2>2 DEF TypeOK
    <3>3. items' = [items EXCEPT ![s] = [p \in Parts |->
              IF p \in L
              THEN [items[s][p] EXCEPT !.received = IF p \in arrived THEN "yes" ELSE "no"]
              ELSE items[s][p]]]
      BY <1>3, <2>0, <2>4, <2>5 DEF SaveReceipt, UpdateLines
    <3> QED BY <1>0, <2>2, <3>1, <3>2, <3>3 DEF TypeOK, PartShipmentItem
  <2>9. \A p \in Parts : Holds(s, p) <=> p \in L
    <3>1. \A p \in Parts : items[s][p].received \in {"none", "unknown"}
      BY <2>2 DEF RInv, HInv, Undecided
    <3> QED BY <2>2, <2>5, <3>1 DEF Holds, Live, liveStatuses, LinesOf
  <2>10. \A p \in Parts : Holds(s, p)' <=> p \in arrived
    BY <2>2, <2>3, <2>6, <2>7, <2>8 DEF Holds, Live, liveStatuses
  <2>11. \A z \in Shipments \ {s}, p \in Parts : Holds(z, p)' <=> Holds(z, p)
    BY <2>7, <2>8 DEF Holds, Live
  <2>12. PICK lost \in SUBSET Parts : lost = L \ arrived
    BY <2>5
  <2>13. lost \subseteq Ledger!Contents(s) /\ lost # Ledger!Contents(s)
    <3>1. Ledger!Contents(s) = L
      BY <1>0, <2>2, <2>9, ContentsAre
    <3> QED BY <2>6, <2>12, <3>1
  <2>14. Ledger!Release(lost)
    <3>1. \A p \in lost, z \in Shipments : ~Holds(z, p)'
      BY <1>0, <2>2, <2>9, <2>10, <2>11, <2>12 DEF HeldOnce
    <3>2. \A p \in Parts \ lost, z \in Shipments : Holds(z, p)' <=> Holds(z, p)
      BY <2>6, <2>9, <2>10, <2>11, <2>12
    <3> QED BY <1>0, <3>1, <3>2, Released
  <2>15. Phase' = [Phase EXCEPT ![s] = "Received"]
    <3>1. PhaseOf(row) = "Received"
      BY <2>3 DEF PhaseOf, liveStatuses
    <3> QED BY <1>0, <2>2, <2>3, <3>1, PhaseStep
  <2>16. Ledger!Receive(s, lost)
    BY <2>2, <2>13, <2>14, <2>15 DEF Ledger!Receive, Ledger!Move
  <2> QED BY <2>2, <2>16 DEF Ledger!Next
<1>4. ASSUME NEW r \in Requests, NEW price \in [Parts -> Prices], SaveInvoice(r, price)
      PROVE  Ledger!Next
  <2> DEFINE row == [req[r].row EXCEPT !.status = "Invoiced", !.invoicedAt = TRUE,
                                       !.total = InvoiceTotal(price)]
  <2>0. PICK s : s = req[r].ship
    OBVIOUS
  <2>1. req[r].op = "invoice" /\ req[r].op \in RowOperations
    BY <1>4 DEF SaveInvoice, At, RowOperations
  <2>2. /\ s \in Shipments /\ shipments[s] = req[r].row /\ Phase[s] = "Received"
        /\ req[r].row \in PartShipment /\ req[r].row.status = "Received"
        /\ ~req[r].row.deleted
    BY <2>0, <2>1, DeskRow DEF Source
  <2>3. Save(s, row) /\ row.status = "Invoiced" /\ ~row.deleted
    BY <1>4, <2>0, <2>2 DEF SaveInvoice, PartShipment
  <2> HIDE DEF row
  <2>4. req[r].items = items[s]
    BY <1>4, <2>0, <2>1 DEF SaveInvoice, At, RInv, LoadedFresh
  <2>5. \A z \in Shipments : shipments'[z] = IF z = s THEN row ELSE shipments[z]
    BY <1>0, <2>3 DEF Save, TypeOK
  <2>6. \A z \in Shipments, p \in Parts : items'[z][p].received = items[z][p].received
    BY <1>0, <1>4, <2>0, <2>2 DEF SaveInvoice, UpdateLines, TypeOK, PartShipmentItem
  <2>7. \A z \in Shipments, p \in Parts : Holds(z, p)' <=> Holds(z, p)
    BY <2>2, <2>3, <2>5, <2>6 DEF Holds, Live, liveStatuses
  <2>8. Holder' = Holder
    BY <1>0, <2>7, HolderStays
  <2>9. Ledger!Contents(s) # {}
    <3>1. PICK p \in Parts : price[p] # 0
      BY <1>4, PositiveTotal DEF SaveInvoice
    <3>2. p \in Arrived(items[s])
      BY <1>4, <2>4, <3>1 DEF SaveInvoice
    <3>3. Holds(s, p)
      BY <2>2, <3>2 DEF Arrived, Holds, Live, liveStatuses
    <3> QED BY <1>0, <2>2, <3>1, <3>3, ContentsAre
  <2>10. Phase' = [Phase EXCEPT ![s] = "Invoiced"]
    <3>1. PhaseOf(row) = "Invoiced"
      BY <2>3 DEF PhaseOf, liveStatuses
    <3> QED BY <1>0, <2>2, <2>3, <3>1, PhaseStep
  <2>11. Ledger!Invoice(s)
    BY <2>2, <2>8, <2>9, <2>10 DEF Ledger!Invoice, Ledger!Move
  <2> QED BY <2>2, <2>11 DEF Ledger!Next
<1>5. ASSUME NEW r \in Requests, SavePayment(r) PROVE Ledger!Next
  <2> DEFINE row == [req[r].row EXCEPT !.status = "Paid", !.paidAt = TRUE]
  <2>0. PICK s : s = req[r].ship
    OBVIOUS
  <2>1. req[r].op = "pay" /\ req[r].op \in RowOperations
    BY <1>5 DEF SavePayment, At, RowOperations
  <2>2. /\ s \in Shipments /\ shipments[s] = req[r].row /\ Phase[s] = "Invoiced"
        /\ req[r].row \in PartShipment /\ req[r].row.status = "Invoiced"
        /\ ~req[r].row.deleted
    BY <2>0, <2>1, DeskRow DEF Source
  <2>3. Save(s, row) /\ row.status = "Paid" /\ ~row.deleted /\ items' = items
    BY <1>5, <2>0, <2>2 DEF SavePayment, PartShipment
  <2> HIDE DEF row
  <2>4. \A z \in Shipments : shipments'[z] = IF z = s THEN row ELSE shipments[z]
    BY <1>0, <2>3 DEF Save, TypeOK
  <2>5. \A z \in Shipments, p \in Parts : Holds(z, p)' <=> Holds(z, p)
    BY <2>2, <2>3, <2>4 DEF Holds, Live, liveStatuses
  <2>6. Holder' = Holder
    BY <1>0, <2>5, HolderStays
  <2>7. Phase' = [Phase EXCEPT ![s] = "Paid"]
    <3>1. PhaseOf(row) = "Paid"
      BY <2>3 DEF PhaseOf, liveStatuses
    <3> QED BY <1>0, <2>2, <2>3, <3>1, PhaseStep
  <2>8. Ledger!Pay(s)
    BY <2>2, <2>6, <2>7 DEF Ledger!Pay, Ledger!Move
  <2> QED BY <2>2, <2>8 DEF Ledger!Next
<1>6. ASSUME NEW r \in Requests, SaveWithdrawal(r) PROVE Ledger!Next
  <2> DEFINE row == [req[r].row EXCEPT !.status = Target(req[r].op)]
  <2>0. PICK s : s = req[r].ship
    OBVIOUS
  <2>1. req[r].op \in {"cancel", "reject"} /\ req[r].op \in RowOperations
    BY <1>6 DEF SaveWithdrawal, At, RowOperations
  <2>2. /\ s \in Shipments /\ shipments[s] = req[r].row
        /\ req[r].row \in PartShipment /\ req[r].row.status = "Sent"
        /\ ~req[r].row.deleted
    BY <2>0, <2>1, DeskRow DEF Source
  <2>3. Target(req[r].op) \in {"Cancelled", "Rejected"}
    BY <2>1 DEF Target
  <2>4. Save(s, row) /\ row.status \in {"Cancelled", "Rejected"} /\ items' = items
    BY <1>6, <2>0, <2>2, <2>3 DEF SaveWithdrawal, PartShipment
  <2> HIDE DEF row
  <2>5. row.status # "None" /\ row.status \notin liveStatuses
    BY <2>4 DEF liveStatuses
  <2>6. Live(s) /\ shipments[s].status \in liveStatuses
    BY <2>2 DEF Live, liveStatuses
  <2>7. Ledger!Void(s)
    BY <1>0, <2>2, <2>4, <2>5, <2>6, Voided
  <2> QED BY <2>2, <2>7 DEF Ledger!Next
<1>7. ASSUME NEW r \in Requests, NEW s \in Shipments, DeleteShipment(r, s)
      PROVE  Ledger!Next \/ UNCHANGED <<Holder, Phase>>
  <2> DEFINE row == [shipments[s] EXCEPT !.deleted = TRUE]
  <2>1. Save(s, row) /\ Live(s) /\ items' = items
    BY <1>7 DEF DeleteShipment
  <2>2. row.status = shipments[s].status /\ row.deleted /\ row.status # "None"
    BY <1>0, <2>1 DEF TypeOK, PartShipment, Live
  <2> HIDE DEF row
  <2>3. CASE shipments[s].status \in liveStatuses
    <3>1. Ledger!Void(s)
      BY <1>0, <2>1, <2>2, <2>3, Voided
    <3> QED BY <3>1 DEF Ledger!Next
  <2>4. CASE shipments[s].status \notin liveStatuses
    <3>1. \A z \in Shipments : shipments'[z] = IF z = s THEN row ELSE shipments[z]
      BY <1>0, <2>1 DEF Save, TypeOK
    <3>2. \A z \in Shipments, p \in Parts : Holds(z, p)' <=> Holds(z, p)
      BY <2>1, <2>2, <2>4, <3>1 DEF Holds, Live
    <3>3. \A z \in Shipments : PhaseOf(shipments'[z]) = PhaseOf(shipments[z])
      BY <2>1, <2>2, <2>4, <3>1 DEF PhaseOf, Live
    <3>4. Holder' = Holder
      BY <1>0, <3>2, HolderStays
    <3>5. Phase' = Phase
      BY <3>3 DEF Phase
    <3> QED BY <3>4, <3>5
  <2> QED BY <2>3, <2>4
<1>8. ASSUME NEW r \in Requests, NEW s \in Shipments, RestoreShipment(r, s)
      PROVE  FALSE
  BY <1>8 DEF RestoreShipment, Starts, OneHandler
<1>9. ASSUME NEW r \in Requests, DeleteRepair(r)
      PROVE  Ledger!Next
  <2>1. /\ Phase' = Phase
        /\ \A s \in Shipments, p \in Parts : items'[s][p] =
               IF <<s, p>> \in req[r].lines THEN NoItem ELSE items[s][p]
    BY <1>9 DEF DeleteRepair, Phase
  <2>2. PICK P \in SUBSET Parts :
            P = {p \in Parts : \E s \in Shipments : Holds(s, p) /\ <<s, p>> \in req[r].lines}
    OBVIOUS
  <2>3. \A s \in Shipments, p \in Parts :
            Holds(s, p)' <=> Holds(s, p) /\ <<s, p>> \notin req[r].lines
    BY <1>9, <2>1 DEF Holds, Live, DeleteRepair, NoItem
  <2>4. \A p \in P, s \in Shipments : ~Holds(s, p)'
    BY <1>0, <2>2, <2>3 DEF HeldOnce
  <2>5. \A p \in Parts \ P, s \in Shipments : Holds(s, p)' <=> Holds(s, p)
    BY <2>2, <2>3
  <2>6. Ledger!Release(P)
    BY <1>0, <2>4, <2>5, Released
  <2> QED BY <2>1, <2>6 DEF Ledger!Next, Ledger!Forget
<1> QED
  BY <1>1, <1>2, <1>3, <1>4, <1>5, <1>6, <1>7, <1>8, <1>9
  DEF Next, ShipmentStep, RepairStep, vars, LockParts, VerifyOwnStandingRepairs,
      VerifyNotHeld, FindShipment, LoadItems, FindRepair, SaveRepair,
      CheckShippedParts, RestoreRepair, Abandon

\* The refinement, for any number of parcels, parts and requests that file
\* parcels at once: a part is in the hands of one parcel, an invoiced parcel
\* contains something, and a parcel only moves forward until it is void.
THEOREM LedgerHolds == ASSUME OneHandler PROVE Spec => LedgerSpec
<1>1. RInv /\ [Next]_vars => RInv'
  BY OneHandlerIsOneDesk, RInvNext
<1>2. RInv /\ RInv' /\ [Next]_vars => [Ledger!Next]_Ledger!vars
  BY LedgerStep
<1> QED BY <1>1, <1>2, RInvInit, LedgerInit, PTL DEF Spec, LedgerSpec, Ledger!Spec
=============================================================================
