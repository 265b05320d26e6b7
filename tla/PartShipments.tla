---------------------------- MODULE PartShipments ----------------------------
(***************************************************************************)
(* Sending replaced parts back to the company: the technician's parcels,   *)
(* their receipt, invoice and payment, and the repair reports the parts    *)
(* came out of (internal/modules/partshipments, and from                   *)
(* internal/modules/repairs and internal/modules/trash the handlers that   *)
(* change what a parcel may hold).                                         *)
(*                                                                         *)
(* Every HTTP request runs in its own goroutine and talks to PostgreSQL    *)
(* under READ COMMITTED.  A handler that reads a row, checks it and then   *)
(* saves it outside one transaction is therefore split where it leaves the *)
(* database: the row it read travels in req[r] until it is saved.  Several *)
(* writes of one transaction are a single step, because nobody sees them   *)
(* before the commit.  A handler that refuses changes nothing, so only the *)
(* accepting path of a check is an action.                                 *)
(***************************************************************************)
EXTENDS Integers, FiniteSets, FiniteSetsExt

CONSTANTS Shipments,   \* ids of part_shipments rows
          Parts,       \* repair_component_items rows: one physical part each
          Repairs,     \* repairs rows
          Techs,       \* technicians
          RepairOf,    \* the repair report a part came out of
          TechOf,      \* the technician who filed a repair
          Prices,      \* unit prices an admin may type
          Requests,    \* requests that may be in flight together
          Serves,      \* which operations each of them may be
          None         \* "no such thing"

Operations == {"create", "cancel", "receive", "invoice", "pay", "reject",
               "delete", "restore", "approve", "refuse", "cancelRepair",
               "deleteRepair", "forceDeleteRepair", "restoreRepair"}

ASSUME ConstantsAssumption ==
    /\ IsFiniteSet(Parts)
    /\ RepairOf \in [Parts -> Repairs]
    /\ TechOf \in [Repairs -> Techs]
    /\ Prices \subseteq Nat
    /\ 0 \in Prices
    /\ Serves \in [Requests -> SUBSET Operations]
    /\ None \notin Shipments \union Repairs \union Techs

RowOperations == {"cancel", "receive", "invoice", "pay", "reject"}

\* A workload in which parcels are handled one request at a time and none is
\* brought back from the bin; parcels may still be filed by many at once.
OneDesk == \E d \in Requests :
    /\ "restore" \notin Serves[d]
    /\ \A r \in Requests \ {d} :
           Serves[r] \intersect (RowOperations \union {"delete", "restore"}) = {}

VARIABLES shipments,   \* part_shipments
          items,       \* part_shipment_items, by shipment and part
          repairs,     \* repairs: status and deleted_at
          payouts,     \* history: how often a payment was recorded (2 = again)
          req          \* the requests in flight and what they have read

vars == <<shipments, items, repairs, payouts, req>>

-----------------------------------------------------------------------------
(* Rows *)

Statuses == {"Sent", "Received", "Invoiced", "Paid", "Rejected", "Cancelled"}

liveStatuses == {"Sent", "Received", "Invoiced", "Paid"}

\* Mutant: a received parcel may be paid without an invoice.
SkipTheInvoice == [from \in Statuses |->
    CASE from = "Sent"     -> {"Received", "Rejected", "Cancelled"}
      [] from = "Received" -> {"Invoiced", "Paid"}
      [] from = "Invoiced" -> {"Paid"}
      [] OTHER             -> {}]

\* Mutant: a paid parcel may be marked paid again.
PayAgain == [from \in Statuses |->
    CASE from = "Sent"              -> {"Received", "Rejected", "Cancelled"}
      [] from = "Received"          -> {"Invoiced"}
      [] from \in {"Invoiced", "Paid"} -> {"Paid"}
      [] OTHER                      -> {}]

allowedTransitions == [from \in Statuses |->
    CASE from = "Sent"     -> {"Received", "Rejected", "Cancelled"}
      [] from = "Received" -> {"Invoiced"}
      [] from = "Invoiced" -> {"Paid"}
      [] OTHER             -> {}]

\* Mutant: the price of one line, not the sum.
LastPrice(price) == price[CHOOSE p \in DOMAIN price : TRUE]

\* invoice_total, computed by the server from the prices of the request.
InvoiceTotal(price) == MapThenSumSet(LAMBDA p : price[p], DOMAIN price)

Totals == {0} \union {InvoiceTotal(f) : f \in [Parts -> Prices]}

\* The timestamps of a row only as "set or not": nothing compares them.
PartShipment == [technician : Techs \union {None},
                 status     : Statuses \union {"None"},
                 receivedAt : BOOLEAN, invoicedAt : BOOLEAN, paidAt : BOOLEAN,
                 total      : Totals,
                 deleted    : BOOLEAN]

NoRow == [technician |-> None, status |-> "None", receivedAt |-> FALSE,
          invoicedAt |-> FALSE, paidAt |-> FALSE, total |-> 0,
          deleted |-> FALSE]

\* received: NULL ("unknown") until the receipt is recorded, then yes or no.
PartShipmentItem == [received : {"none", "unknown", "yes", "no"}, price : Prices]

NoItem == [received |-> "none", price |-> 0]
NoItems == [p \in Parts |-> NoItem]

LinesOf(rows) == {p \in Parts : rows[p].received # "none"}
Arrived(rows) == {p \in Parts : rows[p].received = "yes"}

RepairRow == [status : {"Pending", "Approved", "Rejected", "Cancelled"},
              deleted : BOOLEAN]

\* What gorm's First and the raw queries with "deleted_at IS NULL" can see.
Live(s) == shipments[s].status # "None" /\ ~shipments[s].deleted

\* heldByLiveShipment: a line recorded as not received is released.
Holds(s, p) == /\ Live(s)
               /\ shipments[s].status \in liveStatuses
               /\ items[s][p].received \in {"unknown", "yes"}

Held(p) == \E s \in Shipments : Holds(s, p)

\* Only repairs that still stand count.
Standing(x) == ~repairs[x].deleted /\ repairs[x].status \in {"Pending", "Approved"}

-----------------------------------------------------------------------------
(* Requests in flight *)

Idle == [op |-> "none", at |-> "idle", technician |-> None, parts |-> {},
         ship |-> None, row |-> NoRow, items |-> NoItems,
         repair |-> None, lines |-> {}]

Request == [op : Operations \union {"none"},
            at : {"idle", "locked", "verified", "free", "found", "loaded"},
            technician : Techs \union {None}, parts : SUBSET Parts,
            ship : Shipments \union {None}, row : PartShipment,
            items : [Parts -> PartShipmentItem],
            repair : Repairs \union {None}, lines : SUBSET (Shipments \X Parts)]

Starts(r, op) == req[r].at = "idle" /\ op \in Serves[r]
At(r, ops, point) == req[r].op \in ops /\ req[r].at = point
Advance(r, point) == req' = [req EXCEPT ![r].at = point]
Finish(r) == req' = [req EXCEPT ![r] = Idle]

\* Mutant: the rows are read without FOR UPDATE.
NoRowLock == {}

\* Rows under SELECT ... FOR UPDATE, released when the transaction ends.
LockedParts == UNION {req[q].parts : q \in Requests}

\* gorm's Save: UPDATE every column WHERE id = ? AND deleted_at IS NULL, and
\* when that hits no row, INSERT ... ON CONFLICT (id) DO UPDATE every column.
\* Either way the whole row becomes the one in memory, deleted_at included.
Save(s, row) == shipments' = [shipments EXCEPT ![s] = row]

-----------------------------------------------------------------------------
(* CreateByTechnician: one transaction, statement by statement *)

LockParts(r, t, P) ==
    /\ Starts(r, "create")
    /\ P # {}
    /\ P \intersect LockedParts = {}
    /\ req' = [req EXCEPT ![r] =
                 [Idle EXCEPT !.op = "create", !.at = "locked",
                              !.technician = t, !.parts = P]]
    /\ UNCHANGED <<shipments, items, repairs, payouts>>

VerifyOwnStandingRepairs(r) ==
    /\ At(r, {"create"}, "locked")
    /\ \A p \in req[r].parts : /\ Standing(RepairOf[p])
                               /\ TechOf[RepairOf[p]] = req[r].technician
    /\ Advance(r, "verified")
    /\ UNCHANGED <<shipments, items, repairs, payouts>>

VerifyNotHeld(r) ==
    /\ At(r, {"create"}, "verified")
    /\ \A p \in req[r].parts : ~Held(p)
    /\ Advance(r, "free")
    /\ UNCHANGED <<shipments, items, repairs, payouts>>

InsertShipment(r, s) ==
    /\ At(r, {"create"}, "free")
    /\ shipments[s].status = "None"
    /\ Save(s, [NoRow EXCEPT !.technician = req[r].technician, !.status = "Sent"])
    /\ items' = [items EXCEPT ![s] =
                   [p \in Parts |-> IF p \in req[r].parts
                                    THEN [NoItem EXCEPT !.received = "unknown"]
                                    ELSE NoItem]]
    /\ Finish(r)
    /\ UNCHANGED <<repairs, payouts>>

-----------------------------------------------------------------------------
(* CancelByTechnician, Receive, Invoice, Pay, Reject: find, check, save *)

\* Mutant: a withdrawal writes a status the column's CHECK does not know.
UnknownStatus(op) ==
    CASE op = "cancel"  -> "Withdrawn" [] op = "receive" -> "Received"
      [] op = "invoice" -> "Invoiced"  [] op = "pay"     -> "Paid"
      [] op = "reject"  -> "Rejected"

Target(op) == CASE op = "cancel"  -> "Cancelled" [] op = "receive" -> "Received"
                [] op = "invoice" -> "Invoiced"  [] op = "pay"     -> "Paid"
                [] op = "reject"  -> "Rejected"

\* Mutant: a parcel can be withdrawn until it is paid for.
WithdrawUntilPaid(op, row) ==
    IF op = "cancel" THEN row.status \in {"Sent", "Received", "Invoiced"}
                     ELSE Target(op) \in allowedTransitions[row.status]

\* The technician's own withdrawal has its own test instead of the table.
MayStart(op, row) ==
    IF op = "cancel" THEN row.status = "Sent"
                     ELSE Target(op) \in allowedTransitions[row.status]

FindShipment(r, op, s) ==
    /\ Starts(r, op)
    /\ Live(s)
    /\ MayStart(op, shipments[s])
    /\ req' = [req EXCEPT ![r] = [Idle EXCEPT !.op = op, !.at = "found",
                                              !.ship = s, !.row = shipments[s]]]
    /\ UNCHANGED <<shipments, items, repairs, payouts>>

\* The lines are read by a second query, and the request is checked on them.
LoadItems(r) ==
    /\ At(r, {"receive", "invoice"}, "found")
    /\ req' = [req EXCEPT ![r].at = "loaded", ![r].items = items[req[r].ship]]
    /\ UNCHANGED <<shipments, items, repairs, payouts>>

\* An UPDATE by line id finds nothing when the line is gone.
UpdateLines(s, P, line) ==
    items' = [items EXCEPT ![s] =
        [p \in Parts |-> IF p \in P \intersect LinesOf(items[s])
                         THEN line[p] ELSE items[s][p]]]

SaveReceipt(r, arrived) ==
    /\ At(r, {"receive"}, "loaded")
    /\ arrived # {}
    /\ arrived \subseteq LinesOf(req[r].items)
    /\ UpdateLines(req[r].ship, LinesOf(req[r].items),
                   [p \in Parts |-> [items[req[r].ship][p] EXCEPT !.received =
                                       IF p \in arrived THEN "yes" ELSE "no"]])
    /\ Save(req[r].ship, [req[r].row EXCEPT !.status = "Received",
                                            !.receivedAt = TRUE])
    /\ Finish(r)
    /\ UNCHANGED <<repairs, payouts>>

SaveInvoice(r, price) ==
    /\ At(r, {"invoice"}, "loaded")
    /\ \A p \in Parts \ Arrived(req[r].items) : price[p] = 0
    /\ InvoiceTotal(price) > 0
    /\ UpdateLines(req[r].ship, Arrived(req[r].items),
                   [p \in Parts |->
                     [items[req[r].ship][p] EXCEPT !.price = price[p]]])
    /\ Save(req[r].ship, [req[r].row EXCEPT !.status = "Invoiced",
                                            !.invoicedAt = TRUE,
                                            !.total = InvoiceTotal(price)])
    /\ Finish(r)
    /\ UNCHANGED <<repairs, payouts>>

SavePayment(r) ==
    /\ At(r, {"pay"}, "found")
    /\ Save(req[r].ship, [req[r].row EXCEPT !.status = "Paid", !.paidAt = TRUE])
    /\ payouts' = [payouts EXCEPT ![req[r].ship] = IF @ = 0 THEN 1 ELSE 2]
    /\ Finish(r)
    /\ UNCHANGED <<items, repairs>>

SaveWithdrawal(r) ==
    /\ At(r, {"cancel", "reject"}, "found")
    /\ Save(req[r].ship, [req[r].row EXCEPT !.status = Target(req[r].op)])
    /\ Finish(r)
    /\ UNCHANGED <<items, repairs, payouts>>

\* Delete, from any status: both its statements ask only that the row is live.
DeleteShipment(r, s) ==
    /\ Starts(r, "delete")
    /\ Live(s)
    /\ Save(s, [shipments[s] EXCEPT !.deleted = TRUE])
    /\ UNCHANGED <<items, repairs, payouts, req>>

\* The bin puts a parcel back when its technician still exists.
RestoreShipment(r, s) ==
    /\ Starts(r, "restore")
    /\ shipments[s].deleted
    /\ Save(s, [shipments[s] EXCEPT !.deleted = FALSE])
    /\ UNCHANGED <<items, repairs, payouts, req>>

-----------------------------------------------------------------------------
(* The repair reports: Review, Cancel, Delete and their restore *)

RepairOperations == {"approve", "refuse", "cancelRepair"}

Verdict(op) == CASE op = "approve" -> "Approved" [] op = "refuse" -> "Rejected"
                 [] op = "cancelRepair" -> "Cancelled"

FindRepair(r, op, x) ==
    /\ Starts(r, op)
    /\ ~repairs[x].deleted
    /\ IF op = "cancelRepair" THEN repairs[x].status \in {"Pending", "Approved"}
                              ELSE repairs[x].status = "Pending"
    /\ req' = [req EXCEPT ![r] =
                 [Idle EXCEPT !.op = op, !.at = "found", !.repair = x]]
    /\ UNCHANGED <<shipments, items, repairs, payouts>>

\* Save writes the whole row here too, so a deleted repair comes back.
SaveRepair(r) ==
    /\ At(r, RepairOperations, "found")
    /\ repairs' = [repairs EXCEPT ![req[r].repair] =
                     [status |-> Verdict(req[r].op), deleted |-> FALSE]]
    /\ Finish(r)
    /\ UNCHANGED <<shipments, items, payouts>>

\* Lines of every parcel, deleted parcels included, that hold a part of x.
ShippedLines(x) ==
    {l \in Shipments \X Parts : /\ items[l[1]][l[2]].received # "none"
                                /\ RepairOf[l[2]] = x}

DeleteOperations == {"deleteRepair", "forceDeleteRepair"}

CheckShippedParts(r, op, x) ==
    /\ Starts(r, op)
    /\ ~repairs[x].deleted
    /\ op = "deleteRepair" => ShippedLines(x) = {}
    /\ req' = [req EXCEPT ![r] = [Idle EXCEPT !.op = op, !.at = "found",
                                  !.repair = x, !.lines = ShippedLines(x)]]
    /\ UNCHANGED <<shipments, items, repairs, payouts>>

DeleteRepair(r) ==
    /\ At(r, DeleteOperations, "found")
    /\ items' = [s \in Shipments |-> [p \in Parts |->
                   IF <<s, p>> \in req[r].lines THEN NoItem ELSE items[s][p]]]
    /\ repairs' = [repairs EXCEPT ![req[r].repair].deleted = TRUE]
    /\ Finish(r)
    /\ UNCHANGED <<shipments, payouts>>

RestoreRepair(r, x) ==
    /\ Starts(r, "restoreRepair")
    /\ repairs[x].deleted
    /\ repairs' = [repairs EXCEPT ![x].deleted = FALSE]
    /\ UNCHANGED <<shipments, items, payouts, req>>

-----------------------------------------------------------------------------

\* A check that fails, a database error, a lost connection or a restart of the
\* server ends a request: its transaction rolls back, what it read is gone.
Abandon(r) ==
    /\ req[r].at # "idle"
    /\ Finish(r)
    /\ UNCHANGED <<shipments, items, repairs, payouts>>

Init ==
    /\ shipments = [s \in Shipments |-> NoRow]
    /\ items = [s \in Shipments |-> NoItems]
    /\ repairs = [x \in Repairs |-> [status |-> "Pending", deleted |-> FALSE]]
    /\ payouts = [s \in Shipments |-> 0]
    /\ req = [r \in Requests |-> Idle]

ShipmentStep(r) ==
    \/ \E t \in Techs, P \in SUBSET Parts : LockParts(r, t, P)
    \/ VerifyOwnStandingRepairs(r)
    \/ VerifyNotHeld(r)
    \/ \E s \in Shipments : InsertShipment(r, s)
    \/ \E op \in RowOperations, s \in Shipments : FindShipment(r, op, s)
    \/ LoadItems(r)
    \/ \E arrived \in SUBSET Parts : SaveReceipt(r, arrived)
    \/ \E price \in [Parts -> Prices] : SaveInvoice(r, price)
    \/ SavePayment(r)
    \/ SaveWithdrawal(r)
    \/ \E s \in Shipments : DeleteShipment(r, s)
    \/ \E s \in Shipments : RestoreShipment(r, s)

RepairStep(r) ==
    \/ \E op \in RepairOperations, x \in Repairs : FindRepair(r, op, x)
    \/ SaveRepair(r)
    \/ \E op \in DeleteOperations, x \in Repairs : CheckShippedParts(r, op, x)
    \/ DeleteRepair(r)
    \/ \E x \in Repairs : RestoreRepair(r, x)

Next == \E r \in Requests : ShipmentStep(r) \/ RepairStep(r) \/ Abandon(r)

Spec == Init /\ [][Next]_vars

-----------------------------------------------------------------------------
(* Properties *)

\* Every variable keeps its type, the snapshots in flight included.
TypeOK ==
    /\ shipments \in [Shipments -> PartShipment]
    /\ items \in [Shipments -> [Parts -> PartShipmentItem]]
    /\ repairs \in [Repairs -> RepairRow]
    /\ payouts \in [Shipments -> 0..2]
    /\ req \in [Requests -> Request]

\* What a row of each status must carry: only an invoiced parcel has an amount,
\* and a paid one went through a receipt and an invoice with a positive total.
Consistent(row) ==
    /\ row.receivedAt <=> row.status \in {"Received", "Invoiced", "Paid"}
    /\ row.invoicedAt <=> row.status \in {"Invoiced", "Paid"}
    /\ row.paidAt <=> row.status = "Paid"
    /\ row.total > 0 <=> row.status \in {"Invoiced", "Paid"}

\* However requests race, and whatever they overwrite, revive or restore, no
\* parcel is ever left paid without an invoice, invoiced without a receipt, or
\* carrying an amount nobody invoiced: each Save writes a whole row that a
\* guard let through (Receive, Invoice, Pay, Reject, CancelByTechnician).
MoneyTrail == \A s \in Shipments : Consistent(shipments[s])

\* "A part can only be in one live shipment": the row locks and the second
\* look at the lines in CreateByTechnician keep it so for any number of
\* parcels filed at once.
HeldOnce == \A s, z \in Shipments, p \in Parts : Holds(s, p) /\ Holds(z, p) => s = z

\* "Money must move strictly forward": a status only moves one step along
\* Sent, Received, Invoiced, Paid, or leaves Sent for good.
Path == {<<"None", "Sent">>, <<"Sent", "Received">>, <<"Received", "Invoiced">>,
         <<"Invoiced", "Paid">>, <<"Sent", "Rejected">>, <<"Sent", "Cancelled">>}

MovesForward ==
    \A s \in Shipments : shipments'[s].status # shipments[s].status =>
        <<shipments[s].status, shipments'[s].status>> \in Path

ForwardOnly == [][MovesForward]_vars

\* "No paying twice": Pay records a payment of one parcel at most once.
PaidOnce == \A s \in Shipments : payouts[s] < 2

ReceivedTotal(rows) == MapThenSumSet(LAMBDA p : rows[p].price, Arrived(rows))

TotalsAreSums ==
    \A s \in Shipments : shipments[s].status \in {"Invoiced", "Paid"} =>
        shipments[s].total = ReceivedTotal(items[s])

\* invoice_total is the sum of the received lines' unit prices (migration 024),
\* for as long as nobody deletes a report: a forced deletion takes lines of
\* invoiced parcels along and leaves their totals.
InvoiceTotalIsSum == (\A x \in Repairs : ~repairs[x].deleted) => TotalsAreSums

\* A parcel never keeps a line of a deleted repair: an unforced Delete refuses
\* when there is one, a forced one takes the lines along, and what is deleted
\* can't be sent.  Not so when a parcel is filed while a report is deleted: proved
\* for one request at a time that files or deletes.
NoOrphanLines ==
    \A x \in Repairs : repairs[x].deleted => ShippedLines(x) = {}

-----------------------------------------------------------------------------
(* Refinement *)

PhaseOf(row) ==
    IF row.status = "None" THEN "unsent"
    ELSE IF row.deleted \/ row.status \notin liveStatuses THEN "void" ELSE row.status

Holder == [p \in Parts |-> IF Held(p) THEN CHOOSE s \in Shipments : Holds(s, p)
                                      ELSE None]
Phase == [s \in Shipments |-> PhaseOf(shipments[s])]

Ledger == INSTANCE PartLedger WITH holder <- Holder, phase <- Phase

\* While one desk handles parcels and reports, parcels and parts behave as the
\* ledger promises, however many parcels are being filed, reports deleted meanwhile.
LedgerSpec == Ledger!Spec
=============================================================================
