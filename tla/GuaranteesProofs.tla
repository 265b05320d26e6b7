--------------------------- MODULE GuaranteesProofs ---------------------------
(***************************************************************************)
(* What holds of Guarantees for any number of guarantees, codes, products  *)
(* and requests in flight, and any lengths of cover.                       *)
(***************************************************************************)
EXTENDS Guarantees, TLAPS

\* What a request carries: a consistent row that its operation may start from.
InOrder(q) ==
    /\ q.at \in {"free", "refused", "found"} => q.row \in Guarantee /\ Consistent(q.row)
    /\ q.at \in {"free", "refused"} => q.row.status = "Pending"
    /\ q.at \in {"refused", "found", "saved"} => q.g \in Guarantees
    /\ q.at = "found" => MayStart(q.op, q.row.status)

Snapshots == \A r \in Requests : InOrder(req[r])

IInv == TypeOK /\ ReviewTrail /\ Snapshots

\* A slot with no request in it is in order.
LEMMA IdleRequest == Idle \in Request /\ InOrder(Idle)
  BY DEF Idle, Request, InOrder

\* An application waits for review, and nobody has approved it.
LEMMA PendingRow ==
    ASSUME NEW code \in Codes, NEW c \in Customers, NEW p \in Products
    PROVE  LET row == NewRow(code, c, p, "Pending")
           IN row \in Guarantee /\ row.status = "Pending" /\ row.approved = FALSE
<1>1. \A s \in Statuses : NewRow(code, c, p, s) \in Guarantee
                          /\ NewRow(code, c, p, s).status = s
                          /\ NewRow(code, c, p, s).approved = (s = "Approved")
  BY DEF NewRow, Guarantee, Statuses, NoGolden, Period
<1>2. "Pending" \in Statuses /\ ("Pending" = "Approved") = FALSE
  BY DEF Statuses
<1> QED BY <1>1, <1>2, Zenon

\* Deriving the periods from a purchase date touches nothing else, and the
\* cover it gives does not end before the purchase.
LEMMA ApplyPeriodsType ==
    ASSUME NEW row \in Guarantee, NEW d \in Nat, NEW p \in Products
    PROVE  LET new == ApplyPeriods(row, d, p)
           IN /\ new \in Guarantee
              /\ new.purchase = d /\ new.expiry \in Nat /\ d <= new.expiry
              /\ new.status = row.status /\ new.approved = row.approved
              /\ new.code = row.code /\ new.customer = row.customer
              /\ new.product = row.product /\ new.deleted = row.deleted
<1> DEFINE golden == IF GoldenMonths[p] > 0
                     THEN [from |-> d, until |-> d + GoldenMonths[p]] ELSE row.golden
<1>1. DefaultMonths[p] \in Nat /\ GoldenMonths[p] \in Nat
  BY ConstantsAssumption
<1>2. golden \in Period
  BY <1>1 DEF Guarantee, Period
<1>3. ApplyPeriods(row, d, p) = [row EXCEPT !.purchase = d,
                                 !.expiry = d + DefaultMonths[p], !.golden = golden]
  BY DEF ApplyPeriods, Guarantee
<1> HIDE DEF golden
<1>4. d + DefaultMonths[p] \in Nat /\ d <= d + DefaultMonths[p]
  BY <1>1
<1> QED BY <1>2, <1>3, <1>4 DEF Guarantee

\* An edit of a guarantee keeps its status and the record of its review.
LEMMA EditedType ==
    ASSUME NEW row \in Guarantee, NEW e \in Edit,
           (e.code # None /\ e.code # row.code) => ProductOf[e.code] # None
    PROVE  /\ Edited(row, e) \in Guarantee
           /\ Edited(row, e).status = row.status
           /\ Edited(row, e).approved = row.approved
           /\ Edited(row, e).deleted = row.deleted
<1> DEFINE recoded == e.code # None /\ e.code # row.code
           bought == Given(e.purchase, row.purchase)
           product == IF recoded THEN ProductOf[e.code] ELSE Given(e.product, row.product)
           new == [row EXCEPT !.customer = Given(e.customer, row.customer),
                              !.code = Given(e.code, row.code),
                              !.product = product,
                              !.purchase = bought]
           moved == IF recoded \/ bought # row.purchase \/ e.product # None
                    THEN ApplyPeriods(new, bought, new.product) ELSE new
<1>1. /\ Given(e.customer, row.customer) \in Customers
      /\ Given(e.code, row.code) \in Codes
      /\ Given(e.product, row.product) \in Products
      /\ bought \in Nat
      /\ Given(e.expiry, row.expiry) \in Nat
  BY ConstantsAssumption DEF Edit, Guarantee, Given
<1>2. product \in Products
  BY <1>1, ConstantsAssumption DEF Edit
<1>3. /\ new \in Guarantee /\ new.product = product
      /\ new.status = row.status /\ new.approved = row.approved
      /\ new.deleted = row.deleted
  BY <1>1, <1>2 DEF Guarantee
<1>4. /\ moved \in Guarantee
      /\ moved.status = row.status /\ moved.approved = row.approved
      /\ moved.deleted = row.deleted
  <2> HIDE DEF new, bought, product, recoded
  <2>1. LET a == ApplyPeriods(new, bought, new.product)
        IN a \in Guarantee /\ a.status = new.status /\ a.approved = new.approved
                           /\ a.deleted = new.deleted
    BY <1>1, <1>2, <1>3, ApplyPeriodsType
  <2> QED BY <1>3, <2>1
<1>5. Edited(row, e) = [moved EXCEPT !.expiry = Given(e.expiry, moved.expiry)]
  BY <1>4 DEF Edited, Guarantee
<1>6. Given(e.expiry, moved.expiry) \in Nat
  BY <1>4, ConstantsAssumption DEF Edit, Guarantee, Given
<1> HIDE DEF moved
<1> QED BY <1>4, <1>5, <1>6 DEF Guarantee

\* The strengthened invariant holds at the start.
THEOREM InvInit == Init => IInv
<1> SUFFICES ASSUME Init PROVE IInv
  OBVIOUS
<1>1. TypeOK
  BY ConstantsAssumption, IdleRequest DEF Init, TypeOK
<1>2. ReviewTrail
  BY DEF Init, ReviewTrail, Inserted
<1>3. Snapshots
  BY IdleRequest DEF Init, Snapshots
<1> QED BY <1>1, <1>2, <1>3 DEF IInv

\* The rows of inserted guarantees are rows.
LEMMA RowOf ==
    ASSUME IInv, NEW g \in Guarantees, Inserted(g)
    PROVE  rows[g] \in Guarantee /\ Consistent(rows[g])
  BY DEF IInv, TypeOK, ReviewTrail, Inserted

\* A step that writes the record of one request.
LEMMA RequestMoves ==
    ASSUME IInv, NEW r \in Requests, NEW q \in Request, InOrder(q),
           req' = [req EXCEPT ![r] = q]
    PROVE  req' \in [Requests -> Request] /\ Snapshots'
<1>1. req' \in [Requests -> Request] /\ \A z \in Requests : req'[z] = req[z] \/ req'[z] = q
  BY DEF IInv, TypeOK
<1> QED BY <1>1 DEF IInv, Snapshots, InOrder, Consistent

\* A request that ends leaves the other snapshots as they are.
LEMMA RequestEnds ==
    ASSUME IInv, NEW r \in Requests, Finish(r)
    PROVE  req' \in [Requests -> Request] /\ Snapshots'
  BY IdleRequest, RequestMoves DEF Finish

\* A step that writes one consistent row.
LEMMA RowWritten ==
    ASSUME IInv, NEW g \in Guarantees, NEW row \in Guarantee, Consistent(row),
           rows' = [rows EXCEPT ![g] = row]
    PROVE  rows' \in [Guarantees -> Guarantee \union {NoRow}] /\ ReviewTrail'
<1>1. rows' \in [Guarantees -> Guarantee \union {NoRow}]
  BY DEF IInv, TypeOK
<1>2. \A h \in Guarantees : rows'[h] = rows[h] \/ rows'[h] = row
  BY DEF IInv, TypeOK
<1> QED BY <1>1, <1>2 DEF IInv, ReviewTrail, Inserted, Consistent

\* Snapshots are of requests alone.
LEMMA SnapshotsKept ==
    ASSUME Snapshots, req' = req PROVE Snapshots'
  BY DEF Snapshots, InOrder, Consistent

\* What a request that found its row may rely on.
LEMMA FoundRow ==
    ASSUME IInv, NEW r \in Requests, req[r].at = "found"
    PROVE  /\ req[r].g \in Guarantees /\ req[r].row \in Guarantee
           /\ Consistent(req[r].row)
           /\ MayStart(req[r].op, req[r].row.status)
  BY DEF IInv, Snapshots, InOrder

-----------------------------------------------------------------------------
(* Every step keeps the invariant *)

\* The clock and the message history only need their types.
LEMMA Kept ==
    ASSUME IInv,
           rows' \in [Guarantees -> Guarantee \union {NoRow}], ReviewTrail',
           req' \in [Requests -> Request], Snapshots',
           UNCHANGED <<today, told>>
    PROVE  IInv'
  BY DEF IInv, TypeOK

\* A registration that found its code free has written nothing yet.
LEMMA FindCodeFreeKeeps ==
    ASSUME IInv, NEW r \in Requests, NEW c \in Customers, NEW code \in Codes,
           NEW d \in Dates, FindCodeFree(r, c, code, d)
    PROVE  IInv'
<1> DEFINE p == ProductOf[code]
           new == NewRow(code, c, p, "Pending")
           row == ApplyPeriods(new, d, p)
           q == [Idle EXCEPT !.op = "register", !.at = "free", !.row = row]
<1>1. p \in Products /\ d \in Nat
  BY ConstantsAssumption DEF FindCodeFree
<1>2. row \in Guarantee /\ row.status = "Pending" /\ ~row.approved
      /\ row.purchase <= row.expiry
  <2>1. new \in Guarantee /\ new.status = "Pending" /\ new.approved = FALSE
    BY <1>1, PendingRow, Zenon
  <2> HIDE DEF p, new
  <2> QED BY <1>1, <2>1, ApplyPeriodsType
<1>3. req' = [req EXCEPT ![r] = q] /\ UNCHANGED <<rows, today, told>>
  BY DEF FindCodeFree
<1> HIDE DEF row
<1>4. q \in Request /\ InOrder(q)
  BY <1>2 DEF Idle, Request, Operations, InOrder, Consistent, Covered
<1> HIDE DEF q
<1>5. req' \in [Requests -> Request] /\ Snapshots'
  BY <1>3, <1>4, RequestMoves
<1> QED BY <1>3, <1>5 DEF IInv, TypeOK, ReviewTrail, Inserted

\* The row of a registration waits for a decision, with nothing recorded.
LEMMA InsertApplicationKeeps ==
    ASSUME IInv, NEW r \in Requests, NEW g \in Guarantees, InsertApplication(r, g)
    PROVE  IInv'
<1>1. req[r].row \in Guarantee /\ Consistent(req[r].row)
  BY DEF IInv, Snapshots, InOrder, InsertApplication, At
<1>2. rows' = [rows EXCEPT ![g] = req[r].row] /\ Finish(r) /\ UNCHANGED <<today, told>>
  BY DEF InsertApplication, Save
<1> QED BY <1>1, <1>2, RowWritten, RequestEnds, Kept

\* A re-application takes its snapshot of a refused row.
LEMMA FindRefusedKeeps ==
    ASSUME IInv, NEW r \in Requests, NEW g \in Guarantees, NEW c \in Customers,
           NEW d \in Dates, FindRefused(r, g, c, d)
    PROVE  IInv'
<1> DEFINE p == ProductOf[rows[g].code]
           old == ApplyPeriods(rows[g], d, p)
           row == [old EXCEPT !.product = p, !.status = "Pending", !.approved = FALSE]
           q == [op |-> "register", at |-> "refused", g |-> g, row |-> row]
<1>1. rows[g] \in Guarantee
  BY RowOf DEF FindRefused, Live
<1>2. p \in Products /\ d \in Nat
  BY <1>1, ConstantsAssumption DEF FindRefused, Guarantee
<1>3. old \in Guarantee /\ old.purchase <= old.expiry
  <2> HIDE DEF p
  <2> QED BY <1>1, <1>2, ApplyPeriodsType
<1>4. req' = [req EXCEPT ![r] = q] /\ UNCHANGED <<rows, today, told>>
  BY DEF FindRefused
<1> HIDE DEF old, p
<1>5. row \in Guarantee /\ row.status = "Pending" /\ ~row.approved
      /\ row.purchase <= row.expiry
  BY <1>2, <1>3 DEF Guarantee, Statuses
<1> HIDE DEF row
<1>6. q \in Request /\ InOrder(q)
  BY <1>5 DEF Request, Operations, InOrder, Consistent, Covered
<1> HIDE DEF q
<1>7. req' \in [Requests -> Request] /\ Snapshots'
  BY <1>4, <1>6, RequestMoves
<1> QED BY <1>4, <1>7 DEF IInv, TypeOK, ReviewTrail, Inserted

\* A re-application turns a refused row into one that waits for a decision.
LEMMA ReapplyKeeps ==
    ASSUME IInv, NEW r \in Requests, Reapply(r)
    PROVE  IInv'
<1> DEFINE g == req[r].g
           new == req[r].row
           row == [new EXCEPT !.code = rows[g].code, !.customer = rows[g].customer]
<1>1. g \in Guarantees /\ new \in Guarantee /\ Consistent(new)
  BY DEF IInv, Snapshots, InOrder, Reapply, At
<1>2. Finish(r) /\ UNCHANGED <<today, told>>
  BY DEF Reapply
<1>3. CASE Live(g)
  <2>1. rows' = [rows EXCEPT ![g] = row]
    BY <1>3 DEF Reapply
  <2>2. rows[g] \in Guarantee
    BY <1>1, <1>3, RowOf DEF Live
  <2>3. row \in Guarantee /\ Consistent(row)
    BY <1>1, <2>2 DEF Guarantee, Consistent
  <2> HIDE DEF row, g
  <2> QED BY <1>1, <1>2, <2>1, <2>3, RowWritten, RequestEnds, Kept
<1>4. CASE ~Live(g)
  <2>1. rows' = rows
    BY <1>4 DEF Reapply
  <2>2. rows' \in [Guarantees -> Guarantee \union {NoRow}] /\ ReviewTrail'
    BY <2>1 DEF IInv, TypeOK, ReviewTrail, Inserted
  <2> QED BY <1>2, <2>2, RequestEnds, Kept
<1> QED BY <1>3, <1>4

\* The office enters a guarantee: it waits for review, or is decided at once.
LEMMA CreateKeeps ==
    ASSUME IInv, NEW r \in Requests, NEW g \in Guarantees, NEW c \in Customers,
           NEW code \in Codes, NEW p \in Products, NEW d \in Dates, NEW e \in Dates,
           Create(r, g, c, code, p, d, e)
    PROVE  IInv'
<1> DEFINE new == NewRow(code, c, p, "Pending")
           row == [new EXCEPT !.purchase = d, !.expiry = e]
<1>1. new \in Guarantee /\ new.status = "Pending" /\ new.approved = FALSE
  BY PendingRow, Zenon
<1>2. d \in Nat /\ e \in Nat
  BY ConstantsAssumption
<1>3. rows' = [rows EXCEPT ![g] = row] /\ row.purchase <= row.expiry
      /\ UNCHANGED <<today, told, req>>
  BY DEF Create, Save, ValidDates
<1> HIDE DEF new
<1>4. row \in Guarantee /\ Consistent(row)
  BY <1>1, <1>2, <1>3 DEF Guarantee, Consistent, Covered
<1> HIDE DEF row
<1>5. req' \in [Requests -> Request] /\ Snapshots'
  BY <1>3, SnapshotsKept DEF IInv, TypeOK
<1> QED BY <1>3, <1>4, <1>5, RowWritten, Kept

\* A row the office enters carries what its status says.
LEMMA CreateByAdminKeeps ==
    ASSUME IInv, NEW r \in Requests, NEW g \in Guarantees, NEW c \in Customers,
           NEW code \in Codes, NEW d \in Dates, NEW e \in Dates \union {None},
           NEW s \in {"Pending", "Approved", "Rejected"},
           CreateByAdmin(r, g, c, code, d, e, s)
    PROVE  IInv'
<1> DEFINE p == ProductOf[code]
           new == NewRow(code, c, p, s)
           old == ApplyPeriods(new, d, p)
           end == IF e = None THEN old.expiry ELSE e
           row == [old EXCEPT !.expiry = end]
<1>1. p \in Products /\ d \in Nat
  BY ConstantsAssumption DEF CreateByAdmin
<1>2. /\ old \in Guarantee /\ old.purchase = d
      /\ old.status = s /\ old.approved = (s = "Approved")
  <2>1. new \in Guarantee /\ new.status = s /\ new.approved = (s = "Approved")
    BY <1>1 DEF NewRow, Guarantee, Statuses, NoGolden, Period
  <2> HIDE DEF p, new
  <2> QED BY <1>1, <2>1, ApplyPeriodsType
<1>3. rows' = [rows EXCEPT ![g] = row] /\ d <= end /\ UNCHANGED <<today, told, req>>
  BY DEF CreateByAdmin, Save
<1> HIDE DEF old
<1>4. end \in Nat
  BY <1>2, ConstantsAssumption DEF Guarantee
<1> HIDE DEF end
<1>5. row \in Guarantee /\ Consistent(row)
  BY <1>1, <1>2, <1>3, <1>4 DEF Guarantee, Consistent, Covered
<1> HIDE DEF row
<1>6. req' \in [Requests -> Request] /\ Snapshots'
  BY <1>3, SnapshotsKept DEF IInv, TypeOK
<1> QED BY <1>3, <1>5, <1>6, RowWritten, Kept

\* The office finds a guarantee its operation may start from.
LEMMA FindGuaranteeKeeps ==
    ASSUME IInv, NEW r \in Requests, NEW op \in DeskOperations, NEW g \in Guarantees,
           FindGuarantee(r, op, g)
    PROVE  IInv'
<1> DEFINE q == [op |-> op, at |-> "found", g |-> g, row |-> rows[g]]
<1>1. rows[g] \in Guarantee /\ Consistent(rows[g])
  BY RowOf DEF FindGuarantee, Live
<1>2. /\ req' = [req EXCEPT ![r] = q] /\ UNCHANGED <<rows, today, told>>
      /\ MayStart(op, rows[g].status)
  BY DEF FindGuarantee
<1>3. q \in Request /\ InOrder(q)
  BY <1>1, <1>2 DEF Request, DeskOperations, Operations, InOrder
<1> HIDE DEF q
<1>4. req' \in [Requests -> Request] /\ Snapshots'
  BY <1>2, <1>3, RequestMoves
<1> QED BY <1>2, <1>4 DEF IInv, TypeOK, ReviewTrail, Inserted

\* An edit keeps the record of the review: it can only have read a row that may
\* be edited.
LEMMA SaveEditKeeps ==
    ASSUME IInv, NEW r \in Requests, NEW e \in Edit, SaveEdit(r, e)
    PROVE  IInv'
<1> DEFINE g == req[r].g
           row == req[r].row
           new == Edited(row, e)
<1>1. g \in Guarantees /\ row \in Guarantee /\ Consistent(row) /\ row.status = "Pending"
  BY FoundRow DEF SaveEdit, At, MayStart
<1>2. /\ (e.code # None /\ e.code # row.code) => ProductOf[e.code] # None
      /\ new.purchase <= new.expiry
      /\ rows' = [rows EXCEPT ![g] = new] /\ Finish(r) /\ UNCHANGED <<today, told>>
  BY DEF SaveEdit, ValidDates, Save
<1> HIDE DEF g, row
<1>3. new \in Guarantee /\ new.status = row.status /\ new.approved = row.approved
  BY <1>1, <1>2, EditedType
<1> HIDE DEF new
<1>4. Consistent(new)
  BY <1>1, <1>2, <1>3 DEF Consistent, Covered
<1> QED BY <1>1, <1>2, <1>3, <1>4, RowWritten, RequestEnds, Kept

\* After the decision or the renewal is saved, a message is still to be sent.
LEMMA Answered ==
    ASSUME IInv, NEW r \in Requests, NEW op \in {"approve", "renew"},
           NEW g \in Guarantees,
           req' = [req EXCEPT ![r] = [Idle EXCEPT !.op = op, !.at = "saved", !.g = g]]
    PROVE  req' \in [Requests -> Request] /\ Snapshots'
<1> DEFINE q == [Idle EXCEPT !.op = op, !.at = "saved", !.g = g]
<1>1. q \in Request /\ InOrder(q)
  BY DEF Idle, Request, Operations, InOrder
<1> HIDE DEF q
<1>2. req' = [req EXCEPT ![r] = q]
  BY DEF q
<1> QED BY <1>1, <1>2, RequestMoves

\* A decision records the review with the status.
LEMMA SaveDecisionKeeps ==
    ASSUME IInv, NEW r \in Requests, NEW s \in {"Approved", "Rejected"},
           SaveDecision(r, s)
    PROVE  IInv'
<1> DEFINE g == req[r].g
           row == req[r].row
           new == Decision(row, s)
<1>1. g \in Guarantees /\ row \in Guarantee /\ Consistent(row)
  BY FoundRow DEF SaveDecision, At
<1>2. /\ rows' = [rows EXCEPT ![g] = new] /\ UNCHANGED <<today, told>>
      /\ req' = [req EXCEPT ![r] = [Idle EXCEPT !.op = "approve", !.at = "saved", !.g = g]]
  BY DEF SaveDecision, Save
<1> HIDE DEF g, row
<1>3. new \in Guarantee /\ Consistent(new)
  BY <1>1 DEF Decision, Guarantee, Statuses, Consistent
<1> HIDE DEF new
<1> QED BY <1>1, <1>2, <1>3, RowWritten, Answered, Kept

\* A renewal keeps the approval of the row it read.
LEMMA SaveRenewalKeeps ==
    ASSUME IInv, NEW r \in Requests, NEW e \in Dates, SaveRenewal(r, e)
    PROVE  IInv'
<1> DEFINE g == req[r].g
           row == req[r].row
           new == [row EXCEPT !.expiry = e, !.status = "Renewed"]
<1>1. /\ g \in Guarantees /\ row \in Guarantee /\ Consistent(row)
      /\ row.status \in Covered
  BY FoundRow DEF SaveRenewal, At, MayStart
<1>2. /\ row.expiry <= e
      /\ rows' = [rows EXCEPT ![g] = new] /\ UNCHANGED <<today, told>>
      /\ req' = [req EXCEPT ![r] = [Idle EXCEPT !.op = "renew", !.at = "saved", !.g = g]]
  BY DEF SaveRenewal, Extends, Save
<1> HIDE DEF g, row
<1>3. e \in Nat
  BY ConstantsAssumption
<1>4. new \in Guarantee /\ Consistent(new)
  <2>1. row.approved /\ row.purchase <= e
    BY <1>1, <1>2, <1>3 DEF Consistent, Guarantee
  <2>2. new \in Guarantee /\ new.status = "Renewed" /\ new.expiry = e
        /\ new.purchase = row.purchase /\ new.approved = row.approved
    BY <1>1, <1>3 DEF Guarantee, Statuses
  <2> QED BY <2>1, <2>2 DEF Consistent
<1> HIDE DEF new
<1> QED BY <1>1, <1>2, <1>4, RowWritten, Answered, Kept

\* The text goes out; no row changes.
LEMMA NotifyKeeps ==
    ASSUME IInv, NEW r \in Requests, Notify(r)
    PROVE  IInv'
<1> DEFINE g == req[r].g
<1>1. g \in Guarantees
  BY DEF IInv, Snapshots, InOrder, Notify, At
<1>2. Finish(r) /\ UNCHANGED <<rows, today>>
  BY DEF Notify
<1>3. told' = told \/ (Live(g) /\ told' = [told EXCEPT ![g] = rows[g].expiry])
  BY DEF Notify
<1> HIDE DEF g
<1>4. told' \in [Guarantees -> Int]
  <2>1. Live(g) => rows[g].expiry \in Int
    BY <1>1, RowOf DEF Live, Guarantee
  <2> QED BY <1>3, <2>1 DEF IInv, TypeOK
<1> QED BY <1>2, <1>4, RequestEnds DEF IInv, TypeOK, ReviewTrail, Inserted

\* Cancelling and moving the golden period keep the review record and the cover.
LEMMA SaveCancellationKeeps ==
    ASSUME IInv, NEW r \in Requests, SaveCancellation(r)
    PROVE  IInv'
<1> DEFINE g == req[r].g
           row == req[r].row
           new == [row EXCEPT !.status = "Cancelled"]
<1>1. g \in Guarantees /\ row \in Guarantee /\ Consistent(row)
  BY FoundRow DEF SaveCancellation, At
<1>2. rows' = [rows EXCEPT ![g] = new] /\ Finish(r) /\ UNCHANGED <<today, told>>
  BY DEF SaveCancellation, Save
<1> HIDE DEF g, row
<1>3. new \in Guarantee /\ Consistent(new)
  BY <1>1 DEF Guarantee, Statuses, Consistent, Covered
<1> HIDE DEF new
<1> QED BY <1>1, <1>2, <1>3, RowWritten, RequestEnds, Kept

\* Only the golden period of the row that was read changes.
LEMMA GoldenKeeps ==
    ASSUME IInv, NEW r \in Requests, NEW golden \in Period,
           req[r].at = "found",
           rows' = [rows EXCEPT ![req[r].g] = [req[r].row EXCEPT !.golden = golden]],
           Finish(r), UNCHANGED <<today, told>>
    PROVE  IInv'
<1> DEFINE g == req[r].g
           row == req[r].row
           new == [row EXCEPT !.golden = golden]
<1>1. g \in Guarantees /\ row \in Guarantee /\ Consistent(row)
  BY FoundRow
<1>2. rows' = [rows EXCEPT ![g] = new]
  OBVIOUS
<1> HIDE DEF g, row
<1>3. new \in Guarantee /\ Consistent(new)
  BY <1>1 DEF Guarantee, Consistent
<1> HIDE DEF new
<1> QED BY <1>1, <1>2, <1>3, RowWritten, RequestEnds, Kept

\* Setting the golden period is such a save.
LEMMA SaveGoldenKeeps ==
    ASSUME IInv, NEW r \in Requests, NEW from \in Dates, NEW months \in GoldenChoices,
           SaveGolden(r, from, months)
    PROVE  IInv'
<1>1. [from |-> from, until |-> from + months] \in Period
  BY ConstantsAssumption DEF Period
<1> QED BY <1>1, GoldenKeeps DEF SaveGolden, At, Save

\* Removing it is such a save.
LEMMA SaveNoGoldenKeeps ==
    ASSUME IInv, NEW r \in Requests, SaveNoGolden(r)
    PROVE  IInv'
<1>1. NoGolden \in Period
  BY DEF NoGolden, Period
<1> QED BY <1>1, GoldenKeeps DEF SaveNoGolden, At, Save

\* The bin only changes one column.
LEMMA BinKeeps ==
    ASSUME IInv, NEW r \in Requests, NEW g \in Guarantees, Delete(r, g) \/ Restore(r, g)
    PROVE  IInv'
<1>1. Inserted(g) /\ UNCHANGED <<today, told, req>>
  BY DEF Delete, Restore, Live
<1>2. rows[g] \in Guarantee /\ Consistent(rows[g])
  BY <1>1, RowOf
<1>3. PICK b \in BOOLEAN : rows' = [rows EXCEPT ![g] = [rows[g] EXCEPT !.deleted = b]]
  BY DEF Delete, Restore, Save
<1> DEFINE row == [rows[g] EXCEPT !.deleted = b]
<1>4. row \in Guarantee /\ Consistent(row)
  BY <1>2 DEF Guarantee, Consistent
<1>5. rows' = [rows EXCEPT ![g] = row]
  BY <1>3
<1> HIDE DEF row
<1>6. req' \in [Requests -> Request] /\ Snapshots'
  BY <1>1, SnapshotsKept DEF IInv, TypeOK
<1> QED BY <1>1, <1>4, <1>5, <1>6, RowWritten, Kept

\* A request may end at any point.
LEMMA AbandonKeeps ==
    ASSUME IInv, NEW r \in Requests, Abandon(r)
    PROVE  IInv'
  BY RequestEnds DEF Abandon, IInv, TypeOK, ReviewTrail, Inserted

\* The clock changes no row.
LEMMA DayPassesKeeps ==
    ASSUME IInv, DayPasses
    PROVE  IInv'
<1>1. today' \in 0..LastDay
  BY ConstantsAssumption DEF DayPasses, IInv, TypeOK
<1> QED BY <1>1, SnapshotsKept DEF DayPasses, IInv, TypeOK, ReviewTrail, Inserted

\* Every operation of Guarantees, at every point where it touches the table,
\* keeps the invariant.
THEOREM InvNext == IInv /\ [Next]_vars => IInv'
<1> SUFFICES ASSUME IInv, [Next]_vars PROVE IInv'
  OBVIOUS
<1>1. ASSUME NEW r \in Requests, RegisterStep(r) PROVE IInv'
  BY <1>1, FindCodeFreeKeeps, FindRefusedKeeps, InsertApplicationKeeps, ReapplyKeeps
     DEF RegisterStep
<1>2. ASSUME NEW r \in Requests, OfficeInsert(r) PROVE IInv'
  BY <1>2, CreateKeeps, CreateByAdminKeeps DEF OfficeInsert
<1>3. ASSUME NEW r \in Requests, OfficeStep(r) PROVE IInv'
  BY <1>3, FindGuaranteeKeeps, SaveEditKeeps, SaveDecisionKeeps, SaveRenewalKeeps,
     NotifyKeeps, SaveCancellationKeeps, SaveGoldenKeeps, SaveNoGoldenKeeps, BinKeeps
     DEF OfficeStep
<1>4. ASSUME NEW r \in Requests, Abandon(r) PROVE IInv'
  BY <1>4, AbandonKeeps
<1>5. CASE DayPasses
  BY <1>5, DayPassesKeeps
<1>6. CASE UNCHANGED vars
  BY <1>6, SnapshotsKept DEF vars, IInv, TypeOK, ReviewTrail, Inserted
<1> QED BY <1>1, <1>2, <1>3, <1>4, <1>5, <1>6 DEF Next

\* The strengthened invariant holds in every reachable state.
THEOREM Invariant == Spec => []IInv
  BY InvInit, InvNext, PTL DEF Spec

\* Whatever the requests overwrite, every row and every request keeps its type:
\* no status is stored that the other operations do not know.
THEOREM TypeCorrect == Spec => []TypeOK
<1>1. IInv => TypeOK
  BY DEF IInv
<1> QED BY <1>1, Invariant, PTL

\* The badge worked out in Go and the tabs selected in SQL agree on what has
\* expired, and no golden guarantee is listed as a normal one, on every day.
THEOREM TabsAgreeHolds == Spec => []TabsAgree
<1>1. TypeOK => TabsAgree
  <2> SUFFICES ASSUME TypeOK, NEW g \in Guarantees, Live(g)
               PROVE  /\ Tier(rows[g]) = "Expired" <=> InTab("expired", rows[g])
                      /\ Tier(rows[g]) = "Golden" => InTab("golden", rows[g])
                      /\ InTab("normal", rows[g]) => Tier(rows[g]) = "Normal"
    BY DEF TabsAgree
  <2>1. rows[g] \in Guarantee /\ today \in Nat
    BY DEF TypeOK, Live, Inserted
  <2> QED BY <2>1 DEF Tier, InTab, Guarantee, Period
<1> QED BY <1>1, TypeCorrect, PTL

\* An approved or renewed guarantee names who approved it, one waiting for
\* review names nobody, and no cover ends before the purchase, for any number
\* of requests in any interleaving.
THEOREM ReviewTrailHolds == Spec => []ReviewTrail
<1>1. IInv => ReviewTrail
  BY DEF IInv
<1> QED BY <1>1, Invariant, PTL

-----------------------------------------------------------------------------
(* One desk: what a request read is still so when it saves                  *)

Inserts == {"create", "adminCreate"}

\* What a request knows about its guarantee is what the table says.
Current(table, q) ==
    /\ q.at = "found" => table[q.g] # NoRow /\ ~table[q.g].deleted /\ q.row = table[q.g]
    /\ q.at = "refused" => table[q.g] # NoRow /\ table[q.g].status = "Rejected"
    /\ q.at = "saved" => table[q.g] # NoRow /\
          (\/ q.op = "approve" /\ table[q.g].status \in {"Approved", "Rejected"}
           \/ q.op = "renew" /\ table[q.g].status = "Renewed")

Served == \A r \in Requests : req[r].at # "idle" => req[r].op \in Serves[r] \ Inserts

Fresh == \A r \in Requests : Current(rows, req[r])

HInv == IInv /\ Served /\ Fresh /\ ToldStands

\* What one step may make of a row.
Changes(old, new) ==
    \/ old = NoRow /\ new.status \in {"Pending", "Approved", "Rejected"}
    \/ old \in Guarantee /\
          \/ old.status \in {"Pending", "Rejected"} /\ new.status = "Pending"
          \/ /\ old.status = "Pending" /\ new.status \in {"Approved", "Rejected"}
             /\ new.expiry = old.expiry
          \/ /\ old.status \in Covered /\ new.status \in Covered
             /\ old.expiry <= new.expiry
          \/ /\ old.status # "Cancelled" /\ new.status = "Cancelled"
             /\ new.expiry = old.expiry
          \/ new.status = old.status /\ new.expiry = old.expiry

Write(g, row) == /\ rows' = [rows EXCEPT ![g] = row] /\ told' = told
                 /\ Changes(rows[g], row)

\* A step leaves the table alone, or makes one allowed change in it.
Classified == \/ rows' = rows /\ ToldStands'
              \/ \E g \in Guarantees, row \in Guarantee : Write(g, row)

Step == Classified /\ Served' /\ Fresh'

\* There are no requests and no texts at the start.
LEMMA HInvInit == Init => HInv
<1> SUFFICES ASSUME Init PROVE HInv
  OBVIOUS
<1>1. Served
  BY DEF Init, Served, Idle
<1>2. Fresh
  BY DEF Init, Fresh, Current, Idle
<1>3. ToldStands
  BY DEF Init, ToldStands
<1> QED BY <1>1, <1>2, <1>3, InvInit DEF HInv

\* The desk is the only one at work on guarantees that exist.
LEMMA OthersIdle ==
    ASSUME OneDesk, Served, NEW r \in Requests, NEW op \in Serves[r] \ Inserts
    PROVE  \A z \in Requests \ {r} : req[z].at = "idle"
  BY DEF OneDesk, Served, Inserts

\* The one desk moves on to a snapshot that is still the row.
LEMMA DeskMoves ==
    ASSUME OneDesk, HInv, NEW r \in Requests, NEW op \in Serves[r] \ Inserts,
           NEW q, req' = [req EXCEPT ![r] = q],
           q.at # "idle" => q.op = op, Current(rows', q)
    PROVE  Served' /\ Fresh'
<1>1. \A z \in Requests \ {r} : req[z].at = "idle"
  BY OthersIdle DEF HInv
<1>2. req'[r] = q /\ \A z \in Requests \ {r} : req'[z] = req[z]
  BY DEF HInv, IInv, TypeOK
<1>3. Served'
  BY <1>1, <1>2 DEF Served
<1>4. Fresh'
  BY <1>1, <1>2 DEF Fresh, Current
<1> QED BY <1>3, <1>4

\* The desk is done with its request.
LEMMA DeskEnds ==
    ASSUME OneDesk, HInv, NEW r \in Requests, req[r].at # "idle", Finish(r)
    PROVE  Served' /\ Fresh'
<1>1. req[r].op \in Serves[r] \ Inserts
  BY DEF HInv, Served
<1>2. Idle.at = "idle" /\ Current(rows', Idle)
  BY DEF Idle, Current
<1> QED BY <1>1, <1>2, DeskMoves DEF Finish

\* A request that only reads.
LEMMA Unwritten ==
    ASSUME HInv, UNCHANGED <<rows, told>> PROVE Classified
  BY DEF HInv, Classified, ToldStands, Inserted

\* The row a desk found is the row in the table.
LEMMA Found ==
    ASSUME HInv, NEW r \in Requests, req[r].at = "found"
    PROVE  /\ req[r].g \in Guarantees /\ req[r].row \in Guarantee
           /\ req[r].row = rows[req[r].g] /\ Inserted(req[r].g)
           /\ MayStart(req[r].op, req[r].row.status)
  BY FoundRow DEF HInv, Fresh, Current, Inserted

\* The office enters guarantees beside the desk.
LEMMA InsertSteps ==
    ASSUME HInv, NEW g \in Guarantees, NEW row \in Guarantee, ~Inserted(g),
           row.status \in {"Pending", "Approved", "Rejected"},
           rows' = [rows EXCEPT ![g] = row], UNCHANGED <<told, req>>
    PROVE  Step
<1>1. Write(g, row)
  BY DEF Write, Changes, Inserted
<1>2. Served'
  BY DEF HInv, Served
<1>3. \A h \in Guarantees : Inserted(h) => rows'[h] = rows[h]
  BY DEF HInv, IInv, TypeOK
<1>4. \A r \in Requests : req[r].at \in {"found", "refused", "saved"} => req[r].g \in Guarantees
  BY DEF HInv, IInv, Snapshots, InOrder
<1>5. Fresh'
  BY <1>3, <1>4 DEF HInv, Fresh, Current, Inserted
<1> QED BY <1>1, <1>2, <1>5 DEF Step, Classified

\* An entry by the office makes a row where there was none.
LEMMA OfficeInsertSteps ==
    ASSUME HInv, NEW r \in Requests, OfficeInsert(r)
    PROVE  Step
<1>1. ASSUME NEW g \in Guarantees, NEW row, ~Inserted(g),
             row.status \in {"Pending", "Approved", "Rejected"},
             rows' = [rows EXCEPT ![g] = row], UNCHANGED <<today, told, req>>
      PROVE  Step
  <2>1. IInv'
    BY InvNext DEF HInv, Next
  <2>2. rows'[g] = row /\ row \in Guarantee \union {NoRow}
    BY <1>1, <2>1 DEF HInv, IInv, TypeOK
  <2>3. row \in Guarantee
    BY <1>1, <2>2 DEF NoRow
  <2> QED BY <1>1, <2>3, InsertSteps
<1>2. ASSUME NEW g \in Guarantees, NEW c \in Customers, NEW code \in Codes,
             NEW p \in Products, NEW d \in Dates, NEW e \in Dates,
             Create(r, g, c, code, p, d, e)
      PROVE  Step
  <2> DEFINE new == [NewRow(code, c, p, "Pending") EXCEPT !.purchase = d, !.expiry = e]
  <2>1. new.status = "Pending"
    BY DEF NewRow
  <2>2. rows' = [rows EXCEPT ![g] = new] /\ ~Inserted(g) /\ UNCHANGED <<today, told, req>>
    BY <1>2 DEF Create, Save
  <2> HIDE DEF new
  <2> QED BY <1>1, <2>1, <2>2
<1>3. ASSUME NEW g \in Guarantees, NEW c \in Customers, NEW code \in Codes,
             NEW d \in Dates, NEW e \in Dates \union {None},
             NEW s \in {"Pending", "Approved", "Rejected"},
             CreateByAdmin(r, g, c, code, d, e, s)
      PROVE  Step
  <2> DEFINE old == ApplyPeriods(NewRow(code, c, ProductOf[code], s), d, ProductOf[code])
             end == IF e = None THEN old.expiry ELSE e
             new == [old EXCEPT !.expiry = end]
  <2>1. new.status = s
    BY DEF ApplyPeriods, NewRow
  <2>2. rows' = [rows EXCEPT ![g] = new] /\ ~Inserted(g) /\ UNCHANGED <<today, told, req>>
    BY <1>3 DEF CreateByAdmin, Save
  <2> HIDE DEF new
  <2> QED BY <1>1, <2>1, <2>2
<1> QED BY <1>2, <1>3 DEF OfficeInsert

\* A registration makes a row, or reopens a refused one.
LEMMA RegisterSteps ==
    ASSUME OneDesk, HInv, NEW r \in Requests, RegisterStep(r)
    PROVE  Step
<1>1. ASSUME NEW c \in Customers, NEW code \in Codes, NEW d \in Dates,
             FindCodeFree(r, c, code, d)
      PROVE  Step
  <2> DEFINE row == ApplyPeriods(NewRow(code, c, ProductOf[code], "Pending"),
                                 d, ProductOf[code])
             q == [Idle EXCEPT !.op = "register", !.at = "free", !.row = row]
  <2>1. req' = [req EXCEPT ![r] = q] /\ q.op = "register" /\ q.at = "free"
    BY <1>1 DEF FindCodeFree, Idle
  <2> HIDE DEF q
  <2>2. "register" \in Serves[r] \ Inserts /\ Current(rows', q)
    BY <1>1, <2>1 DEF FindCodeFree, Starts, Inserts, Current
  <2>3. Classified
    BY <1>1, Unwritten DEF FindCodeFree
  <2> QED BY <2>1, <2>2, <2>3, DeskMoves DEF Step
<1>2. ASSUME NEW c \in Customers, NEW g \in Guarantees, NEW d \in Dates,
             FindRefused(r, g, c, d)
      PROVE  Step
  <2> DEFINE p == ProductOf[rows[g].code]
             row == [ApplyPeriods(rows[g], d, p) EXCEPT !.product = p,
                         !.status = "Pending", !.approved = FALSE]
             q == [op |-> "register", at |-> "refused", g |-> g, row |-> row]
  <2>1. /\ req' = [req EXCEPT ![r] = q]
        /\ q.op = "register" /\ q.at = "refused" /\ q.g = g
    BY <1>2 DEF FindRefused
  <2> HIDE DEF q
  <2>2. "register" \in Serves[r] \ Inserts /\ Current(rows', q)
    BY <1>2, <2>1 DEF FindRefused, Starts, Inserts, Current, Live, Inserted, MayReapply
  <2>3. Classified
    BY <1>2, Unwritten DEF FindRefused
  <2> QED BY <2>1, <2>2, <2>3, DeskMoves DEF Step
<1>3. ASSUME NEW g \in Guarantees, InsertApplication(r, g)
      PROVE  Step
  <2>1. req[r].row \in Guarantee /\ req[r].row.status = "Pending"
    BY <1>3 DEF HInv, IInv, Snapshots, InOrder, InsertApplication, At
  <2>2. Write(g, req[r].row)
    BY <1>3, <2>1 DEF InsertApplication, Save, Write, Changes, Inserted
  <2>3. Served' /\ Fresh'
    BY <1>3, DeskEnds DEF InsertApplication, At
  <2> QED BY <2>1, <2>2, <2>3 DEF Step, Classified
<1>4. ASSUME Reapply(r)
      PROVE  Step
  <2> DEFINE g == req[r].g
             new == [req[r].row EXCEPT !.code = rows[g].code, !.customer = rows[g].customer]
  <2>1. /\ g \in Guarantees /\ req[r].row \in Guarantee /\ req[r].row.status = "Pending"
        /\ Inserted(g) /\ rows[g].status = "Rejected"
    BY <1>4 DEF HInv, IInv, Snapshots, InOrder, Fresh, Current, Inserted, Reapply, At
  <2>2. Served' /\ Fresh' /\ told' = told
    BY <1>4, DeskEnds DEF Reapply, At
  <2>3. CASE Live(g)
    <3>1. rows[g] \in Guarantee
      BY <2>1, RowOf DEF HInv
    <3>2. new \in Guarantee /\ new.status = "Pending"
      BY <2>1, <3>1 DEF Guarantee
    <3>3. rows' = [rows EXCEPT ![g] = new]
      BY <1>4, <2>3 DEF Reapply
    <3> HIDE DEF new, g
    <3>4. Write(g, new)
      BY <2>1, <2>2, <3>1, <3>2, <3>3 DEF Write, Changes
    <3> QED BY <2>1, <2>2, <3>2, <3>4 DEF Step, Classified
  <2>4. CASE ~Live(g)
    <3>1. rows' = rows
      BY <1>4, <2>4 DEF Reapply
    <3> QED BY <2>2, <3>1, Unwritten DEF Step
  <2> QED BY <2>3, <2>4
<1> QED BY <1>1, <1>2, <1>3, <1>4 DEF RegisterStep

\* What saving a row that is still current needs to show.
LEMMA SaveSteps ==
    ASSUME HInv, NEW r \in Requests, req[r].at = "found", NEW row \in Guarantee,
           rows' = [rows EXCEPT ![req[r].g] = row], told' = told,
           Changes(req[r].row, row), Served', Fresh'
    PROVE  Step
<1>1. req[r].g \in Guarantees /\ req[r].row = rows[req[r].g]
  BY Found
<1>2. Write(req[r].g, row)
  BY <1>1 DEF Write
<1> QED BY <1>1, <1>2 DEF Step, Classified

\* An edit replaces the row the desk still has in hand.
LEMMA EditSteps ==
    ASSUME OneDesk, HInv, NEW r \in Requests, NEW e \in Edit, SaveEdit(r, e)
    PROVE  Step
<1> DEFINE row == req[r].row
           new == Edited(row, e)
<1>1. req[r].at = "found" /\ row \in Guarantee /\ row.status = "Pending"
  BY Found DEF SaveEdit, At, MayStart
<1>2. /\ (e.code # None /\ e.code # row.code) => ProductOf[e.code] # None
      /\ rows' = [rows EXCEPT ![req[r].g] = new] /\ Finish(r) /\ told' = told
  BY DEF SaveEdit, Save
<1>3. Served' /\ Fresh'
  BY <1>1, <1>2, DeskEnds
<1> HIDE DEF row
<1>4. new \in Guarantee /\ new.status = "Pending"
  BY <1>1, <1>2, EditedType
<1> HIDE DEF new
<1>5. Changes(row, new)
  BY <1>1, <1>4 DEF Changes
<1> QED BY <1>1, <1>2, <1>3, <1>4, <1>5, SaveSteps DEF row

\* Two operations answer the customer after they have saved.
LEMMA AnswerSteps ==
    ASSUME OneDesk, HInv, NEW r \in Requests, req[r].at = "found",
           NEW op \in {"approve", "renew"}, req[r].op = op, NEW row \in Guarantee,
           rows' = [rows EXCEPT ![req[r].g] = row], told' = told,
           Changes(req[r].row, row),
           op = "approve" => row.status \in {"Approved", "Rejected"},
           op = "renew" => row.status = "Renewed",
           req' = [req EXCEPT ![r] = [Idle EXCEPT !.op = op, !.at = "saved",
                                                  !.g = req[r].g]]
    PROVE  Step
<1> DEFINE g == req[r].g
           q == [Idle EXCEPT !.op = op, !.at = "saved", !.g = g]
<1>1. g \in Guarantees /\ op \in Serves[r] \ Inserts
  BY Found DEF HInv, Served
<1>2. q.op = op /\ q.at = "saved" /\ q.g = g
  BY DEF Idle
<1>3. rows'[g] = row /\ row # NoRow
  <2>1. row # NoRow
    BY DEF NoRow
  <2> QED BY <1>1, <2>1 DEF HInv, IInv, TypeOK
<1>4. req' = [req EXCEPT ![r] = q]
  OBVIOUS
<1> HIDE DEF q, g
<1>5. Current(rows', q)
  BY <1>2, <1>3 DEF Current
<1>6. Served' /\ Fresh'
  BY <1>1, <1>2, <1>4, <1>5, DeskMoves
<1> QED BY <1>6, SaveSteps

\* A decision sets the status of the row the desk has in hand.
LEMMA DecisionSteps ==
    ASSUME OneDesk, HInv, NEW r \in Requests, NEW s \in {"Approved", "Rejected"},
           SaveDecision(r, s)
    PROVE  Step
<1> DEFINE row == req[r].row
           new == Decision(row, s)
<1>1. /\ req[r].at = "found" /\ req[r].op = "approve"
      /\ row \in Guarantee /\ row.status = "Pending"
  BY Found DEF SaveDecision, At, MayStart
<1>2. rows' = [rows EXCEPT ![req[r].g] = new] /\ told' = told
      /\ req' = [req EXCEPT ![r] = [Idle EXCEPT !.op = "approve", !.at = "saved",
                                                !.g = req[r].g]]
  BY DEF SaveDecision, Save
<1> HIDE DEF row
<1>3. new \in Guarantee /\ new.status = s /\ new.expiry = row.expiry
  BY <1>1 DEF Decision, Guarantee, Statuses
<1> HIDE DEF new
<1>4. Changes(row, new)
  BY <1>1, <1>3 DEF Changes
<1> QED BY <1>1, <1>2, <1>3, <1>4, AnswerSteps DEF row

\* A renewal makes the cover longer.
LEMMA RenewalSteps ==
    ASSUME OneDesk, HInv, NEW r \in Requests, NEW e \in Dates, SaveRenewal(r, e)
    PROVE  Step
<1> DEFINE row == req[r].row
           new == [row EXCEPT !.expiry = e, !.status = "Renewed"]
<1>1. /\ req[r].at = "found" /\ req[r].op = "renew"
      /\ row \in Guarantee /\ row.status \in Covered
  BY Found DEF SaveRenewal, At, MayStart
<1>2. /\ row.expiry <= e
      /\ rows' = [rows EXCEPT ![req[r].g] = new] /\ told' = told
      /\ req' = [req EXCEPT ![r] = [Idle EXCEPT !.op = "renew", !.at = "saved",
                                                !.g = req[r].g]]
  BY DEF SaveRenewal, Extends, Save
<1>3. e \in Nat
  BY ConstantsAssumption
<1> HIDE DEF row
<1>4. new \in Guarantee /\ new.status = "Renewed" /\ new.expiry = e
  BY <1>1, <1>3 DEF Guarantee, Statuses
<1> HIDE DEF new
<1>5. Changes(row, new)
  BY <1>1, <1>2, <1>4 DEF Changes, Covered
<1> QED BY <1>1, <1>2, <1>4, <1>5, AnswerSteps DEF row

\* The text says the expiry date the row has now.
LEMMA NotifySteps ==
    ASSUME OneDesk, HInv, NEW r \in Requests, Notify(r)
    PROVE  Step
<1> DEFINE g == req[r].g
<1>1. Served' /\ Fresh'
  BY DeskEnds DEF Notify, At
<1>2. g \in Guarantees
  BY DEF HInv, IInv, Snapshots, InOrder, Notify, At
<1>3. rows[g].status = "Renewed" \/ (req[r].op = "approve" /\ rows[g].status \in {"Approved", "Rejected"})
  BY DEF HInv, Fresh, Current, Notify, At
<1>4. rows' = rows /\ (told' = told \/
         (told' = [told EXCEPT ![g] = rows[g].expiry]
          /\ Live(g) /\ rows[g].status \in {"Approved", "Renewed"}))
  BY <1>3 DEF Notify
<1> HIDE DEF g
<1>5. CASE told' = told
  BY <1>1, <1>4, <1>5, Unwritten DEF Step
<1>6. CASE told' = [told EXCEPT ![g] = rows[g].expiry]
           /\ Live(g) /\ rows[g].status \in {"Approved", "Renewed"}
  <2>1. rows[g].expiry \in Nat
    BY <1>2, <1>6, RowOf DEF HInv, Live, Guarantee
  <2>2. told'[g] = rows[g].expiry /\ \A h \in Guarantees \ {g} : told'[h] = told[h]
    BY <1>2, <1>6 DEF HInv, IInv, TypeOK
  <2>3. ToldStands'
    BY <1>4, <1>6, <2>1, <2>2 DEF HInv, ToldStands, Covered
  <2> QED BY <1>1, <1>4, <2>3 DEF Step, Classified
<1> QED BY <1>4, <1>5, <1>6

\* Reading a row changes nothing but the desk's snapshot.
LEMMA FindSteps ==
    ASSUME OneDesk, HInv, NEW r \in Requests, NEW op \in DeskOperations,
           NEW g \in Guarantees, FindGuarantee(r, op, g)
    PROVE  Step
<1> DEFINE q == [op |-> op, at |-> "found", g |-> g, row |-> rows[g]]
<1>1. req' = [req EXCEPT ![r] = q] /\ rows' = rows /\ told' = told
  BY DEF FindGuarantee
<1>2. q.op = op /\ Current(rows', q) /\ op \in Serves[r] \ Inserts
  BY <1>1 DEF FindGuarantee, Starts, Live, Inserted, Current, DeskOperations, Inserts
<1> HIDE DEF q
<1> QED BY <1>1, <1>2, DeskMoves, Unwritten DEF Step

\* A cancellation ends the cover for good.
LEMMA CancellationSteps ==
    ASSUME OneDesk, HInv, NEW r \in Requests, SaveCancellation(r)
    PROVE  Step
<1> DEFINE row == req[r].row
           new == [row EXCEPT !.status = "Cancelled"]
<1>1. req[r].at = "found" /\ row \in Guarantee /\ row.status # "Cancelled"
  BY Found DEF SaveCancellation, At, MayStart
<1>2. rows' = [rows EXCEPT ![req[r].g] = new] /\ Finish(r) /\ told' = told
  BY DEF SaveCancellation, Save
<1>3. Served' /\ Fresh'
  BY <1>1, <1>2, DeskEnds
<1> HIDE DEF row
<1>4. new \in Guarantee /\ new.status = "Cancelled" /\ new.expiry = row.expiry
  BY <1>1 DEF Guarantee, Statuses
<1> HIDE DEF new
<1>5. Changes(row, new)
  BY <1>1, <1>4 DEF Changes
<1> QED BY <1>1, <1>2, <1>3, <1>4, <1>5, SaveSteps DEF row

\* A golden period leaves status, expiry date and customer alone.
LEMMA GoldenSteps ==
    ASSUME OneDesk, HInv, NEW r \in Requests, NEW golden \in Period,
           req[r].at = "found",
           rows' = [rows EXCEPT ![req[r].g] = [req[r].row EXCEPT !.golden = golden]],
           Finish(r), told' = told
    PROVE  Step
<1> DEFINE row == req[r].row
           new == [row EXCEPT !.golden = golden]
<1>1. row \in Guarantee /\ rows' = [rows EXCEPT ![req[r].g] = new]
  BY Found
<1>2. Served' /\ Fresh'
  BY DeskEnds
<1> HIDE DEF row
<1>3. new \in Guarantee /\ new.status = row.status /\ new.expiry = row.expiry
  BY <1>1 DEF Guarantee
<1> HIDE DEF new
<1>4. Changes(row, new)
  BY <1>1, <1>3 DEF Changes
<1> QED BY <1>1, <1>2, <1>3, <1>4, SaveSteps DEF row

\* The bin changes whether a row is listed, not what it says.
LEMMA BinSteps ==
    ASSUME OneDesk, HInv, NEW r \in Requests, NEW g \in Guarantees,
           Delete(r, g) \/ Restore(r, g)
    PROVE  Step
<1>1. /\ Inserted(g) /\ told' = told /\ req' = req /\ req[r].at = "idle"
      /\ \E op \in {"delete", "restore"} : op \in Serves[r] \ Inserts
  BY DEF Delete, Restore, Live, Starts, Inserts
<1>2. rows[g] \in Guarantee
  BY <1>1, RowOf DEF HInv
<1>3. PICK b \in BOOLEAN : rows' = [rows EXCEPT ![g] = [rows[g] EXCEPT !.deleted = b]]
  BY DEF Delete, Restore, Save
<1> DEFINE new == [rows[g] EXCEPT !.deleted = b]
<1>4. new \in Guarantee /\ new.status = rows[g].status /\ new.expiry = rows[g].expiry
  BY <1>2 DEF Guarantee
<1>5. rows' = [rows EXCEPT ![g] = new]
  BY <1>3
<1> HIDE DEF new
<1>6. Write(g, new)
  BY <1>1, <1>2, <1>4, <1>5 DEF Write, Changes
<1>7. \A z \in Requests : req[z].at = "idle"
  BY <1>1, OthersIdle DEF HInv
<1>8. Served' /\ Fresh'
  BY <1>1, <1>7 DEF Served, Fresh, Current
<1> QED BY <1>4, <1>6, <1>8 DEF Step, Classified

\* A step of the clock writes no row.
LEMMA Unrequested ==
    ASSUME HInv, UNCHANGED <<rows, told, req>>
    PROVE  Step
<1>1. Served' /\ Fresh'
  BY DEF HInv, Served, Fresh, Current
<1> QED BY <1>1, Unwritten DEF Step

\* Every operation makes one allowed change of one guarantee, or none.
LEMMA NextSteps == ASSUME OneDesk, HInv, [Next]_vars PROVE Step
<1>1. ASSUME NEW r \in Requests, OfficeStep(r) PROVE Step
  <2>1. \A from \in Dates, months \in GoldenChoices :
            [from |-> from, until |-> from + months] \in Period
    BY ConstantsAssumption DEF Period
  <2>2. NoGolden \in Period
    BY DEF NoGolden, Period
  <2>3. ASSUME NEW from \in Dates, NEW months \in GoldenChoices,
               SaveGolden(r, from, months)
        PROVE  Step
    BY <2>1, <2>3, GoldenSteps DEF SaveGolden, At, Save
  <2>4. ASSUME SaveNoGolden(r) PROVE Step
    BY <2>2, <2>4, GoldenSteps DEF SaveNoGolden, At, Save
  <2> QED BY <1>1, <2>3, <2>4, FindSteps, EditSteps, DecisionSteps, RenewalSteps,
             NotifySteps, CancellationSteps, BinSteps
          DEF OfficeStep
<1>2. ASSUME NEW r \in Requests, Abandon(r) PROVE Step
  BY <1>2, DeskEnds, Unwritten DEF Abandon, Step
<1>3. CASE DayPasses
  BY <1>3, Unrequested DEF DayPasses
<1>4. CASE UNCHANGED vars
  BY <1>4, Unrequested DEF vars
<1> QED BY <1>1, <1>2, <1>3, <1>4, RegisterSteps, OfficeInsertSteps DEF Next

\* A row written in one of the ways of Changes stands by what the customer was
\* told.
LEMMA WriteKeepsPromise ==
    ASSUME HInv, NEW g \in Guarantees, NEW row \in Guarantee, Write(g, row)
    PROVE  ToldStands'
<1>1. rows'[g] = row /\ \A h \in Guarantees \ {g} : rows'[h] = rows[h]
  BY DEF HInv, IInv, TypeOK, Write
<1>2. told[g] # -1 => Inserted(g)
  BY DEF HInv, ToldStands, Inserted, NoRow, Covered
<1>3. told[g] # -1 => \/ row.status = "Cancelled"
                      \/ row.status \in Covered /\ told[g] <= row.expiry
  <2> SUFFICES ASSUME told[g] # -1
               PROVE  \/ row.status = "Cancelled"
                      \/ row.status \in Covered /\ told[g] <= row.expiry
    OBVIOUS
  <2>1. rows[g] \in Guarantee /\ told[g] \in Int
    BY <1>2, RowOf DEF HInv, IInv, TypeOK
  <2>2. \/ rows[g].status = "Cancelled"
        \/ rows[g].status \in Covered /\ told[g] <= rows[g].expiry
    BY DEF HInv, ToldStands
  <2>3. rows[g].expiry \in Nat /\ row.expiry \in Nat
    BY <2>1 DEF Guarantee
  <2>4. Changes(rows[g], row)
    BY DEF Write
  <2> QED BY <1>2, <2>1, <2>2, <2>3, <2>4 DEF Changes, Covered, Inserted
<1> QED BY <1>1, <1>3 DEF HInv, ToldStands, Write

\* Every statement of every request keeps it.
LEMMA HInvNext == ASSUME OneDesk PROVE HInv /\ [Next]_vars => HInv'
<1> SUFFICES ASSUME HInv, [Next]_vars PROVE HInv'
  OBVIOUS
<1>1. IInv'
  BY InvNext DEF HInv
<1>2. Step
  BY NextSteps
<1> QED BY <1>1, <1>2, WriteKeepsPromise DEF Step, Classified, HInv

\* With one desk, a customer who was told until when the product is covered
\* keeps that cover unless the guarantee is cancelled.
THEOREM ToldStandsHolds == ASSUME OneDesk PROVE Spec => []ToldStands
<1>1. HInv /\ [Next]_vars => HInv'
  BY HInvNext
<1>2. HInv => ToldStands
  BY DEF HInv
<1> QED BY <1>1, <1>2, HInvInit, PTL DEF Spec

\* ... its expiry date only moves forward while it covers the product ...
THEOREM CoverGrowsHolds == ASSUME OneDesk PROVE Spec => CoverGrows
<1>1. HInv /\ [Next]_vars => [CoverOnlyGrows]_vars
  <2> SUFFICES ASSUME HInv, [Next]_vars, NEW g \in Guarantees,
                      Inserted(g), rows[g].status \in Covered, rows'[g].status \in Covered
               PROVE  rows[g].expiry <= rows'[g].expiry
    BY DEF CoverOnlyGrows
  <2>1. rows[g].expiry \in Nat
    BY RowOf DEF HInv, Guarantee
  <2>2. ASSUME NEW h \in Guarantees, NEW row \in Guarantee, Write(h, row)
        PROVE  rows[g].expiry <= rows'[g].expiry
    <3>1. IF g = h THEN rows'[g] = row ELSE rows'[g] = rows[g]
      BY <2>2 DEF HInv, IInv, TypeOK, Write
    <3>2. Changes(rows[h], row)
      BY <2>2 DEF Write
    <3> QED BY <2>1, <3>1, <3>2 DEF Changes, Covered, Inserted
  <2> QED BY <2>1, <2>2, NextSteps DEF Step, Classified
<1>2. HInv /\ [Next]_vars => HInv'
  BY HInvNext
<1> QED BY <1>1, <1>2, HInvInit, PTL DEF Spec, CoverGrows

\* ... and only a refused application is ever put back before the reviewers.
THEOREM ReopensRefusedHolds == ASSUME OneDesk PROVE Spec => ReopensRefused
<1>1. HInv /\ [Next]_vars => [OnlyRefusedReopen]_vars
  <2> SUFFICES ASSUME HInv, [Next]_vars, NEW g \in Guarantees,
                      Inserted(g), rows'[g].status = "Pending"
               PROVE  rows[g].status \in {"Pending", "Rejected"}
    BY DEF OnlyRefusedReopen
  <2>1. ASSUME NEW h \in Guarantees, NEW row \in Guarantee, Write(h, row)
        PROVE  rows[g].status \in {"Pending", "Rejected"}
    <3>1. IF g = h THEN rows'[g] = row ELSE rows'[g] = rows[g]
      BY <2>1 DEF HInv, IInv, TypeOK, Write
    <3>2. Changes(rows[h], row)
      BY <2>1 DEF Write
    <3> QED BY <3>1, <3>2 DEF Changes, Covered, Inserted
  <2> QED BY <2>1, NextSteps DEF Step, Classified
<1>2. HInv /\ [Next]_vars => HInv'
  BY HInvNext
<1> QED BY <1>1, <1>2, HInvInit, PTL DEF Spec, ReopensRefused

-----------------------------------------------------------------------------
(* Refinement *)

\* The card a row stands for, by its status.
LEMMA PhaseOfRow ==
    ASSUME NEW row \in Guarantee
    PROVE  /\ row.status = "Pending" => PhaseOf(row) = "pending"
           /\ row.status = "Rejected" => PhaseOf(row) = "refused"
           /\ row.status \in Covered => PhaseOf(row) = "covered"
           /\ row.status = "Cancelled" => PhaseOf(row) = "void"
           /\ PhaseOf(row) \in {"pending", "refused", "covered", "void"}
  BY DEF Guarantee, Statuses, Covered, PhaseOf

\* No row, no card.
LEMMA PhaseOfNoRow == PhaseOf(NoRow) = "none"
<1>1. NoRow.status = "None"
  BY DEF NoRow
<1> QED BY <1>1 DEF PhaseOf, Covered

\* Writing one row moves one card.
LEMMA WriteMoves ==
    ASSUME HInv, NEW g \in Guarantees, NEW row \in Guarantee, Write(g, row)
    PROVE  /\ phase' = [phase EXCEPT ![g] = PhaseOf(row)]
           /\ until' = [until EXCEPT ![g] = row.expiry]
           /\ until'[g] = row.expiry
<1>1. rows' = [rows EXCEPT ![g] = row] /\ rows \in [Guarantees -> Guarantee \union {NoRow}]
  BY DEF HInv, IInv, TypeOK, Write
<1>2. row # NoRow
  BY DEF NoRow, Guarantee
<1>3. rows'[g] = row /\ \A h \in Guarantees \ {g} : rows'[h] = rows[h]
  BY <1>1
<1>4. phase' = [phase EXCEPT ![g] = PhaseOf(row)]
  BY <1>3 DEF phase
<1>5. until' = [until EXCEPT ![g] = row.expiry] /\ until'[g] = row.expiry
  BY <1>2, <1>3 DEF until, Inserted
<1> QED BY <1>4, <1>5

\* Every step of a handler is a step of the card or none.
LEMMA StepSimulated ==
    ASSUME OneDesk, HInv, [Next]_vars PROVE [Card!Next]_(Card!vars)
<1>1. CASE rows' = rows
  BY <1>1 DEF Card!vars, phase, until, Inserted
<1>2. ASSUME NEW g \in Guarantees, NEW row \in Guarantee, Write(g, row)
      PROVE  [Card!Next]_(Card!vars)
  <2> DEFINE old == rows[g]
  <2>0. /\ phase' = [phase EXCEPT ![g] = PhaseOf(row)]
        /\ until' = [until EXCEPT ![g] = row.expiry] /\ until'[g] = row.expiry
    BY <1>2, WriteMoves
  <2>1. row.expiry \in Nat
    BY DEF Guarantee
  <2>2. Card!Dated(g)
    BY <2>0, <2>1 DEF Card!Dated
  <2>3. phase[g] = PhaseOf(old) /\ until[g] = IF old # NoRow THEN old.expiry ELSE 0
    BY DEF phase, until, Inserted
  <2>4. Changes(old, row)
    BY <1>2 DEF Write
  <2>5. phase \in [Guarantees -> {PhaseOf(rows[h]) : h \in Guarantees}]
        /\ until = [h \in Guarantees |-> until[h]]
    BY DEF phase, until
  <2> HIDE DEF old
  <2>6. CASE old = NoRow /\ row.status \in {"Pending", "Approved", "Rejected"}
    <3>1. phase[g] = "none"
      BY <2>3, <2>6, PhaseOfNoRow
    <3>2. PhaseOf(row) \in {"pending", "refused", "covered"}
      BY <2>6, PhaseOfRow DEF Covered
    <3> QED BY <2>0, <2>2, <3>1, <3>2 DEF Card!Next, Card!Open, Card!Move
  <2>7. CASE old \in Guarantee
    <3>0. old # NoRow /\ old.expiry \in Nat /\ until[g] = old.expiry
      BY <2>3, <2>7 DEF NoRow, Guarantee
    <3>1. CASE old.status \in {"Pending", "Rejected"} /\ row.status = "Pending"
      <4>1. phase[g] \in {"pending", "refused"} /\ PhaseOf(row) = "pending"
        BY <2>3, <2>7, <3>1, PhaseOfRow
      <4> QED BY <2>0, <2>2, <4>1 DEF Card!Next, Card!Submit, Card!Move
    <3>2. CASE /\ old.status = "Pending" /\ row.status \in {"Approved", "Rejected"}
               /\ row.expiry = old.expiry
      <4>1. phase[g] = "pending" /\ PhaseOf(row) \in {"refused", "covered"}
        BY <2>3, <2>7, <3>2, PhaseOfRow DEF Covered
      <4>2. until' = until
        BY <2>0, <2>5, <3>0, <3>2
      <4> QED BY <2>0, <4>1, <4>2 DEF Card!Next, Card!Decide, Card!Move
    <3>3. CASE old.status \in Covered /\ row.status \in Covered /\ old.expiry <= row.expiry
      <4>1. phase[g] = "covered" /\ PhaseOf(row) = "covered"
        BY <2>3, <2>7, <3>3, PhaseOfRow
      <4> QED BY <2>0, <2>2, <3>0, <3>3, <4>1 DEF Card!Next, Card!Extend, Card!Move
    <3>4. CASE /\ old.status # "Cancelled" /\ row.status = "Cancelled"
               /\ row.expiry = old.expiry
      <4>1. phase[g] \in {"pending", "refused", "covered"} /\ PhaseOf(row) = "void"
        BY <2>3, <2>7, <3>4, PhaseOfRow DEF Guarantee, Statuses, Covered
      <4>2. until' = until
        BY <2>0, <2>5, <3>0, <3>4
      <4> QED BY <2>0, <4>1, <4>2 DEF Card!Next, Card!Void, Card!Move
    <3>5. CASE row.status = old.status /\ row.expiry = old.expiry
      <4>1. PhaseOf(row) = phase[g]
        BY <2>3, <3>5 DEF PhaseOf
      <4>2. until' = until
        BY <2>0, <2>5, <3>0, <3>5
      <4>3. phase' = phase
        BY <2>0, <2>5, <4>1
      <4> QED BY <4>2, <4>3 DEF Card!vars
    <3> QED BY <2>4, <2>7, <3>0, <3>1, <3>2, <3>3, <3>4, <3>5 DEF Changes
  <2> QED BY <2>4, <2>6, <2>7 DEF Changes
<1> QED BY <1>1, <1>2, NextSteps DEF Step, Classified

\* With one desk, the operations of Guarantees implement the promise a
\* guarantee makes to the customer who holds it.
THEOREM CardSpecHolds == ASSUME OneDesk PROVE Spec => CardSpec
<1>1. Init => Card!Init
  BY PhaseOfNoRow DEF Init, Card!Init, phase, until, Inserted
<1>2. HInv /\ [Next]_vars => [Card!Next]_(Card!vars)
  BY StepSimulated
<1>3. HInv /\ [Next]_vars => HInv'
  BY HInvNext
<1> QED BY <1>1, <1>2, <1>3, HInvInit, PTL DEF Spec, CardSpec, Card!Spec
=============================================================================
