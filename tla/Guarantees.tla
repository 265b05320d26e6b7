------------------------------ MODULE Guarantees ------------------------------
(***************************************************************************)
(* The life of a guarantee (internal/modules/guarantees): registration by  *)
(* the customer or the office, re-application after a refusal, editing,    *)
(* review, renewal, the golden period, cancellation, the recycle bin, and  *)
(* the messages that tell a customer how long the product is covered.      *)
(*                                                                         *)
(* The office's handlers read the row, check it and later save all of it:  *)
(* what they read travels in req[r] (see PartShipments for the pattern).   *)
(* A date is a number, and adding months to it is addition.                *)
(***************************************************************************)
EXTENDS Integers

CONSTANTS Guarantees,     \* ids of guarantees rows
          Codes,          \* codes printed on products, and generated ones
          Customers,      \* ids of customers rows
          Products,       \* ids of products rows
          ProductOf,      \* the product whose pattern a code matches, or None
          DefaultMonths,  \* default_guarantee_months of a product
          GoldenMonths,   \* golden_guarantee_months of a product
          Dates,          \* the dates a form may carry
          LastDay,        \* bound: the clock stops here
          GoldenChoices,  \* golden_months an admin may choose
          Requests,       \* requests that may be in flight together
          Serves,         \* which operations each of them may be
          None            \* "not given"

Operations == {"register", "create", "adminCreate", "update", "approve", "renew",
               "cancel", "setGolden", "removeGolden", "delete", "restore"}

ASSUME ConstantsAssumption ==
    /\ ProductOf \in [Codes -> Products \union {None}]
    /\ None \notin Guarantees \union Codes \union Customers \union Products \union Nat
    /\ DefaultMonths \in [Products -> Nat]
    /\ GoldenMonths \in [Products -> Nat]
    /\ Dates \subseteq Nat
    /\ LastDay \in Nat
    /\ 0..LastDay \subseteq Dates
    /\ GoldenChoices \subseteq Nat
    /\ Serves \in [Requests -> SUBSET Operations]

\* A workload in which one request at a time touches a guarantee that exists;
\* the office may enter new ones beside it.
OneDesk == \E d \in Requests : \A r \in Requests \ {d} :
    Serves[r] \subseteq {"create", "adminCreate"}

VARIABLES rows,    \* the guarantees table
          today,   \* the server's clock, in days
          told,    \* history: the expiry date of the last message to a customer
          req      \* the requests in flight and what they have read

vars == <<rows, today, told, req>>

-----------------------------------------------------------------------------
(* Rows *)

\* Expired is never stored: nothing calls UpdateExpiredStatus.
Statuses == {"Pending", "Approved", "Rejected", "Renewed", "Cancelled"}

Covered == {"Approved", "Renewed"}

\* golden_start_date and golden_expiry_date; NULL is a period without days.
Period == [from : Nat, until : Int]
NoGolden == [from |-> 0, until |-> -1]

\* approved_by and approved_at are set and cleared together.
Guarantee == [code : Codes, customer : Customers, product : Products,
              purchase : Nat, expiry : Nat, golden : Period,
              status : Statuses, approved : BOOLEAN, deleted : BOOLEAN]

\* A row not inserted yet.
NoRow == [status |-> "None"]

Inserted(g) == rows[g] # NoRow
Live(g) == Inserted(g) /\ ~rows[g].deleted

\* uq_guarantees_code_live, which a Save of a whole row meets like an INSERT.
CodeFree(g, code) == \A h \in Guarantees \ {g} : Live(h) => rows[h].code # code

\* gorm's Save: all columns, and a row deleted meanwhile is live again.
Save(g, row) == /\ CodeFree(g, row.code)
                /\ rows' = [rows EXCEPT ![g] = row]

\* The golden period of an earlier product stays when the new one has none.
ApplyPeriods(row, d, p) ==
    [row EXCEPT !.purchase = d, !.expiry = d + DefaultMonths[p],
                !.golden = IF GoldenMonths[p] > 0
                           THEN [from |-> d, until |-> d + GoldenMonths[p]] ELSE @]

ValidDates(row) == row.purchase <= row.expiry /\ today < row.expiry

NewRow(code, c, p, status) ==
    [code |-> code, customer |-> c, product |-> p, purchase |-> 0, expiry |-> 0,
     golden |-> NoGolden, status |-> status, approved |-> status = "Approved",
     deleted |-> FALSE]

-----------------------------------------------------------------------------
(* Requests in flight *)

Idle == [op |-> "none", at |-> "idle", g |-> None, row |-> NoRow]

Request == [op : Operations \union {"none"},
            at : {"idle", "free", "refused", "found", "saved"},
            g : Guarantees \union {None}, row : Guarantee \union {NoRow}]

Starts(r, op) == req[r].at = "idle" /\ op \in Serves[r]
At(r, ops, point) == req[r].op \in ops /\ req[r].at = point
Finish(r) == req' = [req EXCEPT ![r] = Idle]

-----------------------------------------------------------------------------
(* PublicRegister: one transaction without locks *)

\* The application as it will be inserted, while the code looks free.
FindCodeFree(r, c, code, d) ==
    /\ Starts(r, "register")
    /\ ProductOf[code] # None
    /\ \A g \in Guarantees : Live(g) => rows[g].code # code
    /\ LET row == ApplyPeriods(NewRow(code, c, ProductOf[code], "Pending"),
                               d, ProductOf[code])
       IN /\ ValidDates(row)
          /\ req' = [req EXCEPT ![r] = [Idle EXCEPT !.op = "register",
                                                    !.at = "free", !.row = row]]
    /\ UNCHANGED <<rows, today, told>>

InsertApplication(r, g) ==
    /\ At(r, {"register"}, "free")
    /\ ~Inserted(g)
    /\ Save(g, req[r].row)
    /\ Finish(r)
    /\ UNCHANGED <<today, told>>

\* Mutant: whoever registered the code may register it again at any time.
ReapplyAnyway(row, c) == row.customer = c

\* A rejected application of the same customer may be submitted again.
MayReapply(row, c) == row.status = "Rejected" /\ row.customer = c

FindRefused(r, g, c, d) ==
    /\ Starts(r, "register")
    /\ Live(g)
    /\ ProductOf[rows[g].code] # None
    /\ MayReapply(rows[g], c)
    /\ LET p == ProductOf[rows[g].code]
           row == [ApplyPeriods(rows[g], d, p) EXCEPT !.product = p,
                       !.status = "Pending", !.approved = FALSE]
       IN /\ ValidDates(row)
          /\ req' = [req EXCEPT ![r] = [op |-> "register", at |-> "refused",
                                        g |-> g, row |-> row]]
    /\ UNCHANGED <<rows, today, told>>

\* reapplyRejected updates these columns of whatever live row it finds by id;
\* when there is none it updates nothing and still reports success.
Reapply(r) ==
    /\ At(r, {"register"}, "refused")
    /\ LET g == req[r].g
           new == req[r].row
       IN rows' = IF ~Live(g) THEN rows ELSE
              [rows EXCEPT ![g] = [new EXCEPT !.code = rows[g].code,
                                              !.customer = rows[g].customer]]
    /\ Finish(r)
    /\ UNCHANGED <<today, told>>

-----------------------------------------------------------------------------
(* Create and CreateByAdmin: a single INSERT decides *)

\* A generated code names no product; cover is typed in, and not golden.
Create(r, g, c, code, p, d, e) ==
    /\ Starts(r, "create")
    /\ ~Inserted(g)
    /\ ProductOf[code] = None
    /\ LET row == [NewRow(code, c, p, "Pending") EXCEPT !.purchase = d, !.expiry = e]
       IN ValidDates(row) /\ Save(g, row)
    /\ UNCHANGED <<today, told, req>>

\* d is today unless the office typed a date; e is what it typed, or None.
CreateByAdmin(r, g, c, code, d, e, status) ==
    /\ Starts(r, "adminCreate")
    /\ ~Inserted(g)
    /\ ProductOf[code] # None
    /\ LET row == ApplyPeriods(NewRow(code, c, ProductOf[code], status),
                               d, ProductOf[code])
           end == IF e = None THEN row.expiry ELSE e
       IN /\ d <= end
          /\ Save(g, [row EXCEPT !.expiry = end])
    /\ UNCHANGED <<today, told, req>>

-----------------------------------------------------------------------------
(* The office: find, check, save, and for two of them a message *)

\* Mutant: an approved guarantee may still be edited.
EditApproved(op, status) ==
    CASE op = "approve"               -> status = "Pending"
      [] op = "update"                -> status \in {"Pending", "Approved"}
      [] op \in {"renew", "setGolden"} -> status \in Covered
      [] op = "cancel"                -> status # "Cancelled"
      [] OTHER                        -> TRUE

MayStart(op, status) ==
    CASE op \in {"update", "approve"}  -> status = "Pending"
      [] op \in {"renew", "setGolden"} -> status \in Covered
      [] op = "cancel"                 -> status # "Cancelled"
      [] OTHER                         -> TRUE

DeskOperations == {"update", "approve", "renew", "cancel", "setGolden", "removeGolden"}

FindGuarantee(r, op, g) ==
    /\ Starts(r, op)
    /\ Live(g)
    /\ MayStart(op, rows[g].status)
    /\ req' = [req EXCEPT ![r] = [op |-> op, at |-> "found", g |-> g, row |-> rows[g]]]
    /\ UNCHANGED <<rows, today, told>>

\* An edit gives any of these fields or leaves them.
Edit == [customer : Customers \union {None}, code : Codes \union {None},
         product : Products \union {None}, purchase : Dates \union {None},
         expiry : Dates \union {None}]

Given(new, old) == IF new = None THEN old ELSE new

\* A new code decides the product, whatever product the edit names; a new code,
\* product or purchase date moves the periods; a typed expiry date wins.
Edited(row, e) ==
    LET recoded == e.code # None /\ e.code # row.code
        bought == Given(e.purchase, row.purchase)
        new == [row EXCEPT !.customer = Given(e.customer, @),
                           !.code = Given(e.code, @),
                           !.product = IF recoded THEN ProductOf[e.code]
                                                  ELSE Given(e.product, @),
                           !.purchase = bought]
        moved == IF recoded \/ bought # row.purchase \/ e.product # None
                 THEN ApplyPeriods(new, bought, new.product) ELSE new
    IN [moved EXCEPT !.expiry = Given(e.expiry, @)]

SaveEdit(r, e) ==
    /\ At(r, {"update"}, "found")
    /\ (e.code # None /\ e.code # req[r].row.code) => ProductOf[e.code] # None
    /\ ValidDates(Edited(req[r].row, e))
    /\ Save(req[r].g, Edited(req[r].row, e))
    /\ Finish(r)
    /\ UNCHANGED <<today, told>>

\* Mutant: the decision does not record who made it.
Unrecorded(row, status) == [row EXCEPT !.status = status]

\* Mutant: deciding on lapsed cover stores the status nothing else expects.
StoreExpiry(row, status) ==
    [row EXCEPT !.status = IF row.expiry < today THEN "Expired" ELSE status,
                !.approved = TRUE]

Decision(row, status) == [row EXCEPT !.status = status, !.approved = TRUE]

SaveDecision(r, status) ==
    /\ At(r, {"approve"}, "found")
    /\ Save(req[r].g, Decision(req[r].row, status))
    /\ req' = [req EXCEPT ![r] = [Idle EXCEPT !.op = "approve", !.at = "saved",
                                              !.g = req[r].g]]
    /\ UNCHANGED <<today, told>>

\* Mutant: any date at all is a renewal.
AnyDate(row, e) == TRUE

Extends(row, e) == row.expiry <= e

SaveRenewal(r, e) ==
    /\ At(r, {"renew"}, "found")
    /\ Extends(req[r].row, e)
    /\ Save(req[r].g, [req[r].row EXCEPT !.expiry = e, !.status = "Renewed"])
    /\ req' = [req EXCEPT ![r] = [Idle EXCEPT !.op = "renew", !.at = "saved",
                                              !.g = req[r].g]]
    /\ UNCHANGED <<today, told>>

\* The handler reads the row again and texts the customer what it says now.
Notify(r) ==
    /\ At(r, {"approve", "renew"}, "saved")
    /\ LET g == req[r].g
       IN told' = IF Live(g) /\ (req[r].op = "renew" \/ rows[g].status = "Approved")
                  THEN [told EXCEPT ![g] = rows[g].expiry] ELSE told
    /\ Finish(r)
    /\ UNCHANGED <<rows, today>>

SaveCancellation(r) ==
    /\ At(r, {"cancel"}, "found")
    /\ Save(req[r].g, [req[r].row EXCEPT !.status = "Cancelled"])
    /\ Finish(r)
    /\ UNCHANGED <<today, told>>

\* From today, from the purchase date or from a date of choice.
SaveGolden(r, from, months) ==
    /\ At(r, {"setGolden"}, "found")
    /\ from + months <= req[r].row.expiry
    /\ Save(req[r].g, [req[r].row EXCEPT !.golden = [from |-> from,
                                                     until |-> from + months]])
    /\ Finish(r)
    /\ UNCHANGED <<today, told>>

SaveNoGolden(r) ==
    /\ At(r, {"removeGolden"}, "found")
    /\ Save(req[r].g, [req[r].row EXCEPT !.golden = NoGolden])
    /\ Finish(r)
    /\ UNCHANGED <<today, told>>

Delete(r, g) ==
    /\ Starts(r, "delete")
    /\ Live(g)
    /\ rows' = [rows EXCEPT ![g].deleted = TRUE]
    /\ UNCHANGED <<today, told, req>>

\* The bin refuses when another live guarantee has the code by now.
Restore(r, g) ==
    /\ Starts(r, "restore")
    /\ Inserted(g) /\ rows[g].deleted
    /\ Save(g, [rows[g] EXCEPT !.deleted = FALSE])
    /\ UNCHANGED <<today, told, req>>

-----------------------------------------------------------------------------

Abandon(r) ==
    /\ req[r].at # "idle"
    /\ Finish(r)
    /\ UNCHANGED <<rows, today, told>>

DayPasses ==
    /\ today < LastDay
    /\ today' = today + 1
    /\ UNCHANGED <<rows, told, req>>

Init ==
    /\ rows = [g \in Guarantees |-> NoRow]
    /\ today = 0
    /\ told = [g \in Guarantees |-> -1]
    /\ req = [r \in Requests |-> Idle]

RegisterStep(r) ==
    \/ \E c \in Customers, d \in Dates :
          \/ \E code \in Codes : FindCodeFree(r, c, code, d)
          \/ \E g \in Guarantees : FindRefused(r, g, c, d)
    \/ \E g \in Guarantees : InsertApplication(r, g)
    \/ Reapply(r)

OfficeInsert(r) ==
    \E g \in Guarantees, c \in Customers, code \in Codes, d \in Dates :
        \/ \E p \in Products, e \in Dates : Create(r, g, c, code, p, d, e)
        \/ \E e \in Dates \union {None}, s \in {"Pending", "Approved", "Rejected"} :
              CreateByAdmin(r, g, c, code, d, e, s)

OfficeStep(r) ==
    \/ \E op \in DeskOperations, g \in Guarantees : FindGuarantee(r, op, g)
    \/ \E e \in Edit : SaveEdit(r, e)
    \/ \E s \in {"Approved", "Rejected"} : SaveDecision(r, s)
    \/ \E e \in Dates : SaveRenewal(r, e)
    \/ Notify(r)
    \/ SaveCancellation(r)
    \/ \E from \in Dates, months \in GoldenChoices :
          SaveGolden(r, from, months)
    \/ SaveNoGolden(r)
    \/ \E g \in Guarantees : Delete(r, g) \/ Restore(r, g)

Next == \/ \E r \in Requests : RegisterStep(r) \/ OfficeInsert(r) \/ OfficeStep(r)
                                 \/ Abandon(r)
        \/ DayPasses

Spec == Init /\ [][Next]_vars

-----------------------------------------------------------------------------
(* How a guarantee is shown *)

\* Mutant: the golden period is looked at before the cover itself.
GoldenFirst(row) ==
    IF row.status \notin Covered THEN ""
    ELSE IF row.golden.from <= today /\ today <= row.golden.until THEN "Golden"
    ELSE IF today > row.expiry THEN "Expired" ELSE "Normal"

\* The badge, computed in Go from one row.
Tier(row) ==
    IF row.status \notin Covered THEN ""
    ELSE IF today > row.expiry THEN "Expired"
    ELSE IF row.golden.from <= today /\ today <= row.golden.until THEN "Golden"
    ELSE "Normal"

\* The tab of the list, selected in SQL; it does not look at golden_start_date.
InTab(tab, row) ==
    /\ row.status \in Covered
    /\ CASE tab = "golden"  -> today <= row.golden.until /\ today <= row.expiry
         [] tab = "normal"  -> today > row.golden.until /\ today <= row.expiry
         [] tab = "expired" -> today > row.expiry

-----------------------------------------------------------------------------
(* Properties *)

\* Every variable, and every row a request carries, keeps its type; in
\* particular no status is ever stored that reviews and renewals do not know.
TypeOK ==
    /\ rows \in [Guarantees -> Guarantee \union {NoRow}]
    /\ today \in 0..LastDay
    /\ told \in [Guarantees -> Int]
    /\ req \in [Requests -> Request]

\* What a row of each status must carry.
Consistent(row) ==
    /\ row.status = "Pending" => ~row.approved
    /\ row.status \in Covered => row.approved
    /\ row.purchase <= row.expiry

\* However requests race and whatever they overwrite, an approved or renewed
\* guarantee names who approved it, one waiting for review names nobody, and
\* no cover ends before the purchase.
ReviewTrail == \A g \in Guarantees : Inserted(g) => Consistent(rows[g])

\* A customer who was told that the product is covered until some day keeps
\* that cover, unless the office cancels the guarantee (Approve, Renew and
\* "Can only update pending guarantees").
ToldStands ==
    \A g \in Guarantees : told[g] # -1 =>
        \/ rows[g].status = "Cancelled"
        \/ rows[g].status \in Covered /\ told[g] <= rows[g].expiry

\* Badge and tab agree on what has expired, and a golden guarantee is never
\* listed as a normal one. (A golden period yet to begin is on the golden tab
\* under a normal badge.)
TabsAgree ==
    \A g \in Guarantees : Live(g) =>
        /\ Tier(rows[g]) = "Expired" <=> InTab("expired", rows[g])
        /\ Tier(rows[g]) = "Golden" => InTab("golden", rows[g])
        /\ InTab("normal", rows[g]) => Tier(rows[g]) = "Normal"

\* Only a refused application goes back to the review queue (PublicRegister:
\* "a guarantee in any other state - still gets the conflict").
OnlyRefusedReopen ==
    \A g \in Guarantees : Inserted(g) /\ rows'[g].status = "Pending" =>
        rows[g].status \in {"Pending", "Rejected"}

ReopensRefused == [][OnlyRefusedReopen]_vars

\* While a guarantee covers its product, its expiry date only moves forward
\* ("New expiry date must be after current expiry date", Renew).
CoverOnlyGrows ==
    \A g \in Guarantees :
        Inserted(g) /\ rows[g].status \in Covered /\ rows'[g].status \in Covered =>
            rows[g].expiry <= rows'[g].expiry

CoverGrows == [][CoverOnlyGrows]_vars

-----------------------------------------------------------------------------
(* Refinement *)

PhaseOf(row) ==
    CASE row.status = "None"      -> "none"
      [] row.status = "Pending"   -> "pending"
      [] row.status = "Rejected"  -> "refused"
      [] row.status \in Covered   -> "covered"
      [] row.status = "Cancelled" -> "void"

phase == [g \in Guarantees |-> PhaseOf(rows[g])]
until == [g \in Guarantees |-> IF Inserted(g) THEN rows[g].expiry ELSE 0]

Card == INSTANCE CoverCard

\* One request at a time, a guarantee keeps what the card promises; being in
\* the bin does not change it.
CardSpec == Card!Spec
=============================================================================
