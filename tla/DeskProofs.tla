------------------------------ MODULE DeskProofs ------------------------------
(***************************************************************************)
(* The properties of Desk, for every set of rows, both kinds of account    *)
(* and any number of confirmations and moves of others, on all the pages   *)
(* of ListPages.                                                           *)
(*                                                                         *)
(* What the proofs need of the pages is PageOK, which is established page  *)
(* by page from the tables; the rest is about the state machine only.      *)
(***************************************************************************)
EXTENDS Desk, TLAPS

-----------------------------------------------------------------------------
(* What holds of every page. *)

\* Rows only move forward, in this order.
Rank ==
    [Listed |-> 0, Draft |-> 1, Sending |-> 2, Closed |-> 3, Pending |-> 4, Sent |-> 5,
     Approved |-> 6, Received |-> 7, NotDelivered |-> 8, Renewed |-> 9, Invoiced |-> 10,
     Paid |-> 11, Delivered |-> 12, Expired |-> 13, Rejected |-> 14, Cancelled |-> 15,
     gone |-> 16]

\* A menu offers an item where the server takes the operation, which leads forward;
\* what a dialog keeps, and forms, are as KeepsText and Astray say.
DialogOK(p, statuses, a, d) ==
    /\ d.offered \subseteq d.taken /\ d.taken \subseteq statuses
    /\ d.to \in statuses \union {"gone", None}
    /\ d.to # None => \A x \in d.taken : Rank[x] <= Rank[d.to]
    /\ "keeps" \in d.traits => <<p, d.key>> \in KeepsText
    /\ d.key = "form" => a = "edit" /\ ("own" \in d.traits \/ <<p, "form">> \in Astray)
    /\ a = "delete" => d.key = "delete"
    /\ p = "guarantees" /\ "box" \in d.traits => d.key = "cancel"

\* The order of the statuses is a strict one.
LEMMA RankOrders ==
    /\ Rank \in [DOMAIN Rank -> Nat]
    /\ \A x, y \in DOMAIN Rank : Rank[x] = Rank[y] => x = y
PROOF
  BY DEF Rank

\* A page that never selects a row.
RowLess(P) == "views" \notin P.traits /\ \A a \in DOMAIN P.acts : "own" \in P.acts[a].traits

PageOK(p, P) ==
    /\ P.first \in P.statuses /\ P.statuses \subseteq DOMAIN Rank \ {"gone"}
    /\ "none" \notin DOMAIN P.acts /\ "add" \notin DOMAIN P.acts
    /\ \A a \in DOMAIN P.acts : DialogOK(p, P.statuses, a, P.acts[a])
    /\ p = "guarantees" => /\ {"approve", "reject"} \subseteq DOMAIN P.acts
                           /\ P.acts["approve"].key = "approve"
                           /\ P.acts["reject"].key = "approve"
    /\ P.add # "none" => \/ RowLess(P)
                         \/ /\ "edit" \in DOMAIN P.acts /\ P.acts["edit"].key = "form"
                            /\ <<p, "form">> \in Astray

\* Every page is as PageOK says, the guarantees' one shown item by item.
LEMMA PagesOK == \A p \in DOMAIN PageTable : PageOK(p, PageTable[p])
PROOF
  <1>1. DOMAIN PageTable = {"repairs", "requests", "parcels", "finance", "guarantees",
                             "technicians", "customers", "products", "categories",
                             "catalog", "patterns", "polls", "myRequests", "myParcels"}
    BY DEF PageTable
  <1>2. PageOK("repairs", PageTable["repairs"])
    <2>1. PageTable["repairs"] = RepairsPage
      BY DEF PageTable
    <2>2. PageOK("repairs", RepairsPage)
      BY DEF RepairsPage, Page, RepairTable, RepairStatus, RepairReviewDialog,
         RepairCancelDialog, RepairDeleteDialog, DeleteDialog, Dialog,
        Offer, At, PageOK, DialogOK, RowLess, Rank, KeepsText, Astray
    <2> QED BY <2>1, <2>2
  <1>3. PageOK("requests", PageTable["requests"])
    <2>1. PageTable["requests"] = PartRequestsPage
      BY DEF PageTable
    <2>2. PageOK("requests", PartRequestsPage)
      BY DEF PartRequestsPage, Page, PartRequestTable, RequestStatus,
         PartRequestStatusDialog, PartRequestDeleteDialog, DeleteDialog, Dialog,
        Offer, At, PageOK, DialogOK, RowLess, Rank, KeepsText, Astray
    <2> QED BY <2>1, <2>2
  <1>4. PageOK("parcels", PageTable["parcels"])
    <2>1. PageTable["parcels"] = PartShipmentsPage
      BY DEF PageTable
    <2>2. PageOK("parcels", PartShipmentsPage)
      BY DEF PartShipmentsPage, Page, PartShipmentTable, ParcelStatus,
         PartShipmentReceiveDialog, PartShipmentRejectDialog,
        PartShipmentDeleteDialog, DeleteDialog, Dialog,
        Offer, At, PageOK, DialogOK, RowLess, Rank, KeepsText, Astray
    <2> QED BY <2>1, <2>2
  <1>5. PageOK("finance", PageTable["finance"])
    <2>1. PageTable["finance"] = FinancePage
      BY DEF PageTable
    <2>2. PageOK("finance", FinancePage)
      BY DEF FinancePage, Page, FinanceTable, ParcelStatus,
         PartShipmentInvoiceDialog, PartShipmentPayDialog, Dialog,
        Offer, At, PageOK, DialogOK, RowLess, Rank, KeepsText, Astray
    <2> QED BY <2>1, <2>2
  <1>6. PageOK("guarantees", PageTable["guarantees"])
    <2> DEFINE ok(a, d) == DialogOK("guarantees", GuaranteeStatus, a, d)
    <2>1. ok("update", At(GuaranteeEditDialog, {"Pending"}))
      BY DEF GuaranteeEditDialog, Dialog, Offer, At,
        DialogOK, GuaranteeStatus, Covered, Rank, KeepsText, Astray
    <2>2. ok("approve", At(ApproveDialog("Approved"), {"Pending"}))
      BY DEF ApproveDialog, Dialog, Offer, At,
        DialogOK, GuaranteeStatus, Covered, Rank, KeepsText, Astray
    <2>3. ok("reject", At(ApproveDialog("Rejected"), {"Pending"}))
      BY DEF ApproveDialog, Dialog, Offer, At,
        DialogOK, GuaranteeStatus, Covered, Rank, KeepsText, Astray
    <2>4. ok("renew", At(RenewDialog, Covered))
      BY DEF RenewDialog, Dialog, Offer, At,
        DialogOK, GuaranteeStatus, Covered, Rank, KeepsText, Astray
    <2>5. ok("cancel", At(CancelBox, GuaranteeStatus \ {"Cancelled", "Expired"}))
      BY DEF CancelBox, Dialog, Offer, At,
        DialogOK, GuaranteeStatus, Covered, Rank, KeepsText, Astray
    <2>6. ok("setGolden", At(SetGoldenDialog, Covered))
      BY DEF SetGoldenDialog, Dialog, Offer, At,
        DialogOK, GuaranteeStatus, Covered, Rank, KeepsText, Astray
    <2>7. ok("removeGolden", At(RemoveGoldenDialog, GuaranteeStatus))
      BY DEF RemoveGoldenDialog, Dialog, Offer, At,
        DialogOK, GuaranteeStatus, Covered, Rank, KeepsText, Astray
    <2>8. ok("delete", At(GuaranteeDeleteDialog, GuaranteeStatus))
      BY DEF GuaranteeDeleteDialog, DeleteDialog, Dialog, Offer, At,
        DialogOK, GuaranteeStatus, Covered, Rank, KeepsText, Astray
    <2>9. \A a \in DOMAIN GuaranteeTable : ok(a, GuaranteeTable[a])
      <3> HIDE DEF ok
      <3> QED BY <2>1, <2>2, <2>3, <2>4, <2>5, <2>6, <2>7, <2>8 DEF GuaranteeTable
    <2>10. /\ GuaranteeTable["approve"].key = "approve"
          /\ GuaranteeTable["reject"].key = "approve"
      BY DEF GuaranteeTable, ApproveDialog, Dialog, Offer, At
    <2>11. /\ {"approve", "reject"} \subseteq DOMAIN GuaranteeTable
          /\ {"none", "add"} \intersect DOMAIN GuaranteeTable = {}
      BY DEF GuaranteeTable
    <2>12. GuaranteeStatus \subseteq DOMAIN Rank \ {"gone"} /\ "Pending" \in GuaranteeStatus
      BY DEF GuaranteeStatus, Covered, Rank
    <2>13. PageTable["guarantees"] = GuaranteesPage
      BY DEF PageTable
    <2> QED BY <2>9, <2>10, <2>11, <2>12, <2>13 DEF GuaranteesPage, Page, PageOK
  <1>7. PageOK("technicians", PageTable["technicians"])
    <2>1. PageTable["technicians"] = TechniciansPage
      BY DEF PageTable
    <2>2. PageOK("technicians", TechniciansPage)
      BY DEF TechniciansPage, Page, TechnicianTable, Applied,
         TechnicianReviewDialog, TechnicianForm, Form,
        TechnicianDeleteDialog, DeleteDialog, Dialog,
        Offer, At, PageOK, DialogOK, RowLess, Rank, KeepsText, Astray
    <2> QED BY <2>1, <2>2
  <1>8. PageOK("customers", PageTable["customers"])
    <2>1. PageTable["customers"] = CustomersPage
      BY DEF PageTable
    <2>2. PageOK("customers", CustomersPage)
      BY DEF CustomersPage, Page, CustomerTable, Listed, CustomerForm, Form,
         CustomerDeleteDialog, DeleteDialog, Dialog,
        Offer, At, PageOK, DialogOK, RowLess, Rank, KeepsText, Astray
    <2> QED BY <2>1, <2>2
  <1>9. PageOK("products", PageTable["products"])
    <2>1. PageTable["products"] = ProductsPage
      BY DEF PageTable
    <2>2. PageOK("products", ProductsPage)
      BY DEF ProductsPage, Page, ProductTable, Listed, ProductForm, Form,
         ProductDeleteDialog, DeleteDialog, Dialog,
        Offer, At, PageOK, DialogOK, RowLess, Rank, KeepsText, Astray
    <2> QED BY <2>1, <2>2
  <1>10. PageOK("categories", PageTable["categories"])
    <2>1. PageTable["categories"] = CategoriesPage
      BY DEF PageTable
    <2>2. PageOK("categories", CategoriesPage)
      BY DEF CategoriesPage, Page, CategoryTable, Listed, CategoryForm, Form,
         CategoryDeleteDialog, DeleteDialog, Dialog,
        Offer, At, PageOK, DialogOK, RowLess, Rank, KeepsText, Astray
    <2> QED BY <2>1, <2>2
  <1>11. PageOK("catalog", PageTable["catalog"])
    <2>1. PageTable["catalog"] = RepairCatalogPanel
      BY DEF PageTable
    <2>2. PageOK("catalog", RepairCatalogPanel)
      BY DEF RepairCatalogPanel, Page, RepairCatalogTable, Listed,
         RepairCatalogFormDialog, Form, DeleteDialog, Dialog,
        Offer, At, PageOK, DialogOK, RowLess, Rank, KeepsText, Astray
    <2> QED BY <2>1, <2>2
  <1>12. PageOK("patterns", PageTable["patterns"])
    <2>1. PageTable["patterns"] = SmsTemplatesPage
      BY DEF PageTable
    <2>2. PageOK("patterns", SmsTemplatesPage)
      BY DEF SmsTemplatesPage, Page, SmsTemplateList, Listed, SmsTemplateFormDialog,
         ListDeleteDialog, Dialog,
        Offer, At, PageOK, DialogOK, RowLess, Rank, KeepsText, Astray
    <2> QED BY <2>1, <2>2
  <1>13. PageOK("polls", PageTable["polls"])
    <2>1. PageTable["polls"] = PollsPage
      BY DEF PageTable
    <2>2. PageOK("polls", PollsPage)
      BY DEF PollsPage, Page, PollList, ListDeleteDialog, Dialog,
        Offer, At, PageOK, DialogOK, RowLess, Rank, KeepsText, Astray
    <2> QED BY <2>1, <2>2
  <1>14. PageOK("myRequests", PageTable["myRequests"])
    <2>1. PageTable["myRequests"] = TechnicianPartRequestsPage
      BY DEF PageTable
    <2>2. PageOK("myRequests", TechnicianPartRequestsPage)
      BY DEF TechnicianPartRequestsPage, Page, MyRequestList, RequestStatus, CancelBox, Dialog,
        Offer, At, PageOK, DialogOK, RowLess, Rank, KeepsText, Astray
    <2> QED BY <2>1, <2>2
  <1>15. PageOK("myParcels", PageTable["myParcels"])
    <2>1. PageTable["myParcels"] = TechnicianPartShipmentsPage
      BY DEF PageTable
    <2>2. PageOK("myParcels", TechnicianPartShipmentsPage)
      BY DEF TechnicianPartShipmentsPage, Page, MyShipmentList, ParcelStatus,
         CancelBox, Dialog,
        Offer, At, PageOK, DialogOK, RowLess, Rank, KeepsText, Astray
    <2> QED BY <2>1, <2>2
  <1> QED BY <1>1, <1>2, <1>3, <1>4, <1>5, <1>6, <1>7, <1>8, <1>9, <1>10, <1>11,
     <1>12, <1>13, <1>14, <1>15

-----------------------------------------------------------------------------
(* The shape of the state. *)

AnyRow == Rows \union {None}
Signers == {None, "admin", "technical"}
RowState == [status : Statuses, by : Signers]
Question == [act : DOMAIN Acts \union {"add", "none"}, row : AnyRow,
             status : Statuses \union {"none"}]
PageState == [open : BOOLEAN, asked : Question, row : AnyRow, blocked : BOOLEAN,
              text : [Keys(page) -> SUBSET Rows]]
Sending == [key : Keys(page), act : DOMAIN Acts \union {"add"}, row : AnyRow,
            asked : Question, force : BOOLEAN, text : SUBSET Rows,
            answer : {"none", "done", "refused"}]

Shape ==
    /\ page \in Pages
    /\ row \in [Rows -> RowState]
    /\ held \subseteq Rows /\ warned \subseteq Rows
    /\ shown \in [Rows -> Statuses]
    /\ ui \in PageState
    /\ sent \subseteq Sending
    /\ left \in [sent : 0..MaxSent, moves : 0..MaxMoves]

\* What PageOK says, of the page that is up.
LEMMA TheMenu ==
    ASSUME page \in Pages
    PROVE  /\ Statuses \subseteq DOMAIN Rank
           /\ PageTable[page].first \in Statuses
           /\ "none" \notin DOMAIN Acts /\ "add" \notin DOMAIN Acts
           /\ \A a \in DOMAIN Acts : DialogOK(page, PageTable[page].statuses, a, Acts[a])
           /\ page = "guarantees" => /\ {"approve", "reject"} \subseteq DOMAIN Acts
                                     /\ Acts["approve"].key = "approve"
                                     /\ Acts["reject"].key = "approve"
           /\ PageTable[page].add # "none" =>
                \/ RowLess(PageTable[page])
                \/ /\ "edit" \in DOMAIN Acts /\ Acts["edit"].key = "form"
                   /\ <<page, "form">> \in Astray
PROOF
  <1>1. PageOK(page, PageTable[page])
    BY PagesOK, DeskConstants
  <1>2. "gone" \in DOMAIN Rank
    BY DEF Rank
  <1> QED BY <1>1, <1>2 DEF PageOK, Acts, Statuses

\* A key is one of the page's.
LEMMA KeyOfIsAKey ==
    ASSUME page \in Pages, NEW a \in DOMAIN Acts \union {"add"}
    PROVE  KeyOf(a) \in Keys(page)
PROOF
  <1>1. CASE a = "add"
    BY <1>1 DEF KeyOf, Keys
  <1>2. CASE a # "add"
    BY <1>2 DEF KeyOf, Keys, Acts
  <1> QED BY <1>1, <1>2

\* What becomes of a row is a row, and no earlier one.
LEMMA AfterIsARow ==
    ASSUME Shape, NEW a \in DOMAIN Acts, NEW r \in Rows, NEW who \in {"admin", "technical"},
           row[r].status \in Acts[a].taken
    PROVE  /\ After(a, r, who) \in RowState
           /\ Rank[row[r].status] <= Rank[After(a, r, who).status]
           /\ After(a, r, who).by = IF Is(a, "signed") THEN who ELSE row[r].by
PROOF
  <1>1. row[r] \in RowState
    BY DEF Shape
  <1>2. DialogOK(page, PageTable[page].statuses, a, Acts[a])
    BY TheMenu DEF Shape
  <1> DEFINE e == After(a, r, who)
  <1>3. e = [status |-> IF Acts[a].to = None THEN row[r].status ELSE Acts[a].to,
             by |-> IF Is(a, "signed") THEN who ELSE row[r].by]
    <2>1. PICK old \in RowState : old = row[r]
      BY <1>1
    <2>2. old = [status |-> old.status, by |-> old.by]
      BY DEF RowState
    <2>3. PICK new : new = [old EXCEPT !.status = IF Acts[a].to = None THEN @ ELSE Acts[a].to,
                                       !.by = IF Is(a, "signed") THEN who ELSE @]
      OBVIOUS
    <2>4. new = [status |-> IF Acts[a].to = None THEN old.status ELSE Acts[a].to,
                 by |-> IF Is(a, "signed") THEN who ELSE old.by]
      BY <2>2, <2>3
    <2>5. e = new
      BY <2>1, <2>3 DEF After
    <2> QED BY <2>1, <2>4, <2>5
  <1>4. Acts[a].to # None => Acts[a].to \in Statuses
    BY <1>2 DEF DialogOK, Statuses
  <1>5. Acts[a].to # None => Rank[row[r].status] <= Rank[Acts[a].to]
    BY <1>2 DEF DialogOK
  <1>6. Rank[row[r].status] \in Nat
    BY <1>1, TheMenu, RankOrders DEF Shape, RowState
  <1> QED BY <1>1, <1>3, <1>4, <1>5, <1>6 DEF RowState, Signers

\* A page state is the record of its five parts.
LEMMA IsARecord ==
    ASSUME NEW u \in PageState
    PROVE  u = [open |-> u.open, asked |-> u.asked, row |-> u.row, blocked |-> u.blocked,
                text |-> u.text]
PROOF
  BY DEF PageState

\* The fields of the page's state after a form has been emptied,
LEMMA EmptiedFields ==
    ASSUME NEW u \in PageState, NEW key
    PROVE  /\ Emptied(u, key) \in PageState
           /\ Emptied(u, key).open = u.open /\ Emptied(u, key).asked = u.asked
           /\ Emptied(u, key).row = u.row /\ Emptied(u, key).blocked = u.blocked
           /\ \A k \in Keys(page) : Emptied(u, key).text[k] =
                IF k = key /\ \E a \in DOMAIN Acts : Acts[a].key = key /\ Is(a, "types")
                THEN {} ELSE u.text[k]
PROOF
  <1> DEFINE e == [u EXCEPT !.text[key] = {}]
  <1>1. e = [open |-> u.open, asked |-> u.asked, row |-> u.row, blocked |-> u.blocked,
             text |-> [u.text EXCEPT ![key] = {}]]
    BY IsARecord
  <1>2. u.text \in [Keys(page) -> SUBSET Rows]
    BY DEF PageState
  <1>3. e.text \in [Keys(page) -> SUBSET Rows]
    BY <1>1, <1>2
  <1>4. e \in PageState
    BY <1>1, <1>3 DEF PageState
  <1>5. \A k \in Keys(page) : e.text[k] = IF k = key THEN {} ELSE u.text[k]
    BY <1>1, <1>2
  <1>6. e.open = u.open /\ e.asked = u.asked /\ e.row = u.row /\ e.blocked = u.blocked
    BY <1>1
  <1>7. Emptied(u, key) =
            IF \E a \in DOMAIN Acts : Acts[a].key = key /\ Is(a, "types") THEN e ELSE u
    BY DEF Emptied
  <1> HIDE DEF e
  <1>8. CASE \E a \in DOMAIN Acts : Acts[a].key = key /\ Is(a, "types")
    BY <1>4, <1>5, <1>6, <1>7, <1>8
  <1>9. CASE ~\E a \in DOMAIN Acts : Acts[a].key = key /\ Is(a, "types")
    BY <1>7, <1>9
  <1> QED BY <1>8, <1>9

Typed(k) == \E a \in DOMAIN Acts : Acts[a].key = k /\ Is(a, "types")

\* after the dialog has been closed,
LEMMA DismissedFields ==
    ASSUME NEW u \in PageState
    PROVE  /\ Dismissed(u) \in PageState
           /\ Dismissed(u).open = FALSE /\ Dismissed(u).asked = NobodyAsked
           /\ Dismissed(u).row = u.row /\ Dismissed(u).blocked = FALSE
           /\ \A k \in Keys(page) : Dismissed(u).text[k] =
                IF k = KeyOf(u.asked.act) /\ Typed(k) THEN {} ELSE u.text[k]
PROOF
  <1>0. PICK e : e = [u EXCEPT !.open = FALSE, !.asked = NobodyAsked, !.blocked = FALSE]
    OBVIOUS
  <1>1. e = [open |-> FALSE, asked |-> NobodyAsked, row |-> u.row, blocked |-> FALSE,
             text |-> u.text]
    BY <1>0 DEF PageState
  <1>2. NobodyAsked \in Question
    BY DEF NobodyAsked, Question, AnyRow
  <1>3. e \in PageState
    BY <1>1, <1>2 DEF PageState
  <1>4. Dismissed(u) = Emptied(e, KeyOf(u.asked.act))
    BY <1>0 DEF Dismissed
  <1>5. /\ e.open = FALSE /\ e.asked = NobodyAsked /\ e.row = u.row /\ e.blocked = FALSE
        /\ e.text = u.text
    BY <1>1
  <1> QED BY <1>3, <1>4, <1>5, EmptiedFields DEF Typed

\* and after an operation has succeeded.
LEMMA ClosingFields ==
    ASSUME NEW u \in PageState, NEW s \in Sending,
           NEW same \in BOOLEAN,
           same <=> u.open /\ (Does("forgets") \/ KeyOf(u.asked.act) = s.key),
           NEW kept \in BOOLEAN, kept <=> s.act = "add" \/ Is(s.act, "own"),
           NEW e, e = Closing(u, s)
    PROVE  /\ e \in PageState
           /\ e.open = (u.open /\ ~same)
           /\ e.asked = IF same THEN NobodyAsked ELSE u.asked
           /\ e.row = IF kept THEN u.row ELSE None
           /\ e.blocked = (u.blocked /\ ~same /\ s.act # "delete")
           /\ \A k \in Keys(page) : e.text[k] =
                IF k = s.key \/ (same /\ k = KeyOf(u.asked.act) /\ Typed(k))
                THEN {} ELSE u.text[k]
PROOF
  <1> DEFINE c == IF same THEN Dismissed(u) ELSE u
  <1>1. /\ c \in PageState
        /\ c.open = (u.open /\ ~same)
        /\ c.asked = IF same THEN NobodyAsked ELSE u.asked
        /\ c.row = u.row
        /\ c.blocked = (u.blocked /\ ~same)
        /\ \A k \in Keys(page) : c.text[k] =
              IF same /\ k = KeyOf(u.asked.act) /\ Typed(k) THEN {} ELSE u.text[k]
    <2>1. u.open \in BOOLEAN /\ u.blocked \in BOOLEAN
      BY DEF PageState
    <2>2. CASE same
      BY <2>2, DismissedFields
    <2>3. CASE ~same
      BY <2>1, <2>3
    <2> QED BY <2>2, <2>3
  <1>2. e = [c EXCEPT !.row = IF kept THEN @ ELSE None,
                      !.blocked = IF s.act = "delete" THEN FALSE ELSE @,
                      !.text[s.key] = {}]
    <2>1. (s.act # "add" /\ Is(s.act, "own")) \/ s.act = "add" <=> kept
      OBVIOUS
    <2> QED BY <2>1 DEF Closing
  <1> HIDE DEF c
  <1>3. e = [open |-> c.open, asked |-> c.asked, row |-> IF kept THEN c.row ELSE None,
             blocked |-> IF s.act = "delete" THEN FALSE ELSE c.blocked,
             text |-> [c.text EXCEPT ![s.key] = {}]]
    <2> QED BY <1>1, <1>2 DEF PageState
  <1>4. c.text \in [Keys(page) -> SUBSET Rows]
    BY <1>1 DEF PageState
  <1>5. \A k \in Keys(page) : e.text[k] = IF k = s.key THEN {} ELSE c.text[k]
    <2>1. e.text = [c.text EXCEPT ![s.key] = {}]
      BY <1>3
    <2> QED BY <1>4, <2>1
  <1>6. e.text \in [Keys(page) -> SUBSET Rows]
    <2>1. e.text = [c.text EXCEPT ![s.key] = {}]
      BY <1>3
    <2> QED BY <1>4, <2>1
  <1>7. e.open = c.open /\ e.asked = c.asked /\ e.row = IF kept THEN c.row ELSE None
    BY <1>3
  <1>8. e.blocked = IF s.act = "delete" THEN FALSE ELSE c.blocked
    BY <1>3
  <1>9. e \in PageState
    <2>1. e = [open |-> e.open, asked |-> e.asked, row |-> e.row, blocked |-> e.blocked,
               text |-> e.text]
      BY <1>3
    <2>2. c.open \in BOOLEAN /\ c.blocked \in BOOLEAN /\ c.asked \in Question /\ c.row \in AnyRow
      BY <1>1 DEF PageState
    <2>3. e.open \in BOOLEAN /\ e.blocked \in BOOLEAN /\ e.asked \in Question
      BY <2>2, <1>7, <1>8
    <2>4. e.row \in AnyRow
      BY <2>2, <1>7 DEF AnyRow
    <2> QED BY <2>1, <2>3, <2>4, <1>6 DEF PageState
  <1>10. e.blocked = (u.blocked /\ ~same /\ s.act # "delete")
    BY <1>1, <1>8 DEF PageState
  <1>11. \A k \in Keys(page) : e.text[k] =
            IF k = s.key \/ (same /\ k = KeyOf(u.asked.act) /\ Typed(k)) THEN {} ELSE u.text[k]
    BY <1>1, <1>5
  <1> QED BY <1>1, <1>7, <1>9, <1>10, <1>11

-----------------------------------------------------------------------------
(* Every state has this shape. *)

\* A page starts with nothing open, asked for or sent.
LEMMA ShapeInit == Init => Shape
PROOF
  <1> SUFFICES ASSUME Init
               PROVE  Shape
    OBVIOUS
  <1> USE DEF Init
  <1>1. page \in Pages /\ PageTable[page].first \in Statuses
    BY TheMenu
  <1>2. row \in [Rows -> RowState]
    <2>1. [status |-> PageTable[page].first, by |-> None] \in RowState
      BY <1>1 DEF RowState, Signers
    <2> QED BY <2>1
  <1>3. held \subseteq Rows /\ warned \subseteq Rows /\ sent \subseteq Sending
    OBVIOUS
  <1>4. shown \in [Rows -> Statuses]
    <2>1. \A r \in Rows : row[r].status \in Statuses
      BY <1>2 DEF RowState
    <2> QED BY <2>1
  <1>5. ui \in PageState
    <2>1. NobodyAsked \in Question
      BY DEF NobodyAsked, Question, AnyRow
    <2>2. [k \in Keys(page) |-> {}] \in [Keys(page) -> SUBSET Rows]
      OBVIOUS
    <2> QED BY <2>1, <2>2 DEF Idle, PageState, AnyRow
  <1>6. left \in [sent : 0..MaxSent, moves : 0..MaxMoves]
    BY DeskConstants
  <1> QED BY <1>1, <1>2, <1>3, <1>4, <1>5, <1>6 DEF Shape

\* The counters only go down.
LEMMA LeftStays ==
    ASSUME left \in [sent : 0..MaxSent, moves : 0..MaxMoves]
    PROVE  /\ left.sent > 0 /\ left' = [left EXCEPT !.sent = @ - 1]
                => left' \in [sent : 0..MaxSent, moves : 0..MaxMoves]
           /\ left.moves > 0 /\ left' = [left EXCEPT !.moves = @ - 1]
                => left' \in [sent : 0..MaxSent, moves : 0..MaxMoves]
PROOF
  <1>1. left.sent \in 0..MaxSent /\ left.moves \in 0..MaxMoves
    OBVIOUS
  <1>2. ASSUME left.sent > 0, left' = [left EXCEPT !.sent = @ - 1]
        PROVE  left' \in [sent : 0..MaxSent, moves : 0..MaxMoves]
    <2>1. left' = [sent |-> left.sent - 1, moves |-> left.moves]
      BY <1>2
    <2>2. left.sent - 1 \in 0..MaxSent
      BY <1>1, <1>2, DeskConstants
    <2> QED BY <1>1, <2>1, <2>2
  <1>3. ASSUME left.moves > 0, left' = [left EXCEPT !.moves = @ - 1]
        PROVE  left' \in [sent : 0..MaxSent, moves : 0..MaxMoves]
    <2>1. left' = [sent |-> left.sent, moves |-> left.moves - 1]
      BY <1>3
    <2>2. left.moves - 1 \in 0..MaxMoves
      BY <1>1, <1>3, DeskConstants
    <2> QED BY <1>1, <2>1, <2>2
  <1> QED BY <1>2, <1>3

\* What is asked about a row, or about a new entry.
LEMMA AskedFields ==
    ASSUME Shape, NEW a \in DOMAIN Acts \union {"add"}, NEW r \in AnyRow
    PROVE  /\ Asked(a, r) \in Question
           /\ Asked(a, r).act = a /\ Asked(a, r).row = r
           /\ Asked(a, r).status = IF r = None THEN "none" ELSE shown[r]
PROOF
  <1>1. r # None => shown[r] \in Statuses
    BY DEF Shape, AnyRow
  <1> QED BY <1>1 DEF Asked, Question

\* The page's state after each step the user takes: opening a dialog,
LEMMA MenuFields ==
    ASSUME Shape, NEW r \in Rows, NEW a \in DOMAIN Acts, Menu(r, a)
    PROVE  /\ ui' \in PageState
           /\ ui'.open = TRUE /\ ui'.asked = Asked(a, r)
           /\ ui'.row = IF Is(a, "own") THEN ui.row ELSE r
           /\ ui'.blocked = IF a = "delete" THEN FALSE ELSE ui.blocked
           /\ ui'.text = ui.text
PROOF
  <1>1. ui \in PageState
    BY DEF Shape
  <1>2. ui' = [open |-> TRUE, asked |-> Asked(a, r),
               row |-> IF Is(a, "own") THEN ui.row ELSE r,
               blocked |-> IF a = "delete" THEN FALSE ELSE ui.blocked, text |-> ui.text]
    BY <1>1 DEF Menu, PageState
  <1>3. Asked(a, r) \in Question
    BY AskedFields DEF AnyRow
  <1>4. ui.row \in AnyRow /\ ui.blocked \in BOOLEAN /\ ui.text \in [Keys(page) -> SUBSET Rows]
    BY <1>1 DEF PageState
  <1>5. (IF Is(a, "own") THEN ui.row ELSE r) \in AnyRow
    BY <1>4 DEF AnyRow
  <1>6. (IF a = "delete" THEN FALSE ELSE ui.blocked) \in BOOLEAN
    BY <1>4
  <1>7. ui' \in PageState
    BY <1>2, <1>3, <1>4, <1>5, <1>6 DEF PageState
  <1> QED BY <1>2, <1>7

\* looking at a row,
LEMMA ViewFields ==
    ASSUME Shape, NEW r \in Rows, View(r)
    PROVE  /\ ui' \in PageState
           /\ ui'.open = ui.open /\ ui'.asked = ui.asked /\ ui'.row = r
           /\ ui'.blocked = ui.blocked /\ ui'.text = ui.text
PROOF
  <1>1. ui \in PageState
    BY DEF Shape
  <1>2. ui' = [open |-> ui.open, asked |-> ui.asked, row |-> r, blocked |-> ui.blocked,
               text |-> ui.text]
    BY <1>1 DEF View, PageState
  <1>3. ui' \in PageState
    BY <1>1, <1>2 DEF PageState, AnyRow
  <1> QED BY <1>2, <1>3

\* opening the form for a new entry,
LEMMA AddFields ==
    ASSUME Shape, Add
    PROVE  /\ ui' \in PageState
           /\ ui'.open = TRUE /\ ui'.asked = Asked("add", None)
           /\ ui'.row \in {ui.row, None}
           /\ ui'.blocked = ui.blocked /\ ui'.text = ui.text
PROOF
  <1>1. ui \in PageState
    BY DEF Shape
  <1>2. ui' = [open |-> TRUE, asked |-> Asked("add", None),
               row |-> IF PageTable[page].add = "blank" THEN None ELSE ui.row,
               blocked |-> ui.blocked, text |-> ui.text]
    BY <1>1 DEF Add, PageState
  <1>3. Asked("add", None) \in Question
    BY AskedFields DEF AnyRow
  <1>4. ui.row \in AnyRow /\ ui.blocked \in BOOLEAN /\ ui.text \in [Keys(page) -> SUBSET Rows]
    BY <1>1 DEF PageState
  <1>5. (IF PageTable[page].add = "blank" THEN None ELSE ui.row) \in AnyRow
    BY <1>4 DEF AnyRow
  <1>6. ui' \in PageState
    BY <1>2, <1>3, <1>4, <1>5 DEF PageState
  <1> QED BY <1>2, <1>6

\* closing a dialog,
LEMMA DismissFields ==
    ASSUME Shape, Dismiss
    PROVE  /\ ui' \in PageState
           /\ ui'.open = FALSE /\ ui'.asked = NobodyAsked
           /\ ui'.row \in {ui.row, None} /\ ui'.blocked = FALSE
           /\ \A k \in Keys(page) : ui'.text[k] =
                IF k = KeyOf(ui.asked.act) /\ Typed(k) THEN {} ELSE ui.text[k]
PROOF
  <1>1. PICK d : d = Dismissed(ui)
    OBVIOUS
  <1>2. /\ d \in PageState
        /\ d.open = FALSE /\ d.asked = NobodyAsked /\ d.row = ui.row /\ d.blocked = FALSE
        /\ \A k \in Keys(page) : d.text[k] =
                IF k = KeyOf(ui.asked.act) /\ Typed(k) THEN {} ELSE ui.text[k]
    BY <1>1, DismissedFields DEF Shape
  <1>3. ui' = IF Does("forgets") THEN [d EXCEPT !.row = None] ELSE d
    BY <1>1 DEF Dismiss
  <1>4. CASE Does("forgets")
    <2>1. ui' = [open |-> d.open, asked |-> d.asked, row |-> None, blocked |-> d.blocked,
                 text |-> d.text]
      BY <1>2, <1>3, <1>4 DEF PageState
    <2>2. ui' \in PageState
      BY <1>2, <2>1 DEF PageState, AnyRow
    <2> QED BY <1>2, <2>1, <2>2
  <1>5. CASE ~Does("forgets")
    BY <1>2, <1>3, <1>5
  <1> QED BY <1>4, <1>5

\* typing.
LEMMA TypeFields ==
    ASSUME Shape, Type, ui.asked.act \in DOMAIN Acts, ui.asked.row \in Rows
    PROVE  /\ ui' \in PageState
           /\ ui'.open = ui.open /\ ui'.asked = ui.asked
           /\ ui'.row = ui.row /\ ui'.blocked = ui.blocked
           /\ \A k \in Keys(page) : ui'.text[k] =
                IF k = KeyOf(ui.asked.act) THEN ui.text[k] \union {ui.asked.row} ELSE ui.text[k]
PROOF
  <1>1. ui \in PageState
    BY DEF Shape
  <1>2. PICK key : key = KeyOf(ui.asked.act)
    OBVIOUS
  <1>3. ui' = [ui EXCEPT !.text[key] = @ \union {ui.asked.row}]
    BY <1>2 DEF Type, Open
  <1>4. ui' = [open |-> ui.open, asked |-> ui.asked, row |-> ui.row, blocked |-> ui.blocked,
               text |-> [ui.text EXCEPT ![key] = @ \union {ui.asked.row}]]
    BY <1>1, <1>3 DEF PageState
  <1>5. ui.text \in [Keys(page) -> SUBSET Rows]
    BY <1>1 DEF PageState
  <1>6. ui'.text \in [Keys(page) -> SUBSET Rows]
    BY <1>4, <1>5
  <1>7. ui' \in PageState
    BY <1>1, <1>4, <1>6 DEF PageState
  <1>8. \A k \in Keys(page) : ui'.text[k] =
            IF k = key THEN ui.text[k] \union {ui.asked.row} ELSE ui.text[k]
    BY <1>4, <1>5
  <1> QED BY <1>2, <1>4, <1>7, <1>8

\* What is sent.
LEMMA OperationFields ==
    ASSUME Shape, NEW a \in DOMAIN Acts \union {"add"}, NEW r \in AnyRow, NEW q \in Question,
           NEW force \in BOOLEAN
    PROVE  LET o == Operation(a, r, q, force)
           IN  /\ o \in Sending
               /\ o.key = KeyOf(a) /\ o.act = a /\ o.row = r /\ o.asked = q /\ o.force = force
               /\ o.text = ui.text[KeyOf(a)] /\ o.answer = "none"
PROOF
  <1>1. PICK key \in Keys(page) : key = KeyOf(a)
    BY KeyOfIsAKey DEF Shape
  <1>2. ui.text[key] \in SUBSET Rows
    BY DEF Shape, PageState
  <1>3. Operation(a, r, q, force) =
            [key |-> key, act |-> a, row |-> r, asked |-> q, force |-> force,
             text |-> ui.text[key], answer |-> "none"]
    BY <1>1 DEF Operation
  <1> QED BY <1>1, <1>2, <1>3 DEF Sending

\* What the page sends is something it can send, for a row if it is about one.
LEMMA ChosenIsAnAct ==
    ASSUME Shape, ui.open, ui.asked.act \in DOMAIN Acts \union {"add"},
           ui.asked.act = "add" => PageTable[page].add # "none",
           RowLess(PageTable[page]) => ui.row = None
    PROVE  /\ Chosen \in DOMAIN Acts \union {"add"}
           /\ Target \in AnyRow
           /\ KeyOf(Chosen) = KeyOf(Open)
           /\ Target # None \/ KeyOf(Open) = "form" => Chosen = "add" \/ Target \in Rows
PROOF
  <1>1. ui \in PageState /\ page \in Pages
    BY DEF Shape
  <1>2. Target \in AnyRow
    BY <1>1 DEF Target, PageState, Question
  <1>3. CASE KeyOf(Open) = "form"
    <2>1. CASE Target = None
      BY <1>2, <1>3, <2>1 DEF Chosen, KeyOf
    <2>2. CASE Target # None
      <3>1. Chosen = "edit"
        BY <1>3, <2>2 DEF Chosen
      <3>2. "edit" \in DOMAIN Acts /\ Acts["edit"].key = "form"
        <4>1. CASE Open = "add"
          BY <1>1, <2>2, <4>1, TheMenu DEF Open, Target
        <4>2. CASE Open # "add"
          BY <1>1, <1>3, <4>2, TheMenu DEF Open, KeyOf, DialogOK
        <4> QED BY <4>1, <4>2
      <3>3. Target \in Rows
        BY <1>2, <2>2 DEF AnyRow
      <3> QED BY <1>2, <1>3, <3>1, <3>2, <3>3 DEF KeyOf
    <2> QED BY <2>1, <2>2
  <1>4. CASE KeyOf(Open) # "form" /\ page = "guarantees" /\ Open = "reject"
    BY <1>1, <1>2, <1>4, TheMenu DEF Chosen, KeyOf, AnyRow
  <1>5. CASE KeyOf(Open) # "form" /\ ~(page = "guarantees" /\ Open = "reject")
    BY <1>1, <1>2, <1>5 DEF Chosen, Open, AnyRow
  <1> QED BY <1>3, <1>4, <1>5

-----------------------------------------------------------------------------
(* The dialog that is open, what was typed, and what is under way. *)

\* An open dialog is about the row its menu was opened on, where its item was
\* offered, or about a new entry; a row selected while it is open is that row.
OpenedAt(u) ==
    /\ u.open => \/ /\ u.asked.act \in DOMAIN Acts /\ u.asked.row \in Rows
                    /\ u.asked.status \in Acts[u.asked.act].offered
                    /\ u.asked.act = "delete" => Me = "admin" \/ Does("toAll")
                    /\ ~Is(u.asked.act, "own") => u.row \in {u.asked.row, None}
                 \/ /\ u.asked.act = "add" /\ u.asked.row = None
                    /\ PageTable[page].add # "none"
    /\ ~u.open => u.asked = NobodyAsked
    /\ RowLess(PageTable[page]) => u.row = None

\* What is typed, where it is not kept, is about the row of the open dialog.
NotesAt(u) ==
    \A k \in Keys(page) :
        <<page, k>> \notin KeepsText =>
            \A r \in u.text[k] : /\ u.open /\ k = KeyOf(u.asked.act) /\ Typed(k)
                                 /\ r = u.asked.row

\* What is under way is what was asked, where nothing is astray, and carries what
\* was typed about its row, where nothing is kept.
AskedFor(s) ==
    /\ s.key = KeyOf(s.act)
    /\ s.act # "add" => s.row \in Rows
    /\ <<page, s.key>> \notin Astray =>
         /\ s.act = s.asked.act /\ s.row = s.asked.row
         /\ s.act # "add" => s.asked.status \in Acts[s.act].offered
         /\ s.act = "delete" => Me = "admin" \/ Does("toAll")
    /\ <<page, s.key>> \notin KeepsText => s.text \subseteq {s.asked.row}

OneByOne == \A s, other \in sent : s.key = other.key => s = other
Opened == OpenedAt(ui)
Notes == NotesAt(ui)
AllAskedFor == \A s \in sent : AskedFor(s)
Orderly == Shape /\ Opened /\ Notes /\ AllAskedFor /\ OneByOne

\* All of this is about the page, which stays.
LEMMA SamePage ==
    ASSUME page' = page
    PROVE  /\ RowState' = RowState /\ PageState' = PageState /\ Sending' = Sending
           /\ Statuses' = Statuses
           /\ Opened' <=> OpenedAt(ui')
           /\ Notes' <=> NotesAt(ui')
           /\ AllAskedFor' <=> \A s \in sent' : AskedFor(s)
PROOF
  <1>1. Acts' = Acts /\ Statuses' = Statuses /\ Keys(page)' = Keys(page)
    BY DEF Acts, Statuses, Keys
  <1>2. Question' = Question
    BY <1>1 DEF Question
  <1>3. RowState' = RowState /\ PageState' = PageState /\ Sending' = Sending
    BY <1>1, <1>2 DEF RowState, PageState, Sending
  <1>4. Opened' <=> OpenedAt(ui')
    BY <1>1 DEF Opened, OpenedAt, Is, Does
  <1>5. Notes' <=> NotesAt(ui')
    BY <1>1 DEF Notes, NotesAt, KeyOf, Typed, Is
  <1>6. \A s : AskedFor(s)' <=> AskedFor(s)
    BY <1>1 DEF AskedFor, KeyOf, Does
  <1>7. AllAskedFor' <=> \A s \in sent' : AskedFor(s)
    BY <1>6 DEF AllAskedFor
  <1> QED BY <1>1, <1>3, <1>4, <1>5, <1>7

\* An answer changes nothing else about what was sent.
LEMMA AnsweredFields ==
    ASSUME NEW s \in Sending, NEW answer \in {"done", "refused"}
    PROVE  LET t == [s EXCEPT !.answer = answer]
           IN  /\ t \in Sending
               /\ t.key = s.key /\ t.act = s.act /\ t.row = s.row /\ t.asked = s.asked
               /\ t.force = s.force /\ t.text = s.text /\ t.answer = answer
PROOF
  <1>1. PICK t : t = [s EXCEPT !.answer = answer]
    OBVIOUS
  <1>2. t = [key |-> s.key, act |-> s.act, row |-> s.row, asked |-> s.asked,
             force |-> s.force, text |-> s.text, answer |-> answer]
    BY <1>1 DEF Sending
  <1>3. t \in Sending
    BY <1>2 DEF Sending
  <1> QED BY <1>1, <1>2, <1>3

\* Nothing is open, typed or sent at the start, so nothing is amiss.
LEMMA OrderlyInit == Init => Orderly
PROOF
  <1> SUFFICES ASSUME Init
               PROVE  Orderly
    OBVIOUS
  <1>1. ui.open = FALSE /\ ui.asked = NobodyAsked /\ ui.row = None
    BY DEF Init, Idle
  <1>2. \A k \in Keys(page) : ui.text[k] = {}
    BY DEF Init, Idle
  <1>3. sent = {}
    BY DEF Init
  <1>4. Opened
    BY <1>1 DEF Opened, OpenedAt
  <1>5. Notes
    BY <1>2 DEF Notes, NotesAt
  <1> QED BY <1>3, <1>4, <1>5, ShapeInit DEF Orderly, AllAskedFor, OneByOne

\* A state in which no row has moved and nothing is sent or answered is orderly if
\* the page's state is.
LEMMA OrderlyUi ==
    ASSUME Orderly, ui' \in PageState, OpenedAt(ui'), NotesAt(ui'),
           UNCHANGED <<page, row, held, shown, sent, left>>,
           warned' \subseteq Rows
    PROVE  Orderly'
PROOF
  <1>1. Shape'
    BY SamePage DEF Orderly, Shape
  <1>2. Opened' /\ Notes'
    BY SamePage
  <1>3. AllAskedFor'
    BY SamePage DEF Orderly, AllAskedFor
  <1>4. OneByOne'
    BY DEF Orderly, OneByOne
  <1> QED BY <1>1, <1>2, <1>3, <1>4 DEF Orderly

\* A menu item opens its dialog on the row the menu was drawn for.
LEMMA OrderlyMenu ==
    ASSUME Orderly, NEW r \in Rows, NEW a \in DOMAIN Acts, Menu(r, a)
    PROVE  Orderly'
PROOF
  <1> USE DEF Orderly
  <1>1. /\ ui' \in PageState
        /\ ui'.open = TRUE /\ ui'.asked = Asked(a, r)
        /\ ui'.row = IF Is(a, "own") THEN ui.row ELSE r
        /\ ui'.text = ui.text
    BY MenuFields
  <1>2. /\ Asked(a, r).act = a /\ Asked(a, r).row = r
        /\ Asked(a, r).status = shown[r]
    BY AskedFields, DeskConstants DEF AnyRow
  <1>3. ~ui.open /\ Offered(r, a)
    BY DEF Menu
  <1>4. OpenedAt(ui')
    <2>1. shown[r] \in Acts[a].offered /\ (a = "delete" => Me = "admin" \/ Does("toAll"))
      BY <1>3 DEF Offered
    <2>2. RowLess(PageTable[page]) => ui'.row = None
      BY <1>1 DEF Opened, OpenedAt, RowLess, Is, Acts
    <2> QED BY <1>1, <1>2, <2>1, <2>2 DEF OpenedAt
  <1>5. NotesAt(ui')
    BY <1>1, <1>3 DEF Notes, NotesAt
  <1>6. UNCHANGED <<page, row, held, shown, sent, left>> /\ warned' \subseteq Rows
    BY DEF Menu, Shape
  <1> QED BY <1>1, <1>4, <1>5, <1>6, OrderlyUi

\* The detail view opens on a row, and selects it where the page has views.
LEMMA OrderlyView ==
    ASSUME Orderly, NEW r \in Rows, View(r)
    PROVE  Orderly'
PROOF
  <1> USE DEF Orderly
  <1>1. /\ ui' \in PageState
        /\ ui'.open = ui.open /\ ui'.asked = ui.asked /\ ui'.row = r /\ ui'.text = ui.text
    BY ViewFields
  <1>2. ~ui.open /\ Does("views")
    BY DEF View
  <1>3. OpenedAt(ui')
    BY <1>1, <1>2 DEF Opened, OpenedAt, RowLess, Does
  <1>4. NotesAt(ui')
    BY <1>1, <1>2 DEF Notes, NotesAt
  <1>5. UNCHANGED <<page, row, held, shown, sent, left>> /\ warned' \subseteq Rows
    BY DEF View, Shape
  <1> QED BY <1>1, <1>3, <1>4, <1>5, OrderlyUi

\* The button for a new entry asks about no row.
LEMMA OrderlyAdd == Orderly /\ Add => Orderly'
PROOF
  <1> SUFFICES ASSUME Orderly, Add
               PROVE  Orderly'
    OBVIOUS
  <1> USE DEF Orderly
  <1>1. /\ ui' \in PageState
        /\ ui'.open = TRUE /\ ui'.asked = Asked("add", None)
        /\ ui'.row \in {ui.row, None} /\ ui'.text = ui.text
    BY AddFields
  <1>2. Asked("add", None).act = "add" /\ Asked("add", None).row = None
    BY AskedFields DEF AnyRow
  <1>3. ~ui.open /\ PageTable[page].add # "none"
    BY DEF Add
  <1>4. OpenedAt(ui')
    BY <1>1, <1>2, <1>3 DEF Opened, OpenedAt
  <1>5. NotesAt(ui')
    BY <1>1, <1>3 DEF Notes, NotesAt
  <1>6. UNCHANGED <<page, row, held, shown, sent, left>> /\ warned' \subseteq Rows
    BY DEF Add, Shape
  <1> QED BY <1>1, <1>4, <1>5, <1>6, OrderlyUi

\* A dialog dismissed is about nothing; what the page keeps, it keeps by name.
LEMMA OrderlyDismiss == Orderly /\ Dismiss => Orderly'
PROOF
  <1> SUFFICES ASSUME Orderly, Dismiss
               PROVE  Orderly'
    OBVIOUS
  <1> USE DEF Orderly
  <1>1. /\ ui' \in PageState
        /\ ui'.open = FALSE /\ ui'.asked = NobodyAsked
        /\ ui'.row \in {ui.row, None}
        /\ \A k \in Keys(page) : ui'.text[k] =
              IF k = KeyOf(ui.asked.act) /\ Typed(k) THEN {} ELSE ui.text[k]
    BY DismissFields
  <1>2. OpenedAt(ui')
    BY <1>1 DEF Opened, OpenedAt
  <1>3. NotesAt(ui')
    BY <1>1 DEF Notes, NotesAt
  <1>4. UNCHANGED <<page, row, held, shown, sent, left>> /\ warned' \subseteq Rows
    BY DEF Dismiss, Shape
  <1> QED BY <1>1, <1>2, <1>3, <1>4, OrderlyUi

\* What is typed belongs to the row the dialog was opened on.
LEMMA OrderlyType == Orderly /\ Type => Orderly'
PROOF
  <1> SUFFICES ASSUME Orderly, Type
               PROVE  Orderly'
    OBVIOUS
  <1> USE DEF Orderly
  <1>1. /\ ui.open /\ ui.asked.act # "add"
        /\ Is(ui.asked.act, "types") \/ Is(ui.asked.act, "keeps")
    BY DEF Type, Open
  <1>2. ui.asked.act \in DOMAIN Acts /\ ui.asked.row \in Rows
    BY <1>1 DEF Opened, OpenedAt
  <1>3. /\ ui' \in PageState
        /\ ui'.open = ui.open /\ ui'.asked = ui.asked
        /\ ui'.row = ui.row
        /\ \A k \in Keys(page) : ui'.text[k] =
              IF k = KeyOf(ui.asked.act) THEN ui.text[k] \union {ui.asked.row} ELSE ui.text[k]
    BY <1>2, TypeFields
  <1>4. OpenedAt(ui')
    BY <1>3 DEF Opened, OpenedAt
  <1>5. NotesAt(ui')
    <2>1. KeyOf(ui.asked.act) = Acts[ui.asked.act].key
      BY <1>1 DEF KeyOf
    <2>2. <<page, KeyOf(ui.asked.act)>> \in KeepsText \/ Typed(KeyOf(ui.asked.act))
      BY <1>1, <1>2, <2>1, TheMenu DEF DialogOK, Is, Typed, Shape
    <2>3. ASSUME NEW k \in Keys(page), <<page, k>> \notin KeepsText, NEW r \in ui'.text[k]
          PROVE  k = KeyOf(ui.asked.act) /\ Typed(k) /\ r = ui.asked.row
      <3>1. CASE k = KeyOf(ui.asked.act)
        <4>1. r \in ui.text[k] \/ r = ui.asked.row
          BY <1>3, <2>3, <3>1
        <4> QED BY <2>2, <2>3, <3>1, <4>1 DEF Notes, NotesAt
      <3>2. CASE k # KeyOf(ui.asked.act)
        BY <1>3, <2>3, <3>2 DEF Notes, NotesAt
      <3> QED BY <3>1, <3>2
    <2> QED BY <1>1, <1>3, <2>3 DEF NotesAt
  <1>6. UNCHANGED <<page, row, held, shown, sent, left>> /\ warned' \subseteq Rows
    BY DEF Type, Shape
  <1> QED BY <1>3, <1>4, <1>5, <1>6, OrderlyUi

\* An operation is added to what is under way, one that was asked for and that has
\* its mutation for itself.
LEMMA OrderlySend ==
    ASSUME Orderly, NEW o \in Sending, AskedFor(o), \A s \in sent : s.key # o.key,
           sent' = sent \union {o}, ui' \in PageState, OpenedAt(ui'), NotesAt(ui'),
           left.sent > 0, left' = [left EXCEPT !.sent = @ - 1],
           UNCHANGED <<page, row, held, shown, warned>>
    PROVE  Orderly'
PROOF
  <1>1. left' \in [sent : 0..MaxSent, moves : 0..MaxMoves]
    BY LeftStays DEF Orderly, Shape
  <1>2. Shape'
    BY <1>1, SamePage DEF Orderly, Shape
  <1>3. Opened' /\ Notes'
    BY SamePage
  <1>4. AllAskedFor'
    BY SamePage DEF Orderly, AllAskedFor
  <1>5. OneByOne'
    BY DEF Orderly, OneByOne
  <1> QED BY <1>2, <1>3, <1>4, <1>5 DEF Orderly

\* What a confirmation sends.
LEMMA ConfirmSends ==
    ASSUME Orderly, NEW force \in BOOLEAN, Confirm(force)
    PROVE  \E o \in Sending :
              /\ sent' = sent \union {o}
              /\ AskedFor(o) /\ \A s \in sent : s.key # o.key
              /\ o.asked = ui.asked /\ o.answer = "none" /\ o.force = force
              /\ force => o.row = ui.asked.row
PROOF
  <1> USE DEF Orderly
  <1>1. /\ ui.open /\ ~Busy(KeyOf(Open))
        /\ Target # None \/ KeyOf(Open) = "form"
        /\ force => ui.blocked /\ Open = "delete"
        /\ sent' = sent \union {Operation(Chosen, Target, ui.asked, force)}
    BY DEF Confirm
  <1>2. /\ ui.asked.act \in DOMAIN Acts \union {"add"}
        /\ ui.asked.act = "add" => PageTable[page].add # "none"
        /\ RowLess(PageTable[page]) => ui.row = None
    BY <1>1, TheMenu DEF Shape, Opened, OpenedAt
  <1>3. /\ Chosen \in DOMAIN Acts \union {"add"} /\ Target \in AnyRow
        /\ KeyOf(Chosen) = KeyOf(Open)
        /\ Chosen = "add" \/ Target \in Rows
    BY <1>1, <1>2, ChosenIsAnAct
  <1>4. ui.asked \in Question /\ ui \in PageState /\ page \in Pages
    BY DEF Shape, PageState
  <1>5. PICK o \in Sending :
            /\ o = Operation(Chosen, Target, ui.asked, force)
            /\ o.key = KeyOf(Chosen) /\ o.act = Chosen /\ o.row = Target
            /\ o.asked = ui.asked /\ o.force = force
            /\ o.text = ui.text[KeyOf(Chosen)] /\ o.answer = "none"
    BY <1>3, <1>4, OperationFields
  <1>6. \A s \in sent : s.key # o.key
    BY <1>1, <1>3, <1>5 DEF Busy
  <1>7. Open # "add" => Target \in {ui.asked.row, None}
    BY <1>1 DEF Opened, OpenedAt, Target, Open
  <1>8. ASSUME <<page, KeyOf(Open)>> \notin Astray
        PROVE  Chosen = Open /\ Target = ui.asked.row
    <2>1. CASE Open = "add"
      <3>1. RowLess(PageTable[page])
        BY <1>2, <1>4, <1>8, <2>1, TheMenu DEF Open, KeyOf
      <3>2. ui.row = None /\ ui.asked.row = None
        BY <1>1, <1>2, <2>1, <3>1, TheMenu, <1>4 DEF Opened, OpenedAt, Open
      <3> QED BY <2>1, <3>2 DEF Target, Chosen, KeyOf
    <2>2. CASE KeyOf(Open) = "form" /\ Open # "add"
      <3>1. Open = "edit" /\ Is("edit", "own")
        BY <1>2, <1>4, <1>8, <2>2, TheMenu DEF Open, KeyOf, DialogOK, Is
      <3>2. Target = ui.asked.row /\ Target # None
        BY <1>1, <2>2, <3>1, DeskConstants DEF Target, Opened, OpenedAt, Open
      <3> QED BY <2>2, <3>1, <3>2 DEF Chosen
    <2>3. CASE KeyOf(Open) # "form"
      <3>1. Target = ui.asked.row
        BY <1>1, <1>7, <2>3 DEF KeyOf
      <3>2. ~(page = "guarantees" /\ Open = "reject")
        BY <1>4, <1>8, TheMenu DEF KeyOf, Astray
      <3> QED BY <2>3, <3>1, <3>2 DEF Chosen
    <2> QED BY <2>1, <2>2, <2>3
  <1>9. AskedFor(o)
    <2>1. o.key = KeyOf(o.act) /\ (o.act # "add" => o.row \in Rows)
      BY <1>3, <1>5
    <2>2. <<page, o.key>> \notin Astray =>
            /\ o.act = o.asked.act /\ o.row = o.asked.row
            /\ o.act # "add" => o.asked.status \in Acts[o.act].offered
            /\ o.act = "delete" => Me = "admin" \/ Does("toAll")
      BY <1>1, <1>3, <1>5, <1>8 DEF Opened, OpenedAt, Open
    <2>3. <<page, o.key>> \notin KeepsText => o.text \subseteq {o.asked.row}
      BY <1>3, <1>4, <1>5, KeyOfIsAKey DEF Notes, NotesAt
    <2> QED BY <2>1, <2>2, <2>3 DEF AskedFor
  <1>10. force => o.row = ui.asked.row
    <2>1. ASSUME force
          PROVE  Target = ui.asked.row
      <3>1. Open = "delete" /\ Open # "add"
        BY <1>1, <2>1
      <3>2. KeyOf(Open) = "delete"
        BY <1>2, <1>4, <3>1, TheMenu DEF KeyOf, Open, DialogOK
      <3> QED BY <1>1, <1>7, <3>1, <3>2
    <2> QED BY <1>5, <2>1
  <1> QED BY <1>1, <1>5, <1>6, <1>9, <1>10

\* Confirming sends what the dialog was opened for, once per dialog.
LEMMA OrderlyConfirm ==
    ASSUME Orderly, NEW force \in BOOLEAN, Confirm(force)
    PROVE  Orderly'
PROOF
  <1>1. PICK o \in Sending : /\ sent' = sent \union {o}
                             /\ AskedFor(o) /\ \A s \in sent : s.key # o.key
    BY ConfirmSends
  <1>2. ui' = ui /\ UNCHANGED <<page, row, held, shown, warned>>
    BY DEF Confirm
  <1>3. left.sent > 0 /\ left' = [left EXCEPT !.sent = @ - 1]
    BY DEF Confirm, AtDesk
  <1>4. ui' \in PageState /\ OpenedAt(ui') /\ NotesAt(ui')
    BY <1>2 DEF Orderly, Shape, Opened, Notes
  <1> QED BY <1>1, <1>2, <1>3, <1>4, OrderlySend

\* What a cancellation in the browser's box sends, if it sends anything.
LEMMA BoxSends ==
    ASSUME Orderly, NEW r \in Rows, NEW a \in DOMAIN Acts, Box(r, a), sent' # sent
    PROVE  \E o \in Sending :
              /\ sent' = sent \union {o}
              /\ AskedFor(o) /\ \A s \in sent : s.key # o.key
              /\ o.asked = Asked(a, r) /\ o.answer = "none" /\ o.force = FALSE
PROOF
  <1> USE DEF Orderly
  <1>1. PICK target : target = IF page = "guarantees" THEN ui.row ELSE r
    OBVIOUS
  <1>2. /\ ~ui.open /\ ~Busy(KeyOf(a)) /\ Is(a, "box") /\ target # None
        /\ sent' = sent \union {Operation(a, target, Asked(a, r), FALSE)}
    BY <1>1 DEF Box
  <1>3. ui \in PageState /\ page \in Pages
    BY DEF Shape
  <1>4. target \in Rows
    BY <1>1, <1>2, <1>3 DEF PageState, AnyRow
  <1>5. /\ Asked(a, r) \in Question
        /\ Asked(a, r).act = a /\ Asked(a, r).row = r /\ Asked(a, r).status = shown[r]
    BY AskedFields, DeskConstants DEF AnyRow
  <1>6. PICK o \in Sending :
            /\ o = Operation(a, target, Asked(a, r), FALSE)
            /\ o.key = KeyOf(a) /\ o.act = a /\ o.row = target
            /\ o.asked = Asked(a, r) /\ o.force = FALSE
            /\ o.text = ui.text[KeyOf(a)] /\ o.answer = "none"
    <2>1. PICK question \in Question : question = Asked(a, r)
      BY <1>5
    <2>2. PICK key \in Keys(page) : key = KeyOf(a)
      BY <1>3, KeyOfIsAKey
    <2>3. ui.text[key] \in SUBSET Rows
      BY <1>3 DEF PageState
    <2>4. PICK o : o = [key |-> key, act |-> a, row |-> target, asked |-> question,
                        force |-> FALSE, text |-> ui.text[key], answer |-> "none"]
      OBVIOUS
    <2>5. o = Operation(a, target, Asked(a, r), FALSE)
      BY <2>1, <2>2, <2>4 DEF Operation
    <2>6. o \in Sending
      BY <1>4, <2>3, <2>4 DEF Sending, AnyRow
    <2>7. /\ o.key = key /\ o.act = a /\ o.row = target /\ o.asked = question
          /\ o.force = FALSE /\ o.text = ui.text[key] /\ o.answer = "none"
      BY <2>4
    <2> QED BY <2>1, <2>2, <2>5, <2>6, <2>7
  <1>7. \A s \in sent : s.key # o.key
    BY <1>2, <1>6 DEF Busy
  <1>8. o.text = {} \/ <<page, o.key>> \in KeepsText
    BY <1>2, <1>3, <1>6, KeyOfIsAKey DEF Notes, NotesAt
  <1>9. <<page, o.key>> \notin Astray => target = r
    <2>1. ASSUME page = "guarantees"
          PROVE  <<page, o.key>> \in Astray
      <3>1. KeyOf(a) = "cancel"
        BY <1>2, <1>3, <2>1, TheMenu DEF KeyOf, Is, DialogOK
      <3> QED BY <1>6, <2>1, <3>1 DEF Astray
    <2> QED BY <1>1, <2>1
  <1>10. Offered(r, a)
    BY DEF Box
  <1>11. AskedFor(o)
    BY <1>4, <1>5, <1>6, <1>8, <1>9, <1>10 DEF AskedFor, Offered
  <1> QED BY <1>2, <1>6, <1>7, <1>11

\* The page after the box has been answered.
LEMMA BoxFields ==
    ASSUME Orderly, NEW r \in Rows, NEW a \in DOMAIN Acts, Box(r, a)
    PROVE  /\ ui' \in PageState /\ OpenedAt(ui') /\ NotesAt(ui')
           /\ ui'.open = FALSE /\ ui'.asked = ui.asked
PROOF
  <1> USE DEF Orderly
  <1>1. ui \in PageState /\ ~ui.open /\ page \in Pages /\ Is(a, "box")
    BY DEF Shape, Box
  <1>2. CASE page = "guarantees"
    <2>1. ui' = [ui EXCEPT !.row = r]
      BY <1>2 DEF Box
    <2>2. ui' = [open |-> ui.open, asked |-> ui.asked, row |-> r, blocked |-> ui.blocked,
                 text |-> ui.text]
      BY <1>1, <2>1 DEF PageState
    <2>3. ui' \in PageState
      BY <1>1, <2>2 DEF PageState, AnyRow
    <2>4. ~RowLess(PageTable[page])
      <3>1. "views" \in PageTable["guarantees"].traits
        BY DEF PageTable, GuaranteesPage, Page
      <3> QED BY <1>2, <3>1 DEF RowLess
    <2>5. OpenedAt(ui')
      BY <1>1, <2>2, <2>4 DEF Opened, OpenedAt
    <2>6. NotesAt(ui')
      BY <1>1, <2>2 DEF Notes, NotesAt
    <2>7. ui'.open = FALSE /\ ui'.asked = ui.asked
      BY <1>1, <2>2 DEF PageState
    <2> QED BY <2>3, <2>5, <2>6, <2>7
  <1>3. CASE page # "guarantees"
    <2>1. ui' = ui
      BY <1>3 DEF Box
    <2> QED BY <1>1, <2>1 DEF Opened, Notes, PageState
  <1> QED BY <1>2, <1>3

\* A browser's box answers at once and sends what its item was chosen for.
LEMMA OrderlyBox ==
    ASSUME Orderly, NEW r \in Rows, NEW a \in DOMAIN Acts, Box(r, a)
    PROVE  Orderly'
PROOF
  <1>1. ui' \in PageState /\ OpenedAt(ui') /\ NotesAt(ui')
    BY BoxFields
  <1>2. UNCHANGED <<page, row, held, shown, warned>>
    BY DEF Box
  <1>3. left.sent > 0 /\ left' = [left EXCEPT !.sent = @ - 1]
    BY DEF Box, AtDesk
  <1>4. CASE sent' = sent
    <2>1. left' \in [sent : 0..MaxSent, moves : 0..MaxMoves]
      BY <1>3, LeftStays DEF Orderly, Shape
    <2>2. Shape'
      BY <1>1, <1>2, <1>4, <2>1, SamePage DEF Orderly, Shape
    <2>3. Opened' /\ Notes' /\ AllAskedFor'
      BY <1>1, <1>2, <1>4, SamePage DEF Orderly, AllAskedFor
    <2>4. OneByOne'
      BY <1>4 DEF Orderly, OneByOne
    <2> QED BY <2>2, <2>3, <2>4 DEF Orderly
  <1>5. CASE sent' # sent
    <2>1. PICK o \in Sending : /\ sent' = sent \union {o}
                               /\ AskedFor(o) /\ \A s \in sent : s.key # o.key
      BY <1>5, BoxSends
    <2> QED BY <1>1, <1>2, <1>3, <2>1, OrderlySend
  <1> QED BY <1>4, <1>5

\* The server's decision moves the row, and is noted on what was sent.
LEMMA OrderlyDecide ==
    ASSUME Orderly, NEW s \in sent, Decide(s)
    PROVE  Orderly'
PROOF
  <1> USE DEF Orderly
  <1>1. PICK taken : taken = (s.act = "add" \/ Takes(s.act, s.row, s.force))
    OBVIOUS
  <1>2. PICK t \in Sending :
            /\ t.key = s.key /\ t.act = s.act /\ t.row = s.row /\ t.asked = s.asked
            /\ t.force = s.force /\ t.text = s.text
            /\ sent' = (sent \ {s}) \union {t}
    <2>1. PICK answer \in {"done", "refused"} : answer = IF taken THEN "done" ELSE "refused"
      OBVIOUS
    <2>2. sent' = (sent \ {s}) \union {[s EXCEPT !.answer = answer]}
      BY <1>1, <2>1 DEF Decide
    <2>3. s \in Sending
      BY DEF Shape
    <2>4. PICK t : t = [s EXCEPT !.answer = answer]
      OBVIOUS
    <2> QED BY <2>2, <2>3, <2>4, AnsweredFields
  <1>3. UNCHANGED <<page, held, shown, ui, warned, left>>
    BY DEF Decide
  <1>4. row' \in [Rows -> RowState]
    <2>1. CASE taken /\ s.act # "add"
      <3>1. s.row \in Rows /\ s.act \in DOMAIN Acts
        BY <2>1 DEF AllAskedFor, AskedFor, Shape, Sending
      <3>2. row[s.row].status \in Acts[s.act].taken
        BY <1>1, <2>1 DEF Takes
      <3>3. Me \in {"admin", "technical"}
        BY DeskConstants
      <3>4. PICK new \in RowState : new = After(s.act, s.row, Me)
        BY <3>1, <3>2, <3>3, AfterIsARow
      <3>5. row' = [row EXCEPT ![s.row] = new]
        BY <1>1, <2>1, <3>4 DEF Decide
      <3> QED BY <3>1, <3>4, <3>5 DEF Shape
    <2>2. CASE ~(taken /\ s.act # "add")
      BY <1>1, <2>2 DEF Decide, Shape
    <2> QED BY <2>1, <2>2
  <1>5. Shape'
    BY <1>2, <1>3, <1>4, SamePage DEF Shape
  <1>6. Opened' /\ Notes'
    BY <1>3, SamePage DEF Opened, Notes
  <1>7. AskedFor(t)
    BY <1>2 DEF AllAskedFor, AskedFor
  <1>8. AllAskedFor'
    BY <1>2, <1>3, <1>7, SamePage DEF AllAskedFor
  <1>9. OneByOne'
    BY <1>2 DEF OneByOne
  <1> QED BY <1>5, <1>6, <1>8, <1>9

\* An answer is dealt with, or lost.
LEMMA OrderlyAnswered ==
    ASSUME Orderly, NEW s \in sent, sent' = sent \ {s},
           ui' \in PageState, OpenedAt(ui'), NotesAt(ui'), warned' \subseteq Rows,
           UNCHANGED <<page, row, held, shown, left>>
    PROVE  Orderly'
PROOF
  <1>1. Shape'
    BY SamePage DEF Orderly, Shape
  <1>2. Opened' /\ Notes'
    BY SamePage
  <1>3. AllAskedFor'
    BY SamePage DEF Orderly, AllAskedFor
  <1>4. OneByOne'
    BY DEF Orderly, OneByOne
  <1> QED BY <1>1, <1>2, <1>3, <1>4 DEF Orderly

\* What success leaves of the page's state.
LEMMA SucceedFields ==
    ASSUME Orderly, NEW s \in sent, Succeed(s)
    PROVE  /\ ui' \in PageState
           /\ \/ ui'.asked = ui.asked /\ ui'.open = ui.open
              \/ ui'.asked = NobodyAsked /\ ~ui'.open
           /\ ui'.row \in {ui.row, None}
           /\ ui'.blocked => ui.blocked
           /\ \A k \in Keys(page) : ui'.text[k] \in {{}, ui.text[k]}
           /\ ui'.open \/ \A k \in Keys(page) :
                ui.open /\ k = KeyOf(ui.asked.act) /\ Typed(k) => ui'.text[k] = {}
PROOF
  <1>1. ui \in PageState /\ s \in Sending
    BY DEF Orderly, Shape
  <1>2. CASE page \in {"myRequests", "myParcels"}
    <2>1. ui' = ui
      BY <1>2 DEF Succeed
    <2>2. ui.open \/ ui.asked = NobodyAsked
      BY DEF Orderly, Opened, OpenedAt
    <2> QED BY <1>1, <2>1, <2>2
  <1>3. CASE page \notin {"myRequests", "myParcels"}
    <2>1. ui' = Closing(ui, s)
      BY <1>3 DEF Succeed
    <2>2. ui.open \in BOOLEAN /\ ui.blocked \in BOOLEAN
      BY <1>1 DEF PageState
    <2>3. PICK same \in BOOLEAN :
              same <=> ui.open /\ (Does("forgets") \/ KeyOf(ui.asked.act) = s.key)
      BY <2>2
    <2>7. PICK kept \in BOOLEAN : kept <=> s.act = "add" \/ Is(s.act, "own")
      OBVIOUS
    <2>8. /\ ui' \in PageState
          /\ ui'.open = (ui.open /\ ~same)
          /\ ui'.asked = IF same THEN NobodyAsked ELSE ui.asked
          /\ ui'.row = IF kept THEN ui.row ELSE None
          /\ ui'.blocked = (ui.blocked /\ ~same /\ s.act # "delete")
          /\ \A k \in Keys(page) : ui'.text[k] =
                IF k = s.key \/ (same /\ k = KeyOf(ui.asked.act) /\ Typed(k))
                THEN {} ELSE ui.text[k]
      BY <1>1, <2>1, <2>3, <2>7, ClosingFields
    <2>4. /\ ui' \in PageState
          /\ ui'.open = (ui.open /\ ~same)
          /\ ui'.asked = IF same THEN NobodyAsked ELSE ui.asked
          /\ ui'.row \in {ui.row, None}
          /\ ui'.blocked => ui.blocked
          /\ \A k \in Keys(page) : ui'.text[k] =
                IF k = s.key \/ (same /\ k = KeyOf(ui.asked.act) /\ Typed(k))
                THEN {} ELSE ui.text[k]
      BY <2>8
    <2>5. CASE same
      BY <2>2, <2>4, <2>5
    <2>6. CASE ~same
      BY <2>2, <2>4, <2>6
    <2> QED BY <2>5, <2>6
  <1> QED BY <1>2, <1>3

\* A success closes what is open and takes what was sent away.
LEMMA OrderlySucceed ==
    ASSUME Orderly, NEW s \in sent, Succeed(s)
    PROVE  Orderly'
PROOF
  <1>1. /\ ui' \in PageState
        /\ \/ ui'.asked = ui.asked /\ ui'.open = ui.open
           \/ ui'.asked = NobodyAsked /\ ~ui'.open
        /\ ui'.row \in {ui.row, None}
        /\ \A k \in Keys(page) : ui'.text[k] \in {{}, ui.text[k]}
        /\ ui'.open \/ \A k \in Keys(page) :
             ui.open /\ k = KeyOf(ui.asked.act) /\ Typed(k) => ui'.text[k] = {}
    BY SucceedFields
  <1>2. OpenedAt(ui')
    BY <1>1 DEF Orderly, Opened, OpenedAt
  <1>3. NotesAt(ui')
    <2>1. CASE ui'.open
      BY <1>1, <2>1 DEF Orderly, Notes, NotesAt
    <2>2. CASE ~ui'.open
      BY <1>1, <2>2 DEF Orderly, Notes, NotesAt
    <2> QED BY <2>1, <2>2
  <1>4. sent' = sent \ {s} /\ UNCHANGED <<page, row, held, shown, left>> /\ warned' \subseteq Rows
    BY DEF Succeed, Orderly, Shape
  <1> QED BY <1>1, <1>2, <1>3, <1>4, OrderlyAnswered

\* What an error leaves of it.
LEMMA FailFields ==
    ASSUME Orderly, NEW s \in sent, Fail(s)
    PROVE  /\ ui' \in PageState
           /\ ui'.open = ui.open /\ ui'.asked = ui.asked /\ ui'.row = ui.row /\ ui'.text = ui.text
           /\ warned \subseteq warned' /\ warned' \subseteq Rows
           /\ ui'.blocked /\ ui.asked.act = "delete" /\ ui.asked.row \in Rows
                => ui.blocked \/ ui.asked.row \in warned'
PROOF
  <1>1. ui \in PageState /\ s \in Sending /\ warned \subseteq Rows
    BY DEF Orderly, Shape
  <1>2. PICK conflict \in BOOLEAN :
            conflict = (page = "repairs" /\ s.act = "delete" /\ s.row \in held
                          /\ row[s.row].status # "gone")
    OBVIOUS
  <1>3. /\ ui' = IF conflict THEN [ui EXCEPT !.blocked = TRUE] ELSE ui
        /\ warned' = IF ~conflict THEN warned
                     ELSE warned \union {s.row} \union
                             (IF ui.asked.act = "delete" THEN {ui.asked.row} ELSE {})
    BY <1>2 DEF Fail, Open
  <1>4. CASE conflict
    <2>1. ui' = [open |-> ui.open, asked |-> ui.asked, row |-> ui.row, blocked |-> TRUE,
                 text |-> ui.text]
      BY <1>1, <1>3, <1>4 DEF PageState
    <2>2. ui' \in PageState
      BY <1>1, <2>1 DEF PageState
    <2>3. s.row \in Rows
      BY <1>2, <1>4 DEF Orderly, Shape
    <2>4. ui.asked.act = "delete" => ui.asked.row \in Rows
      BY DEF Orderly, Opened, OpenedAt, NobodyAsked
    <2> QED BY <1>1, <1>3, <1>4, <2>1, <2>2, <2>3, <2>4
  <1>5. CASE ~conflict
    BY <1>1, <1>3, <1>5
  <1> QED BY <1>4, <1>5

\* A refusal leaves the dialog where it is, or closes it.
LEMMA OrderlyFail ==
    ASSUME Orderly, NEW s \in sent, Fail(s)
    PROVE  Orderly'
PROOF
  <1>1. /\ ui' \in PageState
        /\ ui'.open = ui.open /\ ui'.asked = ui.asked /\ ui'.row = ui.row /\ ui'.text = ui.text
        /\ warned' \subseteq Rows
    BY FailFields
  <1>2. OpenedAt(ui')
    BY <1>1 DEF Orderly, Opened, OpenedAt
  <1>3. NotesAt(ui')
    BY <1>1 DEF Orderly, Notes, NotesAt
  <1>4. sent' = sent \ {s} /\ UNCHANGED <<page, row, held, shown, left>>
    BY DEF Fail
  <1> QED BY <1>1, <1>2, <1>3, <1>4, OrderlyAnswered

\* An answer that never comes leaves the page as it is.
LEMMA OrderlyLose ==
    ASSUME Orderly, NEW s \in sent, Lose(s)
    PROVE  Orderly'
PROOF
  <1>1. sent' = sent \ {s} /\ ui' = ui /\ UNCHANGED <<page, row, held, shown, warned, left>>
    BY DEF Lose
  <1>2. ui' \in PageState /\ OpenedAt(ui') /\ NotesAt(ui') /\ warned' \subseteq Rows
    BY <1>1 DEF Orderly, Shape, Opened, Notes
  <1> QED BY <1>1, <1>2, OrderlyAnswered

\* The rows or the list change, and nothing of the page's.
LEMMA OrderlyRows ==
    ASSUME Orderly, row' \in [Rows -> RowState], shown' \in [Rows -> Statuses],
           left' \in [sent : 0..MaxSent, moves : 0..MaxMoves],
           UNCHANGED <<page, held, ui, sent, warned>>
    PROVE  Orderly'
PROOF
  <1>1. Shape'
    BY SamePage DEF Orderly, Shape
  <1>2. Opened' /\ Notes' /\ AllAskedFor'
    BY SamePage DEF Orderly, Opened, Notes, AllAskedFor
  <1>3. OneByOne'
    BY DEF Orderly, OneByOne
  <1> QED BY <1>1, <1>2, <1>3 DEF Orderly

\* A list drawn again shows the statuses the rows have.
LEMMA OrderlyRefresh == Orderly /\ Refresh => Orderly'
PROOF
  <1> SUFFICES ASSUME Orderly, Refresh
               PROVE  Orderly'
    OBVIOUS
  <1>1. \A r \in Rows : row[r].status \in Statuses
    BY DEF Orderly, Shape, RowState
  <1>2. shown' \in [Rows -> Statuses]
    BY <1>1 DEF Refresh
  <1>3. row' \in [Rows -> RowState] /\ left' \in [sent : 0..MaxSent, moves : 0..MaxMoves]
    BY DEF Orderly, Shape, Refresh
  <1>4. UNCHANGED <<page, held, ui, sent, warned>>
    BY DEF Refresh
  <1> QED BY <1>2, <1>3, <1>4, OrderlyRows

\* Other people move rows, and nothing on this page.
LEMMA OrderlyElsewhere ==
    ASSUME Orderly, NEW r \in Rows, NEW a \in DOMAIN Acts, NEW who \in {"admin", "technical"},
           Elsewhere(r, a, who)
    PROVE  Orderly'
PROOF
  <1>1. row[r].status \in Acts[a].taken
    BY DEF Elsewhere
  <1>2. PICK new \in RowState : new = After(a, r, who)
    BY <1>1, AfterIsARow DEF Orderly
  <1>3. row' = [row EXCEPT ![r] = new]
    BY <1>2 DEF Elsewhere
  <1>4. row' \in [Rows -> RowState]
    BY <1>3 DEF Orderly, Shape
  <1>5. left' \in [sent : 0..MaxSent, moves : 0..MaxMoves]
    BY LeftStays DEF Elsewhere, Orderly, Shape
  <1>6. UNCHANGED <<page, held, shown, ui, sent, warned>>
    BY DEF Elsewhere
  <1>7. shown' \in [Rows -> Statuses]
    BY <1>6 DEF Orderly, Shape
  <1> QED BY <1>4, <1>5, <1>6, <1>7, OrderlyRows

\* Nothing changes when nothing changes.
LEMMA OrderlyStutter == Orderly /\ UNCHANGED vars => Orderly'
PROOF
  <1> SUFFICES ASSUME Orderly, UNCHANGED vars
               PROVE  Orderly'
    OBVIOUS
  <1> USE DEF Orderly, Shape, vars
  <1> QED BY OrderlyRows

\* Every step of the page, the server or other people keeps it.
LEMMA OrderlyNext == Orderly /\ [Next]_vars => Orderly'
PROOF
  <1> SUFFICES ASSUME Orderly, [Next]_vars
               PROVE  Orderly'
    OBVIOUS
  <1>1. CASE \E r \in Rows, a \in DOMAIN Acts : Menu(r, a) \/ Box(r, a)
    BY <1>1, OrderlyMenu, OrderlyBox
  <1>2. CASE \E r \in Rows : View(r)
    BY <1>2, OrderlyView
  <1>3. CASE Add \/ Dismiss \/ Type \/ Refresh
    BY <1>3, OrderlyAdd, OrderlyDismiss, OrderlyType, OrderlyRefresh
  <1>4. CASE \E force \in BOOLEAN : Confirm(force)
    BY <1>4, OrderlyConfirm
  <1>5. CASE \E s \in sent : Decide(s) \/ Succeed(s) \/ Fail(s) \/ Lose(s)
    BY <1>5, OrderlyDecide, OrderlySucceed, OrderlyFail, OrderlyLose
  <1>6. CASE \E r \in Rows, a \in DOMAIN Acts, who \in {"admin", "technical"} :
                Elsewhere(r, a, who)
    BY <1>6, OrderlyElsewhere
  <1>7. CASE UNCHANGED vars
    BY <1>7, OrderlyStutter
  <1> QED BY <1>1, <1>2, <1>3, <1>4, <1>5, <1>6, <1>7 DEF Next

\* It holds throughout, on every page.
LEMMA OrderlyAlways == Spec => []Orderly
PROOF
  BY OrderlyInit, OrderlyNext, PTL DEF Spec

\* The state always has its types, the dialog is open exactly when something is
\* asked, and each mutation of the page is under way at most once, whatever is
\* confirmed while answers come in.
THEOREM TypeCorrect == Spec => []TypeOK
PROOF
  <1>1. Orderly => TypeOK
    <2> SUFFICES ASSUME Orderly
                 PROVE  TypeOK
      OBVIOUS
    <2> USE DEF Orderly
    <2>1. /\ page \in Pages /\ held \subseteq Rows /\ warned \subseteq Rows
          /\ shown \in [Rows -> Statuses]
          /\ row \in [Rows -> [status : Statuses, by : {None, "admin", "technical"}]]
      BY DEF Shape, RowState, Signers
    <2>2. /\ ui.open \in BOOLEAN /\ ui.blocked \in BOOLEAN
          /\ {ui.row, ui.asked.row} \subseteq Rows \union {None}
          /\ ui.text \in [Keys(page) -> SUBSET Rows]
      BY DEF Shape, PageState, Question, AnyRow
    <2>3. ui.open <=> Open # "none"
      <3>1. "none" \notin DOMAIN Acts
        BY TheMenu DEF Shape
      <3>2. ui.open => Open # "none"
        BY <3>1 DEF Opened, OpenedAt, Open
      <3>3. ~ui.open => Open = "none"
        BY DEF Opened, OpenedAt, NobodyAsked, Open
      <3> QED BY <3>2, <3>3
    <2>4. left.sent \in 0..MaxSent /\ left.moves \in 0..MaxMoves
      BY DEF Shape
    <2> QED BY <2>1, <2>2, <2>3, <2>4 DEF TypeOK, OneByOne
  <1> QED BY <1>1, OrderlyAlways, PTL

\* What a page sends is what was picked from the menu, for the row it was picked
\* for, on every page and whatever was looked at before and answered since; the
\* exceptions are those Astray names.
THEOREM SendsWhatWasAskedHolds == Spec => []SendsWhatWasAsked
PROOF
  <1>1. Orderly => SendsWhatWasAsked
    BY DEF Orderly, AllAskedFor, AskedFor, SendsWhatWasAsked
  <1> QED BY <1>1, OrderlyAlways, PTL

\* What was typed about one row is not sent with an operation on another; the
\* exceptions are the dialogs that keep it, which KeepsText names.
THEOREM NotesStayWithRowHolds == Spec => []NotesStayWithRow
PROOF
  <1>1. Orderly => NotesStayWithRow
    BY DEF Orderly, AllAskedFor, AskedFor, NotesStayWithRow
  <1> QED BY <1>1, OrderlyAlways, PTL

-----------------------------------------------------------------------------
(* Forced deletions. *)

\* A deletion's dialog that offers to force it is about a row of which a deletion
\* has come back refused, or was open when one did.
DialogWarned ==
    ui.open /\ ui.asked.act = "delete" /\ ui.blocked => ui.asked.row \in warned

Forewarned == DialogWarned /\ ForcedAfterWarning

\* Nothing has been refused at the start.
LEMMA ForewarnedInit == Init => Forewarned
PROOF
  BY DEF Init, Idle, Forewarned, DialogWarned, ForcedAfterWarning

\* A deletion dialog turns to force only for a row a refusal came back about.
LEMMA DialogWarnedNext == Orderly /\ DialogWarned /\ [Next]_vars => DialogWarned'
PROOF
  <1> SUFFICES ASSUME Orderly, DialogWarned, [Next]_vars
               PROVE  DialogWarned'
    OBVIOUS
  <1>1. ASSUME NEW r \in Rows, NEW a \in DOMAIN Acts, Menu(r, a)
        PROVE  DialogWarned'
    <2>1. ui'.asked = Asked(a, r) /\ ui'.blocked = IF a = "delete" THEN FALSE ELSE ui.blocked
      BY <1>1, MenuFields DEF Orderly
    <2>2. Asked(a, r).act = a
      BY DEF Asked
    <2> QED BY <2>1, <2>2 DEF DialogWarned
  <1>2. ASSUME NEW r \in Rows, NEW a \in DOMAIN Acts, Box(r, a)
        PROVE  DialogWarned'
    BY <1>2, BoxFields DEF DialogWarned
  <1>3. ASSUME NEW r \in Rows, View(r)
        PROVE  DialogWarned'
    <2>1. ui'.open = ui.open /\ ~ui.open
      BY <1>3, ViewFields DEF Orderly, View
    <2> QED BY <2>1 DEF DialogWarned
  <1>4. CASE Add
    <2>1. ui'.asked = Asked("add", None)
      BY <1>4, AddFields DEF Orderly
    <2>2. Asked("add", None).act = "add"
      BY DEF Asked
    <2> QED BY <2>1, <2>2 DEF DialogWarned
  <1>5. CASE Dismiss
    BY <1>5, DismissFields DEF Orderly, DialogWarned
  <1>6. CASE Type
    <2>1. ui.asked.act \in DOMAIN Acts /\ ui.asked.row \in Rows
      BY <1>6 DEF Type, Open, Orderly, Opened, OpenedAt
    <2>2. ui'.open = ui.open /\ ui'.asked = ui.asked /\ ui'.blocked = ui.blocked
      BY <1>6, <2>1, TypeFields DEF Orderly
    <2>3. warned' = warned
      BY <1>6 DEF Type
    <2> QED BY <2>2, <2>3 DEF DialogWarned
  <1>7. ASSUME NEW s \in sent, Succeed(s)
        PROVE  DialogWarned'
    <2>1. warned' = warned
      BY <1>7 DEF Succeed
    <2> QED BY <1>7, <2>1, SucceedFields DEF DialogWarned
  <1>8. ASSUME NEW s \in sent, Fail(s)
        PROVE  DialogWarned'
    <2>1. ui.open /\ ui.asked.act = "delete" => ui.asked.row \in Rows
      BY TheMenu DEF Orderly, Opened, OpenedAt
    <2> QED BY <1>8, <2>1, FailFields DEF DialogWarned
  <1>9. CASE UNCHANGED <<ui, warned>>
    BY <1>9 DEF DialogWarned
  <1>10. CASE Refresh \/ \E force \in BOOLEAN : Confirm(force)
    BY <1>9, <1>10 DEF Refresh, Confirm
  <1>11. CASE \E s \in sent : Decide(s) \/ Lose(s)
    BY <1>9, <1>11 DEF Decide, Lose
  <1>12. CASE \E r \in Rows, a \in DOMAIN Acts, who \in {"admin", "technical"} :
                 Elsewhere(r, a, who)
    BY <1>9, <1>12 DEF Elsewhere
  <1>13. CASE UNCHANGED vars
    BY <1>9, <1>13 DEF vars
  <1> QED BY <1>1, <1>2, <1>3, <1>4, <1>5, <1>6, <1>7, <1>8, <1>10, <1>11, <1>12, <1>13
          DEF Next

\* What a decision does to what is under way.
LEMMA DecideAnswers ==
    ASSUME Orderly, NEW s \in sent, Decide(s)
    PROVE  \E t \in Sending :
              /\ sent' = (sent \ {s}) \union {t}
              /\ t.key = s.key /\ t.act = s.act /\ t.row = s.row /\ t.asked = s.asked
              /\ t.force = s.force
              /\ t.answer = "refused" => /\ s.act # "add" /\ ~Takes(s.act, s.row, s.force)
                                         /\ row' = row
PROOF
  <1>1. PICK taken \in BOOLEAN : taken <=> s.act = "add" \/ Takes(s.act, s.row, s.force)
    OBVIOUS
  <1>2. PICK answer \in {"done", "refused"} : answer = IF taken THEN "done" ELSE "refused"
    OBVIOUS
  <1>3. /\ sent' = (sent \ {s}) \union {[s EXCEPT !.answer = answer]}
        /\ ~taken => row' = row
    BY <1>1, <1>2 DEF Decide
  <1>4. s \in Sending
    BY DEF Orderly, Shape
  <1>5. PICK t : t = [s EXCEPT !.answer = answer]
    OBVIOUS
  <1>6. /\ t \in Sending
        /\ t.key = s.key /\ t.act = s.act /\ t.row = s.row /\ t.asked = s.asked
        /\ t.force = s.force /\ t.answer = answer
    BY <1>4, <1>5, AnsweredFields
  <1> QED BY <1>1, <1>2, <1>3, <1>5, <1>6

\* What is sent by force was sent from a dialog that had turned.
LEMMA ForewarnedNext == Orderly /\ Forewarned /\ [Next]_vars => Forewarned'
PROOF
  <1> SUFFICES ASSUME Orderly, Forewarned, [Next]_vars
               PROVE  ForcedAfterWarning'
    BY DialogWarnedNext DEF Forewarned
  <1> USE DEF Forewarned
  <1>1. ASSUME sent' \subseteq sent, warned \subseteq warned'
        PROVE  ForcedAfterWarning'
    BY <1>1 DEF ForcedAfterWarning
  <1>2. ASSUME NEW r \in Rows, NEW a \in DOMAIN Acts, Box(r, a)
        PROVE  ForcedAfterWarning'
    <2>1. warned' = warned
      BY <1>2 DEF Box
    <2>2. CASE sent' = sent
      BY <1>1, <2>1, <2>2
    <2>3. CASE sent' # sent
      <3>1. PICK o \in Sending : sent' = sent \union {o} /\ o.force = FALSE
        BY <1>2, <2>3, BoxSends
      <3> QED BY <2>1, <3>1 DEF ForcedAfterWarning
    <2> QED BY <2>2, <2>3
  <1>3. ASSUME NEW force \in BOOLEAN, Confirm(force)
        PROVE  ForcedAfterWarning'
    <2>1. PICK o \in Sending : /\ sent' = sent \union {o} /\ o.force = force
                               /\ force => o.row = ui.asked.row
      BY <1>3, ConfirmSends
    <2>2. warned' = warned /\ ui.open /\ (force => ui.blocked /\ Open = "delete")
      BY <1>3 DEF Confirm
    <2>3. o.force => o.row \in warned
      BY <2>1, <2>2 DEF DialogWarned, Open
    <2> QED BY <2>1, <2>2, <2>3 DEF ForcedAfterWarning
  <1>4. ASSUME NEW s \in sent, Decide(s)
        PROVE  ForcedAfterWarning'
    <2>1. PICK t \in Sending : /\ sent' = (sent \ {s}) \union {t}
                               /\ t.row = s.row /\ t.force = s.force
      BY <1>4, DecideAnswers
    <2>2. warned' = warned
      BY <1>4 DEF Decide
    <2> QED BY <2>1, <2>2 DEF ForcedAfterWarning
  <1>5. ASSUME NEW s \in sent, Succeed(s) \/ Fail(s) \/ Lose(s)
        PROVE  ForcedAfterWarning'
    <2>1. sent' \subseteq sent /\ warned \subseteq warned'
      BY <1>5 DEF Succeed, Fail, Lose
    <2> QED BY <1>1, <2>1
  <1>6. ASSUME NEW r \in Rows, NEW a \in DOMAIN Acts, Menu(r, a)
        PROVE  ForcedAfterWarning'
    BY <1>1, <1>6 DEF Menu
  <1>7. ASSUME NEW r \in Rows, View(r)
        PROVE  ForcedAfterWarning'
    BY <1>1, <1>7 DEF View
  <1>8. CASE Add \/ Dismiss \/ Type \/ Refresh
    BY <1>1, <1>8 DEF Add, Dismiss, Type, Refresh
  <1>9. CASE \E r \in Rows, a \in DOMAIN Acts, who \in {"admin", "technical"} :
                Elsewhere(r, a, who)
    BY <1>1, <1>9 DEF Elsewhere
  <1>10. CASE UNCHANGED vars
    BY <1>1, <1>10 DEF vars
  <1> QED BY <1>2, <1>3, <1>4, <1>5, <1>6, <1>7, <1>8, <1>9, <1>10 DEF Next

\* A repair is deleted by force only after a refusal has come back about it, or
\* while its own dialog was open: a refusal about an earlier row never turns the
\* dialog of a later one.
THEOREM ForcedAfterWarningHolds == Spec => []ForcedAfterWarning
PROOF
  <1>1. Init => Orderly /\ Forewarned
    BY OrderlyInit, ForewarnedInit
  <1>2. Orderly /\ Forewarned /\ [Next]_vars => (Orderly /\ Forewarned)'
    BY OrderlyNext, ForewarnedNext
  <1>3. Forewarned => ForcedAfterWarning
    BY DEF Forewarned
  <1> QED BY <1>1, <1>2, <1>3, PTL DEF Spec

-----------------------------------------------------------------------------
(* Refusals. *)

\* What is remembered about a row is not later than the row.
Earlier(q) ==
    q.row \in Rows => q.status \in Statuses /\ Rank[q.status] <= Rank[row[q.row].status]

ShownEarlier == \A r \in Rows : Rank[shown[r]] <= Rank[row[r].status]
AskedEarlier == Earlier(ui.asked) /\ \A s \in sent : Earlier(s.asked)

\* Why an operation was refused.
Excused(s) ==
    \/ row[s.row].status # s.asked.status
    \/ s.act = "delete" /\ s.row \in held
    \/ s.act = "delete" /\ Me # "admin" /\ Does("toAll")
    \/ row[s.row].by \notin Unsigned

RefusedExcused ==
    \A s \in sent : s.answer = "refused" =>
        s.act # "add" /\ (<<page, s.key>> \notin Astray => Excused(s))

Forward == ShownEarlier /\ AskedEarlier /\ RefusedExcused

\* No step takes a row back, or changes who of the other kind has signed it.
Onward ==
    \A r \in Rows : /\ Rank[row[r].status] <= Rank[row'[r].status]
                    /\ row[r].by \notin Unsigned => row'[r].by = row[r].by

\* The order of statuses is by numbers.
LEMMA RankIsNat == page \in Pages => \A x \in Statuses : Rank[x] \in Nat
PROOF
  BY TheMenu, RankOrders

\* An operation the tables list leads a row forward and keeps who has signed it.
LEMMA MoveOnward ==
    ASSUME Orderly, NEW a \in DOMAIN Acts, NEW r \in Rows, NEW who \in {"admin", "technical"},
           row[r].status \in Acts[a].taken,
           Is(a, "signed") => row[r].by \in {None, who},
           row' = [row EXCEPT ![r] = After(a, r, who)]
    PROVE  Onward
PROOF
  <1>1. PICK new : new = After(a, r, who)
    OBVIOUS
  <1>2. /\ Rank[row[r].status] <= Rank[new.status]
        /\ new.by = IF Is(a, "signed") THEN who ELSE row[r].by
    BY <1>1, AfterIsARow DEF Orderly
  <1>3. row' = [row EXCEPT ![r] = new] /\ row \in [Rows -> RowState]
    BY <1>1 DEF Orderly, Shape
  <1>4. row[r].by \notin Unsigned => new.by = row[r].by
    BY <1>2 DEF Unsigned
  <1>5. \A q \in Rows : Rank[row[q].status] \in Nat
    BY <1>3, RankIsNat DEF Orderly, Shape, RowState
  <1>6. ASSUME NEW q \in Rows
        PROVE  /\ Rank[row[q].status] <= Rank[row'[q].status]
               /\ row[q].by \notin Unsigned => row'[q].by = row[q].by
    <2>1. CASE q = r
      BY <1>2, <1>3, <1>4, <2>1
    <2>2. CASE q # r
      <3>1. row'[q] = row[q]
        BY <1>3, <1>6, <2>2
      <3> QED BY <1>5, <1>6, <3>1
    <2> QED BY <2>1, <2>2
  <1> QED BY <1>6 DEF Onward

\* A step that changes no row takes none back.
LEMMA StayOnward == Orderly /\ row' = row => Onward
PROOF
  BY RankIsNat DEF Orderly, Shape, RowState, Onward

\* No step at all takes a row back.
LEMMA NextOnward == Orderly /\ [Next]_vars => Onward
PROOF
  <1> SUFFICES ASSUME Orderly, [Next]_vars
               PROVE  Onward
    OBVIOUS
  <1>1. ASSUME NEW s \in sent, Decide(s)
        PROVE  Onward
    <2>1. CASE s.act # "add" /\ Takes(s.act, s.row, s.force)
      <3>1. s.row \in Rows /\ s.act \in DOMAIN Acts
        BY <2>1 DEF Orderly, AllAskedFor, AskedFor, Shape, Sending
      <3>2. row' = [row EXCEPT ![s.row] = After(s.act, s.row, Me)]
        BY <1>1, <2>1 DEF Decide
      <3>3. /\ row[s.row].status \in Acts[s.act].taken
            /\ Is(s.act, "signed") => row[s.row].by \in {None, Me}
        BY <2>1 DEF Takes, Unsigned
      <3>4. Me \in {"admin", "technical"}
        BY DeskConstants
      <3> QED BY <3>1, <3>2, <3>3, <3>4, MoveOnward
    <2>2. CASE ~(s.act # "add" /\ Takes(s.act, s.row, s.force))
      <3>1. row' = row
        BY <1>1, <2>2 DEF Decide
      <3> QED BY <3>1, StayOnward
    <2> QED BY <2>1, <2>2
  <1>2. ASSUME NEW r \in Rows, NEW a \in DOMAIN Acts, NEW who \in {"admin", "technical"},
               Elsewhere(r, a, who)
        PROVE  Onward
    BY <1>2, MoveOnward DEF Elsewhere
  <1>3. CASE UNCHANGED row
    BY <1>3, StayOnward
  <1>4. CASE \E r \in Rows, a \in DOMAIN Acts : Menu(r, a) \/ Box(r, a)
    BY <1>3, <1>4 DEF Menu, Box
  <1>5. CASE \E r \in Rows : View(r)
    BY <1>3, <1>5 DEF View
  <1>6. CASE Add \/ Dismiss \/ Type \/ Refresh
    BY <1>3, <1>6 DEF Add, Dismiss, Type, Refresh
  <1>7. CASE \E force \in BOOLEAN : Confirm(force)
    BY <1>3, <1>7 DEF Confirm
  <1>8. CASE \E s \in sent : Succeed(s) \/ Fail(s) \/ Lose(s)
    BY <1>3, <1>8 DEF Succeed, Fail, Lose
  <1>9. CASE UNCHANGED vars
    BY <1>3, <1>9 DEF vars
  <1> QED BY <1>1, <1>2, <1>4, <1>5, <1>6, <1>7, <1>8, <1>9 DEF Next

\* The page, and what hangs on its rows, stay.
LEMMA SameKind == [Next]_vars => page' = page /\ held' = held
PROOF
  BY DEF Next, vars, Menu, Box, View, Add, Dismiss, Type, Refresh, Confirm, Decide, Succeed,
         Fail, Lose, Elsewhere

\* Nothing is asked, sent or refused at the start.
LEMMA ForwardInit == Init => Forward
PROOF
  <1> SUFFICES ASSUME Init
               PROVE  Forward
    OBVIOUS
  <1>1. Orderly
    BY OrderlyInit
  <1>2. ShownEarlier
    <2>1. \A r \in Rows : shown[r] = row[r].status /\ Rank[row[r].status] \in Nat
      BY <1>1, RankIsNat DEF Init, Orderly, Shape, RowState
    <2> QED BY <2>1 DEF ShownEarlier
  <1>3. AskedEarlier
    <2>1. sent = {} /\ ui.asked.row = None
      BY DEF Init, Idle, NobodyAsked
    <2> QED BY <2>1, DeskConstants DEF AskedEarlier, Earlier
  <1>4. RefusedExcused
    BY DEF Init, RefusedExcused
  <1> QED BY <1>2, <1>3, <1>4 DEF Forward

\* What is remembered stays behind the row,
LEMMA EarlierStays ==
    ASSUME Orderly, Orderly', Onward, page' = page, NEW q \in Question, Earlier(q)
    PROVE  q.row \in Rows => /\ q.status \in Statuses'
                             /\ Rank[q.status] <= Rank[row'[q.row].status]
PROOF
  <1> SUFFICES ASSUME q.row \in Rows
               PROVE  q.status \in Statuses' /\ Rank[q.status] <= Rank[row'[q.row].status]
    OBVIOUS
  <1>1. q.status \in Statuses /\ Rank[q.status] <= Rank[row[q.row].status]
    BY DEF Earlier
  <1>2. Statuses' = Statuses
    BY SamePage
  <1>3. row[q.row].status \in Statuses /\ row'[q.row].status \in Statuses
    BY <1>2 DEF Orderly, Shape, RowState
  <1>4. /\ Rank[q.status] \in Nat /\ Rank[row[q.row].status] \in Nat
        /\ Rank[row'[q.row].status] \in Nat
    BY <1>1, <1>3, RankIsNat DEF Orderly, Shape
  <1>5. Rank[row[q.row].status] <= Rank[row'[q.row].status]
    BY DEF Onward
  <1> QED BY <1>1, <1>2, <1>4, <1>5

\* and what excused a refusal goes on excusing it.
LEMMA ExcusedStays ==
    ASSUME Orderly, Orderly', Onward, page' = page, held' = held,
           NEW s \in sent, s.row \in Rows, s.asked.row = s.row, Earlier(s.asked), Excused(s)
    PROVE  \/ row'[s.row].status # s.asked.status
           \/ s.act = "delete" /\ s.row \in held'
           \/ s.act = "delete" /\ Me # "admin" /\ Does("toAll")
           \/ row'[s.row].by \notin Unsigned
PROOF
  <1>1. CASE row[s.row].status # s.asked.status
    <2>1. /\ s.asked.status \in Statuses
          /\ Rank[s.asked.status] <= Rank[row[s.row].status]
      BY DEF Earlier
    <2>2. Statuses' = Statuses
      BY SamePage
    <2>3. row[s.row].status \in Statuses /\ row'[s.row].status \in Statuses
      BY <2>2 DEF Orderly, Shape, RowState
    <2>4. Rank[s.asked.status] # Rank[row[s.row].status]
      BY <1>1, <2>1, <2>3, TheMenu, RankOrders DEF Orderly, Shape
    <2>5. /\ Rank[s.asked.status] \in Nat /\ Rank[row[s.row].status] \in Nat
          /\ Rank[row'[s.row].status] \in Nat
      BY <2>1, <2>3, RankIsNat DEF Orderly, Shape
    <2>6. Rank[row[s.row].status] <= Rank[row'[s.row].status]
      BY DEF Onward
    <2>7. Rank[s.asked.status] # Rank[row'[s.row].status]
      BY <2>1, <2>4, <2>5, <2>6
    <2> QED BY <2>7
  <1>2. CASE row[s.row].by \notin Unsigned
    BY <1>2 DEF Onward
  <1>3. CASE s.act = "delete" /\ (s.row \in held \/ (Me # "admin" /\ Does("toAll")))
    BY <1>3
  <1> QED BY <1>1, <1>2, <1>3 DEF Excused

\* What the list showed when a dialog was opened was not later than the row.
LEMMA AskedIsEarlier ==
    ASSUME Orderly, ShownEarlier, NEW a \in DOMAIN Acts \union {"add"}, NEW r \in AnyRow
    PROVE  Earlier(Asked(a, r))
PROOF
  <1>1. PICK q : q = Asked(a, r)
    OBVIOUS
  <1>2. q.row = r /\ q.status = IF r = None THEN "none" ELSE shown[r]
    BY <1>1, AskedFields DEF Orderly
  <1>3. Earlier(q)
    BY <1>2, DeskConstants DEF Orderly, Shape, ShownEarlier, Earlier
  <1> QED BY <1>1, <1>3

\* Nothing is asked about now, or sent, that was not asked about before the step,
\* but for what a menu or the box has just read from the list.
AskedBefore(q) ==
    \/ q \in {ui.asked, NobodyAsked}
    \/ \E s \in sent : q = s.asked
    \/ \E a \in DOMAIN Acts \union {"add"}, r \in AnyRow : q = Asked(a, r)

\* What is asked or sent after a step was asked of a row as shown before it.
LEMMA NothingNewAsked ==
    ASSUME Orderly, [Next]_vars
    PROVE  AskedBefore(ui'.asked) /\ \A s \in sent' : AskedBefore(s.asked)
PROOF
  <1> USE DEF AskedBefore
  <1>1. ASSUME ui'.asked = ui.asked, sent' \subseteq sent
        PROVE  AskedBefore(ui'.asked) /\ \A s \in sent' : AskedBefore(s.asked)
    BY <1>1
  <1>2. ASSUME NEW r \in Rows, NEW a \in DOMAIN Acts, Menu(r, a)
        PROVE  AskedBefore(ui'.asked) /\ \A s \in sent' : AskedBefore(s.asked)
    <2>1. ui'.asked = Asked(a, r) /\ sent' = sent /\ r \in AnyRow
      BY <1>2, MenuFields DEF Orderly, Menu, AnyRow
    <2> QED BY <2>1
  <1>3. ASSUME NEW r \in Rows, NEW a \in DOMAIN Acts, Box(r, a)
        PROVE  AskedBefore(ui'.asked) /\ \A s \in sent' : AskedBefore(s.asked)
    <2>1. ui'.asked = ui.asked
      BY <1>3, BoxFields
    <2>2. CASE sent' = sent
      BY <1>1, <2>1, <2>2
    <2>3. CASE sent' # sent
      <3>1. PICK o \in Sending : sent' = sent \union {o} /\ o.asked = Asked(a, r)
        BY <1>3, <2>3, BoxSends
      <3>2. r \in AnyRow
        BY DEF AnyRow
      <3> QED BY <2>1, <3>1, <3>2
    <2> QED BY <2>2, <2>3
  <1>4. ASSUME NEW r \in Rows, View(r)
        PROVE  AskedBefore(ui'.asked) /\ \A s \in sent' : AskedBefore(s.asked)
    <2>1. ui'.asked = ui.asked /\ sent' = sent
      BY <1>4, ViewFields DEF Orderly, View
    <2> QED BY <1>1, <2>1
  <1>5. CASE Add
    <2>1. ui'.asked = Asked("add", None) /\ sent' = sent /\ None \in AnyRow
      BY <1>5, AddFields DEF Orderly, Add, AnyRow
    <2> QED BY <2>1
  <1>6. CASE Dismiss
    <2>1. ui'.asked = NobodyAsked /\ sent' = sent
      BY <1>6, DismissFields DEF Orderly, Dismiss
    <2> QED BY <2>1
  <1>7. CASE Type
    <2>1. ui.asked.act \in DOMAIN Acts /\ ui.asked.row \in Rows
      BY <1>7 DEF Type, Open, Orderly, Opened, OpenedAt
    <2>2. ui'.asked = ui.asked /\ sent' = sent
      BY <1>7, <2>1, TypeFields DEF Orderly, Type
    <2> QED BY <1>1, <2>2
  <1>8. ASSUME NEW force \in BOOLEAN, Confirm(force)
        PROVE  AskedBefore(ui'.asked) /\ \A s \in sent' : AskedBefore(s.asked)
    <2>1. PICK o \in Sending : sent' = sent \union {o} /\ o.asked = ui.asked
      BY <1>8, ConfirmSends
    <2>2. ui' = ui
      BY <1>8 DEF Confirm
    <2> QED BY <2>1, <2>2
  <1>9. ASSUME NEW s \in sent, Decide(s)
        PROVE  AskedBefore(ui'.asked) /\ \A x \in sent' : AskedBefore(x.asked)
    <2>1. PICK t \in Sending : sent' = (sent \ {s}) \union {t} /\ t.asked = s.asked
      BY <1>9, DecideAnswers
    <2>2. ui' = ui
      BY <1>9 DEF Decide
    <2> QED BY <2>1, <2>2
  <1>10. ASSUME NEW s \in sent, Succeed(s)
         PROVE  AskedBefore(ui'.asked) /\ \A x \in sent' : AskedBefore(x.asked)
    <2>1. ui'.asked \in {ui.asked, NobodyAsked}
      BY <1>10, SucceedFields
    <2>2. sent' \subseteq sent
      BY <1>10 DEF Succeed
    <2> QED BY <2>1, <2>2
  <1>11. ASSUME NEW s \in sent, Fail(s)
         PROVE  AskedBefore(ui'.asked) /\ \A x \in sent' : AskedBefore(x.asked)
    <2>1. ui'.asked = ui.asked /\ sent' \subseteq sent
      BY <1>11, FailFields DEF Fail
    <2> QED BY <1>1, <2>1
  <1>12. ASSUME NEW s \in sent, Lose(s)
         PROVE  AskedBefore(ui'.asked) /\ \A x \in sent' : AskedBefore(x.asked)
    BY <1>1, <1>12 DEF Lose
  <1>13. CASE Refresh
    BY <1>1, <1>13 DEF Refresh
  <1>14. CASE \E r \in Rows, a \in DOMAIN Acts, who \in {"admin", "technical"} :
                 Elsewhere(r, a, who)
    BY <1>1, <1>14 DEF Elsewhere
  <1>15. CASE UNCHANGED vars
    BY <1>1, <1>15 DEF vars
  <1> HIDE DEF AskedBefore
  <1> QED BY <1>2, <1>3, <1>4, <1>5, <1>6, <1>7, <1>8, <1>9, <1>10, <1>11, <1>12, <1>13, <1>14,
             <1>15 DEF Next

\* Lists show a row as it is or as it was before.
LEMMA ShownEarlierNext == Orderly /\ Orderly' /\ ShownEarlier /\ [Next]_vars => ShownEarlier'
PROOF
  <1> SUFFICES ASSUME Orderly, Orderly', ShownEarlier, [Next]_vars
               PROVE  ShownEarlier'
    OBVIOUS
  <1>1. Onward /\ page' = page
    BY NextOnward, SameKind
  <1>2. Statuses' = Statuses
    BY <1>1, SamePage
  <1>3. \A r \in Rows : /\ Rank[shown[r]] \in Nat /\ Rank[row[r].status] \in Nat
                        /\ Rank[row'[r].status] \in Nat
    BY <1>2, RankIsNat DEF Orderly, Shape, RowState
  <1>4. CASE shown' = shown
    BY <1>1, <1>3, <1>4 DEF ShownEarlier, Onward
  <1>5. CASE Refresh
    <2>1. row' = row /\ \A r \in Rows : shown'[r] = row[r].status
      BY <1>5 DEF Refresh
    <2> QED BY <1>3, <2>1 DEF ShownEarlier
  <1>6. shown' = shown \/ Refresh
    BY DEF Next, vars, Menu, Box, View, Add, Dismiss, Type, Confirm, Decide, Succeed, Fail,
           Lose, Elsewhere
  <1> QED BY <1>4, <1>5, <1>6

\* Questions are about a row as it is or as it was before.
LEMMA AskedEarlierNext ==
    Orderly /\ Orderly' /\ ShownEarlier /\ AskedEarlier /\ [Next]_vars => AskedEarlier'
PROOF
  <1> SUFFICES ASSUME Orderly, Orderly', ShownEarlier, AskedEarlier, [Next]_vars
               PROVE  AskedEarlier'
    OBVIOUS
  <1>1. Onward /\ page' = page
    BY NextOnward, SameKind
  <1>2. ASSUME NEW q \in Question, AskedBefore(q)
        PROVE  Earlier(q)
    <2>1. CASE q = NobodyAsked
      BY <2>1, DeskConstants DEF NobodyAsked, Earlier
    <2>2. CASE q = ui.asked \/ \E s \in sent : q = s.asked
      BY <2>2 DEF AskedEarlier
    <2>3. CASE \E a \in DOMAIN Acts \union {"add"}, r \in AnyRow : q = Asked(a, r)
      BY <2>3, AskedIsEarlier
    <2> QED BY <1>2, <2>1, <2>2, <2>3 DEF AskedBefore
  <1>3. ui'.asked \in Question /\ \A s \in sent' : s.asked \in Question
    <2>1. PageState' = PageState /\ Sending' = Sending
      BY <1>1, SamePage
    <2>2. ui' \in PageState /\ sent' \subseteq Sending
      BY <2>1 DEF Orderly, Shape
    <2> QED BY <2>2 DEF PageState, Sending
  <1>4. AskedBefore(ui'.asked) /\ \A s \in sent' : AskedBefore(s.asked)
    BY NothingNewAsked
  <1>5. ASSUME NEW q \in Question, AskedBefore(q)
        PROVE  q.row \in Rows => /\ q.status \in Statuses'
                                 /\ Rank[q.status] <= Rank[row'[q.row].status]
    BY <1>1, <1>2, <1>5, EarlierStays
  <1> QED BY <1>3, <1>4, <1>5 DEF AskedEarlier, Earlier

\* A refusal that has just come has its reason in the menu or in the row.
LEMMA RefusalExcused ==
    ASSUME Orderly, NEW s \in sent, s.act # "add", ~Takes(s.act, s.row, s.force),
           <<page, s.key>> \notin Astray
    PROVE  Excused(s)
PROOF
  <1>1. /\ s.act \in DOMAIN Acts /\ s.asked.status \in Acts[s.act].offered
        /\ s.act = "delete" => Me = "admin" \/ Does("toAll")
    BY DEF Orderly, Shape, Sending, AllAskedFor, AskedFor
  <1>2. Acts[s.act].offered \subseteq Acts[s.act].taken
    BY <1>1, TheMenu DEF DialogOK, Orderly, Shape
  <1> QED BY <1>1, <1>2 DEF Takes, Excused

\* A refusal has its excuse when the server decides, and keeps it: rows only move
\* on.
LEMMA RefusedExcusedNext ==
    Orderly /\ Orderly' /\ Forward /\ [Next]_vars => RefusedExcused'
PROOF
  <1> SUFFICES ASSUME Orderly, Orderly', Forward, [Next]_vars
               PROVE  RefusedExcused'
    OBVIOUS
  <1> USE DEF Forward
  <1>1. Onward /\ page' = page /\ held' = held
    BY NextOnward, SameKind
  <1> DEFINE excused(t) ==
        t.act # "add" /\
        (<<page, t.key>> \notin Astray =>
            \/ row'[t.row].status # t.asked.status
            \/ t.act = "delete" /\ t.row \in held'
            \/ t.act = "delete" /\ Me # "admin" /\ Does("toAll")
            \/ row'[t.row].by \notin Unsigned)
  <1>2. ASSUME NEW s \in sent, s.answer = "refused"
        PROVE  excused(s)
    <2>1. s.act # "add" /\ (<<page, s.key>> \notin Astray => Excused(s))
      BY <1>2 DEF RefusedExcused
    <2>2. s.row \in Rows
      BY <2>1 DEF Orderly, AllAskedFor, AskedFor
    <2>3. <<page, s.key>> \notin Astray => s.asked.row = s.row
      BY DEF Orderly, AllAskedFor, AskedFor
    <2>4. Earlier(s.asked)
      BY DEF AskedEarlier
    <2> QED BY <1>1, <2>1, <2>2, <2>3, <2>4, ExcusedStays
  <1>3. \A t \in sent' : t.answer = "refused" => excused(t)
    <2>1. CASE \A t \in sent' : t \in sent \/ t.answer # "refused"
      BY <1>2, <2>1
    <2>2. ASSUME NEW s \in sent, Decide(s)
          PROVE  \A t \in sent' : t.answer = "refused" => excused(t)
      <3>1. PICK t \in Sending :
                /\ sent' = (sent \ {s}) \union {t}
                /\ t.key = s.key /\ t.act = s.act /\ t.row = s.row /\ t.asked = s.asked
                /\ t.answer = "refused" => /\ s.act # "add" /\ ~Takes(s.act, s.row, s.force)
                                           /\ row' = row
        BY <2>2, DecideAnswers
      <3>2. ASSUME t.answer = "refused"
            PROVE  excused(t)
        <4>1. s.act # "add" /\ (<<page, s.key>> \notin Astray => Excused(s))
          BY <3>1, <3>2, RefusalExcused
        <4>2. row' = row /\ held' = held
          BY <1>1, <3>1, <3>2
        <4> QED BY <3>1, <4>1, <4>2 DEF Excused
      <3> HIDE DEF excused
      <3> QED BY <1>2, <3>1, <3>2
    <2>3. ASSUME NEW r \in Rows, NEW a \in DOMAIN Acts, Box(r, a)
          PROVE  \A t \in sent' : t \in sent \/ t.answer # "refused"
      <3>1. CASE sent' = sent
        BY <3>1
      <3>2. CASE sent' # sent
        <4>1. PICK o \in Sending : sent' = sent \union {o} /\ o.answer = "none"
          BY <2>3, <3>2, BoxSends
        <4> QED BY <4>1
      <3> QED BY <3>1, <3>2
    <2>4. ASSUME NEW force \in BOOLEAN, Confirm(force)
          PROVE  \A t \in sent' : t \in sent \/ t.answer # "refused"
      <3>1. PICK o \in Sending : sent' = sent \union {o} /\ o.answer = "none"
        BY <2>4, ConfirmSends
      <3> QED BY <3>1
    <2>5. (\E s \in sent : Decide(s)) \/ (\E r \in Rows, a \in DOMAIN Acts : Box(r, a))
             \/ (\E force \in BOOLEAN : Confirm(force)) \/ sent' \subseteq sent
      BY DEF Next, vars, Menu, View, Add, Dismiss, Type, Refresh, Succeed, Fail,
         Lose, Elsewhere
    <2> HIDE DEF excused
    <2> QED BY <2>1, <2>2, <2>3, <2>4, <2>5
  <1>4. Does("toAll")' <=> Does("toAll")
    BY <1>1 DEF Does
  <1> QED BY <1>1, <1>3, <1>4 DEF RefusedExcused, Excused

\* What a menu offers is refused only when the row has moved since the list was
\* drawn, something hangs on a row to be deleted, the page offers the deletion to
\* accounts that may delete nothing, or the other kind of account has signed the row.
THEOREM RefusedOnlyIfMovedHolds == Spec => []RefusedOnlyIfMoved
PROOF
  <1>1. Init => Orderly /\ Forward
    BY OrderlyInit, ForwardInit
  <1>2. Orderly /\ Forward /\ [Next]_vars => (Orderly /\ Forward)'
    <2> SUFFICES ASSUME Orderly, Forward, [Next]_vars
                 PROVE  Orderly' /\ Forward'
      OBVIOUS
    <2>1. Orderly'
      BY OrderlyNext
    <2>2. ShownEarlier' /\ AskedEarlier'
      BY <2>1, ShownEarlierNext, AskedEarlierNext DEF Forward
    <2>3. RefusedExcused'
      BY <2>1, RefusedExcusedNext
    <2> QED BY <2>1, <2>2, <2>3 DEF Forward
  <1>3. Forward => RefusedOnlyIfMoved
    BY DEF Forward, RefusedExcused, Excused, RefusedOnlyIfMoved
  <1> QED BY <1>1, <1>2, <1>3, PTL DEF Spec
=============================================================================
