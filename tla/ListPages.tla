-------------------------------- MODULE ListPages --------------------------------
(***************************************************************************)
(* The list pages of the web client as data: the dialogs, the menus of the *)
(* rows, and how each page keeps its selected row.                         *)
(*                                                                         *)
(* All list pages are built alike: a table whose menu depends on the status *)
(* it shows, one selected row, one dialog per operation and one mutation   *)
(* per dialog.  They differ in what a dialog remembers, what closing it    *)
(* forgets and which row an operation is sent for.                         *)
(***************************************************************************)
CONSTANT None

-----------------------------------------------------------------------------
(* Dialogs.  key: the mutation behind it; to: the status its operation leads *)
(* to, None if it stays; traits: whether it has something to type, which it *)
(* empties when it is closed ("types") or keeps ("keeps"); it has a row     *)
(* variable of its "own"; it is the browser's confirmation "box"; the       *)
(* operation is "signed" with the kind of the account.                      *)

Dialog(key, to, traits) == [key |-> key, to |-> to, traits |-> traits]

\* A form fills itself in whenever the selected row changes, and edits that row
\* or, without one, adds.
Form == Dialog("form", None, {})
DeleteDialog == Dialog("delete", "gone", {})

RepairReviewDialog(to) == Dialog("review", to, {"keeps", "signed"})
RepairCancelDialog == Dialog("cancel", "Cancelled", {"signed"})
RepairDeleteDialog == DeleteDialog
PartRequestStatusDialog(to) == Dialog("status", to, {"types", "signed"})
PartRequestDeleteDialog == DeleteDialog
PartShipmentReceiveDialog == Dialog("receive", "Received", {"types"})
PartShipmentRejectDialog == Dialog("reject", "Rejected", {"types"})
PartShipmentInvoiceDialog == Dialog("invoice", "Invoiced", {"types"})
PartShipmentPayDialog == Dialog("pay", "Paid", {"types"})
PartShipmentDeleteDialog == DeleteDialog

\* One dialog for both decisions.
ApproveDialog(to) == Dialog("approve", to, {"keeps"})
RenewDialog == Dialog("renew", "Renewed", {"keeps"})
SetGoldenDialog == Dialog("setGolden", None, {})
RemoveGoldenDialog == Dialog("removeGolden", None, {})
GuaranteeEditDialog == Dialog("update", None, {})
GuaranteeDeleteDialog == DeleteDialog

TechnicianReviewDialog(to) == Dialog("review", to, {"types", "own"})
TechnicianForm == Form
TechnicianDeleteDialog == DeleteDialog
CustomerForm == Form
CustomerDeleteDialog == DeleteDialog
ProductForm == Form
ProductDeleteDialog == DeleteDialog
CategoryForm == Form
CategoryDeleteDialog == DeleteDialog
RepairCatalogFormDialog == Form
SmsTemplateFormDialog == Dialog("form", None, {"own"})
ListDeleteDialog == Dialog("delete", "gone", {"own"})

\* The technicians' own lists ask in the browser's box.
CancelBox == Dialog("cancel", "Cancelled", {"box"})

-----------------------------------------------------------------------------
(* Menus: for each item its dialog, the statuses it is offered for, and     *)
(* those the server accepts it in.                                          *)

Offer(dialog, offered, taken) ==
    [key |-> dialog.key, to |-> dialog.to, traits |-> dialog.traits,
     offered |-> offered, taken |-> taken]
At(dialog, statuses) == Offer(dialog, statuses, statuses)

RepairStatus == {"Pending", "Approved", "Rejected", "Cancelled"}

\* Mutant: whatever is not cancelled yet can be cancelled from the menu.
CancelAnyRepair ==
    [approve |-> At(RepairReviewDialog("Approved"), {"Pending"}),
     reject |-> At(RepairReviewDialog("Rejected"), {"Pending"}),
     cancel |-> Offer(RepairCancelDialog, RepairStatus \ {"Cancelled"},
                      RepairStatus \ {"Rejected", "Cancelled"}),
     delete |-> At(RepairDeleteDialog, RepairStatus)]

RepairTable ==
    [approve |-> At(RepairReviewDialog("Approved"), {"Pending"}),
     reject |-> At(RepairReviewDialog("Rejected"), {"Pending"}),
     cancel |-> Offer(RepairCancelDialog, {"Pending", "Approved"},
                      RepairStatus \ {"Rejected", "Cancelled"}),
     delete |-> At(RepairDeleteDialog, RepairStatus)]

RequestStatus == {"Pending", "Approved", "NotDelivered", "Delivered", "Cancelled"}

\* PART_REQUEST_NEXT_STATUSES: to each status, from those that may lead there.
PartRequestTable ==
    LET open == {"Approved", "NotDelivered"}
    IN  [approve |-> At(PartRequestStatusDialog("Approved"), {"Pending"}),
         notDelivered |-> At(PartRequestStatusDialog("NotDelivered"), {"Approved"}),
         deliver |-> At(PartRequestStatusDialog("Delivered"), open),
         cancel |-> At(PartRequestStatusDialog("Cancelled"), {"Pending"} \union open),
         delete |-> At(PartRequestDeleteDialog, RequestStatus)]

ParcelStatus == {"Sent", "Received", "Invoiced", "Paid", "Rejected", "Cancelled"}

PartShipmentTable ==
    [receive |-> At(PartShipmentReceiveDialog, {"Sent"}),
     reject |-> At(PartShipmentRejectDialog, {"Sent"}),
     delete |-> At(PartShipmentDeleteDialog, ParcelStatus)]

\* The finance page has a tab for each of its two steps.
FinanceTable ==
    [invoice |-> At(PartShipmentInvoiceDialog, {"Received"}),
     pay |-> At(PartShipmentPayDialog, {"Invoiced"})]

Covered == {"Approved", "Renewed"}
GuaranteeStatus == {"Pending", "Rejected", "Cancelled", "Expired"} \union Covered

GuaranteeTable ==
    [update |-> At(GuaranteeEditDialog, {"Pending"}),
     approve |-> At(ApproveDialog("Approved"), {"Pending"}),
     reject |-> At(ApproveDialog("Rejected"), {"Pending"}),
     renew |-> At(RenewDialog, Covered),
     cancel |-> At(CancelBox, GuaranteeStatus \ {"Cancelled", "Expired"}),
     setGolden |-> At(SetGoldenDialog, Covered),
     removeGolden |-> At(RemoveGoldenDialog, GuaranteeStatus),
     delete |-> At(GuaranteeDeleteDialog, GuaranteeStatus)]

Applied == {"Pending", "Approved", "Rejected"}

TechnicianTable ==
    [approve |-> At(TechnicianReviewDialog("Approved"), {"Pending"}),
     reject |-> At(TechnicianReviewDialog("Rejected"), {"Pending"}),
     edit |-> At(TechnicianForm, Applied),
     delete |-> At(TechnicianDeleteDialog, Applied)]

Listed == {"Listed"}
CustomerTable == [edit |-> At(CustomerForm, Listed), delete |-> At(CustomerDeleteDialog, Listed)]
ProductTable == [edit |-> At(ProductForm, Listed), delete |-> At(ProductDeleteDialog, Listed)]
CategoryTable == [edit |-> At(CategoryForm, Listed), delete |-> At(CategoryDeleteDialog, Listed)]
RepairCatalogTable ==
    [edit |-> At(RepairCatalogFormDialog, Listed), delete |-> At(DeleteDialog, Listed)]

\* Patterns and polls: the page itself holds the table and the deletion's dialog.
SmsTemplateList ==
    [edit |-> At(SmsTemplateFormDialog, Listed), delete |-> At(ListDeleteDialog, Listed)]
PollList == [delete |-> At(ListDeleteDialog, {"Draft"})]

MyRequestList == [cancel |-> At(CancelBox, {"Pending"})]
MyShipmentList == [cancel |-> At(CancelBox, {"Sent"})]

-----------------------------------------------------------------------------
(* Pages.  statuses: of its rows, the first one a row starts in; add: what  *)
(* the form for a new entry starts from, "blank" or the row that is still   *)
(* "selected"; traits: closing a dialog unselects the row ("forgets"); a    *)
(* dialog that only "views" a row selects it; technical accounts, which may *)
(* delete nothing, are offered the deletion too ("toAll").                  *)

Page(statuses, first, acts, add, traits) ==
    [statuses |-> statuses, first |-> first, acts |-> acts, add |-> add, traits |-> traits]

RepairsPage == Page(RepairStatus, "Pending", RepairTable, "none", {"views", "toAll"})
PartRequestsPage ==
    Page(RequestStatus, "Pending", PartRequestTable, "none", {"views", "toAll"})
PartShipmentsPage == Page(ParcelStatus, "Sent", PartShipmentTable, "none", {"forgets"})
FinancePage == Page(ParcelStatus, "Received", FinanceTable, "none", {"forgets"})
GuaranteesPage == Page(GuaranteeStatus, "Pending", GuaranteeTable, "none", {"views"})
TechniciansPage == Page(Applied, "Pending", TechnicianTable, "selected", {})
CustomersPage == Page(Listed, "Listed", CustomerTable, "selected", {"views"})
ProductsPage == Page(Listed, "Listed", ProductTable, "selected", {})
CategoriesPage == Page(Listed, "Listed", CategoryTable, "selected", {})
RepairCatalogPanel == Page(Listed, "Listed", RepairCatalogTable, "blank", {"toAll"})
SmsTemplatesPage == Page(Listed, "Listed", SmsTemplateList, "blank", {})
PollsPage == Page({"Draft", "Sending", "Closed"}, "Draft", PollList, "blank", {})
TechnicianPartRequestsPage == Page(RequestStatus, "Pending", MyRequestList, "none", {})
TechnicianPartShipmentsPage == Page(ParcelStatus, "Sent", MyShipmentList, "none", {})

PageTable ==
    [repairs |-> RepairsPage, requests |-> PartRequestsPage, parcels |-> PartShipmentsPage,
     finance |-> FinancePage, guarantees |-> GuaranteesPage, technicians |-> TechniciansPage,
     customers |-> CustomersPage, products |-> ProductsPage, categories |-> CategoriesPage,
     catalog |-> RepairCatalogPanel, patterns |-> SmsTemplatesPage, polls |-> PollsPage,
     myRequests |-> TechnicianPartRequestsPage, myParcels |-> TechnicianPartShipmentsPage]

\* What may send something else than what was asked: forms in which an answer, or
\* the button for a new entry, changes the row that is edited; the dialog that
\* approves a guarantee whichever decision it was opened for; the box that cancels
\* the guarantee selected before the one it names.
Astray ==
    ({"technicians", "customers", "products", "categories", "catalog"} \X {"form"})
    \union {<<"guarantees", "approve">>, <<"guarantees", "cancel">>}

\* The dialogs in which what was typed outlives a dismissal.
KeepsText == {<<"repairs", "review">>, <<"guarantees", "approve">>, <<"guarantees", "renew">>}
=============================================================================
