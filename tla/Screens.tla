-------------------------------- MODULE Screens --------------------------------
(***************************************************************************)
(* The screens of the web client as data: which cached queries each one    *)
(* reads while it is up, which dialogs on it read more, and, for each      *)
(* operation it sends, the tables the server writes and the queries that   *)
(* are dropped when the answer is a success.                               *)
(*                                                                         *)
(* A query is named by the head of its key: a drop reaches every page,     *)
(* filter and search of the list at once, and each behaves like any other. *)
(* Reads that bypass the cache (exports, file downloads) are left out.     *)
(***************************************************************************)
\* An operation: tables written, queries dropped on success.  Each leaves a
\* line in the audit log; a deletion also fills the bin.
Op(writes, drops) == [writes |-> writes \union {"audit"}, drops |-> drops]
Deletion(table, drops) == Op({table, "bin"}, drops)

\* A screen: queries read, one set of queries per dialog that reads, operations.
Screen(reads, dialogs, ops) == [reads |-> reads, dialogs |-> dialogs, ops |-> ops]

NoOps == [none \in {} |-> {}]

-----------------------------------------------------------------------------
(* The office.                                                             *)

\* invalidateDashboard
Dashboard == {"dashboard"}

DashboardPage == Screen(Dashboard, {}, NoOps)

CustomersPage ==
    LET drops == {"customers"} \union Dashboard
        customer == Op({"customers"}, drops)
    IN  Screen({"customers"}, {}, [create |-> customer, update |-> customer,
                                   delete |-> Deletion("customers", drops)])

CategoriesPage ==
    LET category == Op({"categories"}, {"categories", "categories-active"})
    IN  Screen({"categories"}, {},
               [create |-> category, update |-> category,
                delete |-> Deletion("categories", category.drops)])

ProductForm == {"categories-active"}

ProductsPage ==
    LET product == Op({"products"}, {"products"} \union Dashboard)
    IN  Screen({"products", "categories-active"}, {ProductForm},
               [create |-> product, update |-> product,
                delete |-> Deletion("products", product.drops)])

\* The page shows one panel at a time, each with a key of its own.
RepairCatalogPanel(key, table) ==
    LET entry == Op({table}, {key})
    IN  Screen({key}, {}, [create |-> entry, update |-> entry,
                        delete |-> Deletion(table, {key})])

ComponentsPanel == RepairCatalogPanel("repair-components-admin", "components")
ServicesPanel == RepairCatalogPanel("repair-services-admin", "services")

AdminGuaranteeForm == {"customers-list-for-admin"}
GuaranteeEditDialog == {"customer-for-guarantee-edit", "guarantee-edit-product-lookup"}
GuaranteeExportDialog == {"products-list-for-filter"}

GuaranteesPage ==
    LET drops == {"guarantees"} \union Dashboard
        guarantee == Op({"guarantees"}, drops)
    IN  Screen({"guarantees", "customers-list-for-filter", "products-list-for-filter"},
               {AdminGuaranteeForm, GuaranteeEditDialog, GuaranteeExportDialog},
               [adminCreate |-> Op({"guarantees", "customers"}, drops),
                update |-> Op({"guarantees", "customers"}, drops \union {"customers"}),
                approve |-> guarantee, renew |-> guarantee, cancel |-> guarantee,
                delete |-> Deletion("guarantees", drops), setGolden |-> guarantee, removeGolden |-> guarantee])

TechniciansPage ==
    LET drops == {"technicians"} \union Dashboard
        technician == Op({"technicians"}, drops)
    IN  Screen({"technicians", "technicians-status-counts"}, {},
               [review |-> Op({"technicians"}, drops \union {"technicians-status-counts"}),
                create |-> technician, update |-> technician,
                delete |-> Deletion("technicians", drops), toggle |-> technician, import |-> technician])

\* Every pick list of the form is asked for when it opens.
RepairForm ==
    {"guarantees-list-for-repair-form", "technicians-list-for-repair-form",
     "repair-components-active", "repair-services-active"}

RepairsPage ==
    LET drops == {"repairs"} \union Dashboard
        repair == Op({"repairs"}, drops)
    IN  Screen({"repairs"}, {RepairForm},
               [create |-> repair, review |-> repair, cancel |-> repair,
                delete |-> Op({"repairs", "shipments", "bin"}, drops)])

PartRequestsPage ==
    LET request == Op({"requests"}, {"part-requests", "part-requests-status-counts"})
    IN  Screen({"part-requests", "part-requests-status-counts",
                "technicians-list-for-part-requests"}, {},
               [status |-> request, delete |-> Deletion("requests", request.drops)])

Parcels == {"part-shipments", "part-shipments-summary", "part-shipments-finance"}

PartShipmentsPage ==
    LET parcel == Op({"shipments"}, Parcels)
    IN  Screen({"part-shipments", "part-shipments-summary",
                "technicians-list-for-part-shipments"}, {},
               [receive |-> parcel, reject |-> parcel,
                delete |-> Deletion("shipments", Parcels)])

FinancePage ==
    LET parcel == Op({"shipments"}, Parcels)
    IN  Screen({"part-shipments", "part-shipments-finance"}, {},
               [invoice |-> parcel, pay |-> parcel])

PipelinePage ==
    Screen({"pipeline", "pipeline-summary", "technicians-list-for-pipeline"}, {}, NoOps)

\* Mutant: only the pick lists are told about a changed pattern.
PatternsPickOnly ==
    LET pattern == Op({"patterns"}, {"sms-templates-usable"})
    IN  Screen({"sms-templates"}, {},
               [save |-> pattern, toggle |-> pattern, delete |-> pattern])

SmsTemplatesPage ==
    LET pattern == Op({"patterns"}, {"sms-templates", "sms-templates-usable"})
    IN  Screen({"sms-templates"}, {},
               [save |-> pattern, toggle |-> pattern, delete |-> pattern])

PollFormDialog == {"products-for-polls", "sms-templates-usable"}

PollsPage ==
    Screen({"polls"}, {PollFormDialog},
           [create |-> Op({"polls"}, {"polls"}), delete |-> Deletion("polls", {"polls"})])

PollDetailPage ==
    LET drops == {"poll", "poll-results", "poll-recipients", "polls"}
        poll == Op({"polls"}, drops)
        sending == Op({"polls", "recipients"}, drops)
    IN  Screen({"poll", "poll-results", "poll-recipients"}, {PollFormDialog},
               [audience |-> sending, send |-> sending, offer |-> sending,
                close |-> poll, update |-> poll])

AuditLogPage == Screen({"audit-logs", "audit-vocabulary"}, {}, NoOps)

-----------------------------------------------------------------------------
(* The technician's portal.  The layout around every page asks for the     *)
(* summary of the parcels too.                                             *)

TechnicianLayout == {"my-part-shipments-summary"}
DeliveredPartsCard == {"my-delivered-part-requests"}

NewRepairDialog ==
    {"repair-components-active", "repair-services-active", "my-delivered-part-requests"}

TechnicianDashboardPage ==
    Screen({"my-repairs"} \union DeliveredPartsCard \union TechnicianLayout,
           {NewRepairDialog},
           [createRepair |-> Op({"repairs"}, {"my-repairs", "my-part-shipments-summary",
                                              "shippable-parts"})])

NewPartRequestDialog ==
    {"repair-components-active", "repair-services-active", "my-repairs-for-part-request"}

TechnicianPartRequestsPage ==
    LET request == Op({"requests"}, {"my-part-requests"})
    IN  Screen({"my-part-requests"} \union TechnicianLayout, {NewPartRequestDialog},
               [create |-> request, cancel |-> request])

NewPartShipmentDialog == {"shippable-parts"}

TechnicianPartShipmentsPage ==
    LET parcel == Op({"shipments"}, {"my-part-shipments", "my-part-shipments-summary",
                                     "shippable-parts"})
    IN  Screen({"my-part-shipments"} \union TechnicianLayout, {NewPartShipmentDialog},
               [create |-> parcel, cancel |-> parcel])

TechnicianProfilePage == Screen(TechnicianLayout, {}, NoOps)

-----------------------------------------------------------------------------
(* The routes.                                                             *)

\* The tables the bin gives rows back to.
Tables ==
    {"customers", "categories", "products", "components", "services", "guarantees",
     "technicians", "repairs", "requests", "shipments", "polls", "admins"}

\* A web client: its screens by name.
Keys(client) == UNION {s.reads \union UNION s.dialogs : s \in {client[n] : n \in DOMAIN client}}
Acts(client) == UNION {{<<n, o>> : o \in DOMAIN client[n].ops} : n \in DOMAIN client}

BeforeTrash ==
    [dashboard |-> DashboardPage, customers |-> CustomersPage,
     categories |-> CategoriesPage, products |-> ProductsPage,
     components |-> ComponentsPanel, services |-> ServicesPanel,
     guarantees |-> GuaranteesPage, technicians |-> TechniciansPage,
     repairs |-> RepairsPage, requests |-> PartRequestsPage,
     shipments |-> PartShipmentsPage, finance |-> FinancePage,
     pipeline |-> PipelinePage, patterns |-> SmsTemplatesPage,
     polls |-> PollsPage, poll |-> PollDetailPage, audit |-> AuditLogPage,
     myRepairs |-> TechnicianDashboardPage, myRequests |-> TechnicianPartRequestsPage,
     myShipments |-> TechnicianPartShipmentsPage, myProfile |-> TechnicianProfilePage]

Everything == Keys(BeforeTrash) \union {"trash", "trash-summary"}

\* What is restored is in one table at a time, and everything is dropped.
TrashPage ==
    Screen({"trash", "trash-summary"}, {}, [table \in Tables |-> Op({table, "bin"}, Everything)])

AppRoutes == [n \in DOMAIN BeforeTrash \union {"trash"} |->
                  IF n = "trash" THEN TrashPage ELSE BeforeTrash[n]]

-----------------------------------------------------------------------------
(* What a query's answer is computed from: the tables whose rows the       *)
(* endpoint lists or counts.                                               *)

Shows(key) ==
    CASE key \in {"customers", "customers-list-for-filter", "customers-list-for-admin",
                  "customer-for-guarantee-edit"} -> {"customers"}
      [] key \in {"categories", "categories-active"} -> {"categories"}
      [] key \in {"products", "products-list-for-filter", "products-for-polls",
                  "guarantee-edit-product-lookup"} -> {"products"}
      [] key \in {"repair-components-admin", "repair-components-active"} -> {"components"}
      [] key \in {"repair-services-admin", "repair-services-active"} -> {"services"}
      [] key \in {"guarantees", "guarantees-list-for-repair-form"} -> {"guarantees"}
      [] key \in {"technicians", "technicians-status-counts",
                  "technicians-list-for-repair-form", "technicians-list-for-part-requests",
                  "technicians-list-for-part-shipments",
                  "technicians-list-for-pipeline"} -> {"technicians"}
      [] key \in {"repairs", "my-repairs", "my-repairs-for-part-request"} -> {"repairs"}
      [] key \in {"part-requests", "part-requests-status-counts",
                  "my-part-requests"} -> {"requests"}
      [] key = "my-delivered-part-requests" -> {"requests", "repairs"}
      [] key \in Parcels \union {"my-part-shipments"} -> {"shipments"}
      [] key \in {"my-part-shipments-summary", "shippable-parts"} -> {"shipments", "repairs"}
      [] key \in {"sms-templates", "sms-templates-usable"} -> {"patterns"}
      [] key \in {"polls", "poll"} -> {"polls", "recipients"}
      [] key \in {"poll-results", "poll-recipients"} -> {"recipients"}
      [] key \in {"pipeline", "pipeline-summary"} -> {"repairs", "requests", "shipments"}
      [] key = "dashboard" ->
            {"guarantees", "customers", "technicians", "products", "repairs"}
      [] key \in {"trash", "trash-summary"} -> {"bin"}
      [] OTHER -> {"audit"}

\* An operation that makes the answer of a query out of date.
Touches(op, key) == op.writes \intersect Shows(key) # {}

(* Queries an operation makes out of date and does not drop: a screen that   *)
(* has read them goes on showing the old answer.                             *)
Gaps(client) ==
    {gap \in Acts(client) \X Keys(client) :
        LET op == client[gap[1][1]].ops[gap[1][2]]
        IN  Touches(op, gap[2]) /\ gap[2] \notin op.drops}

\* What a screen does not ask for again after an operation of its own: the
\* numbers on the tabs of the technicians' page, unless it was a review; the
\* customers to filter guarantees by; the delivered parts a report has used.
LeftToAge ==
    {<<<<"technicians", o>>, "technicians-status-counts">> :
        o \in {"create", "update", "delete", "toggle", "import"}}
    \union {<<<<"guarantees", o>>, "customers-list-for-filter">> : o \in {"adminCreate", "update"}}
    \union {<<<<"myRepairs", "createRepair">>, "my-delivered-part-requests">>}
=============================================================================
