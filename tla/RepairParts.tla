------------------------------ MODULE RepairParts ------------------------------
(***************************************************************************)
(* Spare parts on their way into repair reports: the technician asks for a *)
(* part, the office approves and delivers it, the technician's page offers *)
(* what was delivered, and a repair report names the part it used.         *)
(*                                                                         *)
(* One request carries one line, so a request stands for its line; parts of *)
(* the technician's own stock are left out, so a report may list none.  The *)
(* browser side is the technician's start page: the card of delivered      *)
(* parts and the dialog that writes a report, which share one cached list. *)
(* The server side is the two modules' handlers, each as a read and a save *)
(* that other handlers may come between.                                   *)
(***************************************************************************)
EXTENDS Naturals, Sequences, FiniteSets

CONSTANTS
    Requests,       \* part requests, one line each
    Reports,        \* repair reports
    Revisited,      \* the reports that are reviewed, deleted and restored (bound)
    Guarantees,
    Tabs,           \* browser tabs a technician has open
    TechOf,         \* the technician signed in in each tab
    RequestFor,     \* the guarantee each request is filed for, or None
    Reviewers,      \* kinds of account that review: "admin", "technical"
    Handlers,       \* requests the server works on at the same time
    Serves,         \* the operations each handler may be
    MaxParts,       \* lines a report may have when another is added (bound)
    None

ASSUME RepairConstants ==
    /\ MaxParts \in Nat \ {0}
    /\ IsFiniteSet(Requests)
    /\ Revisited \subseteq Reports
    /\ None \notin Requests \union Guarantees \union Handlers \union Reports
    /\ RequestFor \in [Requests -> Guarantees \union {None}]
    /\ DOMAIN TechOf = Tabs
    /\ Serves \in [Handlers -> SUBSET {"file", "review", "cancel", "status", "withdraw"}]

VARIABLES
    request,   \* component_requests with their line
    report,    \* repairs with their lines
    back,      \* reports that stand again after letting their parts go (history)
    tab,       \* what each tab holds
    call       \* handlers between their read and their save

vars == <<request, report, back, tab, call>>

Techs == {TechOf[t] : t \in Tabs}

\* The lines of a report: filled in, each request's once, or added one by one.
PartLists ==
    {s \in Seq(Requests) : Len(s) <= MaxParts \/ Len(s) <= Cardinality(Requests)}

-----------------------------------------------------------------------------
(* The rows.  A technician's account files for itself; reports the office  *)
(* enters are not tied to deliveries and hold no request lines.            *)

RequestStatus == {"Pending", "Approved", "NotDelivered", "Delivered", "Cancelled"}
ReportStatus == {"Pending", "Approved", "Rejected", "Cancelled"}

NoRow == [status |-> "none"]

NewRequest(tech) ==
    [status |-> "Pending", tech |-> tech, by |-> None, deleted |-> FALSE]

NewReport(tech, g, parts) ==
    [status |-> "Pending", tech |-> tech, guarantee |-> g, parts |-> parts,
     by |-> None, deleted |-> FALSE]

Live(row) == row.status # "none" /\ row.deleted = FALSE

\* Reports get their ids in order; None once the model has no more of them.
NextReport ==
    IF \E x \in Reports : report[x] = NoRow
    THEN CHOOSE x \in Reports : report[x] = NoRow ELSE None

\* A report that holds on to its parts: not rejected, cancelled or deleted.
Standing(x) == Live(report[x]) /\ report[x].status \in {"Pending", "Approved"}

Names(parts) == {parts[i] : i \in DOMAIN parts}

\* The reports a delivered line is already on.
HeldBy(q) == {x \in Reports : Standing(x) /\ q \in Names(report[x].parts)}

\* Mutant: what was delivered can still be called off.
CancelDelivered(status) ==
    CASE status = "Pending"      -> {"Approved", "Cancelled"}
      [] status = "Approved"     -> {"NotDelivered", "Delivered", "Cancelled"}
      [] status \in {"NotDelivered", "Delivered"} -> {"Delivered", "Cancelled"}
      [] OTHER                   -> {}

\* allowedTransitions
NextStatus(status) ==
    CASE status = "Pending"      -> {"Approved", "Cancelled"}
      [] status = "Approved"     -> {"NotDelivered", "Delivered", "Cancelled"}
      [] status = "NotDelivered" -> {"Delivered", "Cancelled"}
      [] OTHER                   -> {}

\* setReviewer fills the column of the account's kind and leaves the other;
\* the table refuses a row with both.
ReviewerFits(row, who) == row.by \in {None, who}

-----------------------------------------------------------------------------
(* The technician's tab.                                                   *)

NewTab ==
    [open |-> FALSE, code |-> None, shown |-> None, wanted |-> {}, parts |-> <<>>,
     seen |-> [q \in Requests |-> "no"], ticked |-> [g \in Guarantees |-> {}],
     looking |-> {}, checking |-> FALSE, sending |-> None, filed |-> FALSE]

Init ==
    /\ request = [q \in Requests |-> NoRow]
    /\ report = [x \in Reports |-> NoRow]
    /\ back = {}
    /\ tab = [t \in Tabs |-> NewTab]
    /\ call = [h \in Handlers |-> NoRow]

\* Mutant: the list does not say which lines are spent.
DeliveredOnly(t) ==
    [q \in Requests |->
        IF Live(request[q]) /\ request[q].status = "Delivered"
                            /\ request[q].tech = TechOf[t] THEN "free" ELSE "no"]

\* What the list of delivered requests answers: each line of a live delivered
\* request of this technician, with the report that holds it if one does.
Answer(t) ==
    [q \in Requests |->
        IF Live(request[q]) /\ request[q].status = "Delivered"
                            /\ request[q].tech = TechOf[t]
        THEN IF HeldBy(q) = {} THEN "free" ELSE "used"
        ELSE "no"]

\* Lines of guarantee g that may be ticked on the card or picked in the dialog.
Offered(t, g) == {q \in Requests : tab[t].seen[q] = "free" /\ RequestFor[q] = g}

\* Mutant: the lines are filled in again whenever a list or look-up comes back.
FilledAgain(d) ==
    IF d.wanted # {} /\ d.shown # None
    THEN LET found == {q \in d.wanted : d.seen[q] # "no"}
             listing == CHOOSE s \in [1..Cardinality(found) -> found] : Names(s) = found
         IN  [d EXCEPT !.parts = @ \o listing]
    ELSE d

\* The ticked lines, once the guarantee is known and the list is there.  Spent
\* lines are not left out, nor lines of another guarantee.
Filled(d) ==
    IF d.wanted # {} /\ d.shown # None /\ \E q \in Requests : d.seen[q] # "no"
    THEN LET found == {q \in d.wanted : d.seen[q] # "no"}
             listing == CHOOSE s \in [1..Cardinality(found) -> found] : Names(s) = found
         IN  [d EXCEPT !.parts = listing, !.wanted = {}]
    ELSE d

\* Mutant: the list rests while the dialog is open.
RefetchClosed(t) ==
    /\ ~tab[t].open
    /\ tab[t].seen # Answer(t)
    /\ tab' = [tab EXCEPT ![t] = Filled([@ EXCEPT !.seen = Answer(t)])]
    /\ UNCHANGED <<request, report, back, call>>

\* The list is asked for again: when a page or the dialog opens, and every
\* minute while the card is on screen.
Refetch(t) ==
    /\ tab[t].seen # Answer(t)
    /\ tab' = [tab EXCEPT ![t] = Filled([@ EXCEPT !.seen = Answer(t)])]
    /\ UNCHANGED <<request, report, back, call>>

Tick(t, g, q) ==
    /\ ~tab[t].open
    /\ q \in Offered(t, g)
    /\ tab' = [tab EXCEPT ![t].ticked[g] =
                  IF q \in @ THEN @ \ {q} ELSE @ \union {q}]
    /\ UNCHANGED <<request, report, back, call>>

\* "Write report" on the card: the dialog opens on the group's guarantee, with
\* the ticked lines to be filled in once it has been looked up.
WriteReport(t, g) ==
    /\ ~tab[t].open
    /\ Offered(t, g) # {}
    /\ tab[t].ticked[g] # {}
    /\ tab' = [tab EXCEPT ![t] = [tab[t] EXCEPT
                  !.open = TRUE, !.code = g, !.shown = None,
                  !.wanted = tab[t].ticked[g], !.ticked[g] = {},
                  !.looking = @ \union {g}, !.checking = TRUE]]
    /\ UNCHANGED <<request, report, back, call>>

OpenBlank(t) ==
    /\ ~tab[t].open
    /\ tab' = [tab EXCEPT ![t].open = TRUE]
    /\ UNCHANGED <<request, report, back, call>>

TypeCode(t, g) ==
    /\ tab[t].open /\ tab[t].shown = None /\ tab[t].code # g
    /\ tab' = [tab EXCEPT ![t].code = g]
    /\ UNCHANGED <<request, report, back, call>>

PressCheck(t) ==
    /\ tab[t].open /\ tab[t].shown = None
    /\ tab[t].code # None /\ ~tab[t].checking
    /\ tab' = [tab EXCEPT ![t].looking = @ \union {tab[t].code},
                          ![t].checking = TRUE]
    /\ UNCHANGED <<request, report, back, call>>

\* The look-up of g comes back, whatever has been typed, opened or closed in
\* the meantime.  acceptable: the guarantee is approved or renewed.
LookedUp(t, g, acceptable) ==
    /\ g \in tab[t].looking
    /\ LET d == [tab[t] EXCEPT !.looking = @ \ {g}, !.checking = FALSE]
       IN  tab' = [tab EXCEPT ![t] =
                      IF acceptable THEN Filled([d EXCEPT !.shown = g]) ELSE d]
    /\ UNCHANGED <<request, report, back, call>>

\* "Change" puts the code box back; the lines already listed stay.
ChangeGuarantee(t) ==
    /\ tab[t].open /\ tab[t].shown # None
    /\ tab' = [tab EXCEPT ![t].shown = None]
    /\ UNCHANGED <<request, report, back, call>>

\* A line is added and a delivered part of the shown guarantee chosen for it.
AddPart(t, p) ==
    /\ tab[t].open /\ tab[t].shown # None
    /\ Len(tab[t].parts) < MaxParts
    /\ p \in Offered(t, tab[t].shown)
    /\ tab' = [tab EXCEPT ![t].parts = Append(@, p)]
    /\ UNCHANGED <<request, report, back, call>>

RemovePart(t, i) ==
    /\ tab[t].open /\ tab[t].shown # None
    /\ i \in DOMAIN tab[t].parts
    /\ tab' = [tab EXCEPT ![t].parts = SubSeq(@, 1, i - 1) \o SubSeq(@, i + 1, Len(@))]
    /\ UNCHANGED <<request, report, back, call>>

\* Submit: the form's guarantee is the one shown; the button waits for the answer
\* to the last submission.
Submit(t) ==
    /\ tab[t].open /\ tab[t].shown # None
    /\ tab[t].sending = None /\ ~tab[t].filed
    /\ tab' = [tab EXCEPT ![t].sending =
                  [guarantee |-> tab[t].shown, parts |-> tab[t].parts]]
    /\ UNCHANGED <<request, report, back, call>>

\* handleOpenChange(false): everything the form holds is cleared; look-ups and
\* a submission that are under way are not.
Closed(d) == [d EXCEPT !.open = FALSE, !.code = None, !.shown = None,
                       !.wanted = {}, !.parts = <<>>]

CloseDialog(t) ==
    /\ tab[t].open
    /\ tab' = [tab EXCEPT ![t] = Closed(@)]
    /\ UNCHANGED <<request, report, back, call>>

\* onSuccess: the dialog closes, whatever it shows by now.
HearFiled(t) ==
    /\ tab[t].filed
    /\ tab' = [tab EXCEPT ![t] = Closed([@ EXCEPT !.filed = FALSE])]
    /\ UNCHANGED <<request, report, back, call>>

\* onError: the report is filed but its answer is lost.  The dialog stays as it
\* is, and may be submitted again.
MissFiled(t) ==
    /\ tab[t].filed
    /\ tab' = [tab EXCEPT ![t].filed = FALSE]
    /\ UNCHANGED <<request, report, back, call>>

-----------------------------------------------------------------------------
(* The server: filing a report.                                            *)

\* Mutant: nobody asks whether another report has used the line.
MayFitAgain(tech, q) ==
    Live(request[q]) /\ request[q].tech = tech /\ request[q].status = "Delivered"

\* requireDeliveredParts: each line delivered, this technician's, not spent.
MayFit(tech, q) ==
    /\ q \in Requests /\ Live(request[q])
    /\ request[q].tech = tech
    /\ request[q].status = "Delivered"
    /\ HeldBy(q) = {}

\* The check of a submission; it fails if the guarantee takes no work.
CheckReport(h, t, acceptable) ==
    /\ call[h] = NoRow /\ "file" \in Serves[h]
    /\ tab[t].sending # None
    /\ \A other \in Handlers : call[other].status = "file" => call[other].tab # t
    /\ IF acceptable /\ \A q \in Names(tab[t].sending.parts) : MayFit(TechOf[t], q)
       THEN /\ call' = [call EXCEPT ![h] = [status |-> "file", tab |-> t]]
            /\ UNCHANGED tab
       ELSE /\ tab' = [tab EXCEPT ![t].sending = None]
            /\ UNCHANGED call
    /\ UNCHANGED <<request, report, back>>

\* The insert; the answer is on its way.
InsertReport(h, x) ==
    /\ call[h].status = "file"
    /\ x = NextReport
    /\ LET t == call[h].tab
           sent == tab[t].sending
       IN  /\ report' = [report EXCEPT
                  ![x] = NewReport(TechOf[t], sent.guarantee, sent.parts)]
           /\ tab' = [tab EXCEPT ![t].sending = None, ![t].filed = TRUE]
    /\ call' = [call EXCEPT ![h] = NoRow]
    /\ UNCHANGED <<request, back>>

-----------------------------------------------------------------------------
(* The server: requests and reviews, read and saved as a whole row.        *)

CreateRequest(q, tech) ==
    /\ request[q] = NoRow
    /\ request' = [request EXCEPT ![q] = NewRequest(tech)]
    /\ UNCHANGED <<report, back, tab, call>>

\* UpdateStatus by a reviewer, or CancelByTechnician (who = None).
ReadRequest(h, q, to, who) ==
    /\ call[h] = NoRow
    /\ Live(request[q])
    /\ \/ /\ "status" \in Serves[h] /\ who # None
          /\ to \in NextStatus(request[q].status)
          /\ ReviewerFits(request[q], who)
       \/ /\ "withdraw" \in Serves[h] /\ who = None
          /\ to = "Cancelled" /\ request[q].status = "Pending"
    /\ call' = [call EXCEPT ![h] =
          [status |-> "request", id |-> q,
           row |-> [request[q] EXCEPT !.status = to,
                                      !.by = IF who = None THEN @ ELSE who]]]
    /\ UNCHANGED <<request, report, back, tab>>

SaveRequest(h) ==
    /\ call[h].status = "request"
    /\ request' = [request EXCEPT ![call[h].id] = call[h].row]
    /\ call' = [call EXCEPT ![h] = NoRow]
    /\ UNCHANGED <<report, back, tab>>

DeleteRequest(q) ==
    /\ Live(request[q])
    /\ request' = [request EXCEPT ![q].deleted = TRUE]
    /\ UNCHANGED <<report, back, tab, call>>

\* The bin gives a request back with the status it had.
RestoreRequest(q) ==
    /\ request[q] # NoRow /\ request[q].deleted
    /\ request' = [request EXCEPT ![q].deleted = FALSE]
    /\ UNCHANGED <<report, back, tab, call>>

\* A report the office enters: catalog parts, no deliveries behind them.
OfficeReport(x, g) ==
    /\ x = NextReport
    /\ report' = [report EXCEPT ![x] = NewReport(None, g, <<>>)]
    /\ UNCHANGED <<request, back, tab, call>>

\* Review of a pending report, or Cancel of one that stands.
ReadReport(h, x, to, who) ==
    /\ call[h] = NoRow
    /\ Live(report[x])
    /\ \/ /\ "review" \in Serves[h]
          /\ to \in {"Approved", "Rejected"} /\ report[x].status = "Pending"
       \/ /\ "cancel" \in Serves[h]
          /\ to = "Cancelled" /\ report[x].status \notin {"Rejected", "Cancelled"}
    /\ ReviewerFits(report[x], who)
    /\ call' = [call EXCEPT ![h] =
          [status |-> "report", id |-> x,
           row |-> [report[x] EXCEPT !.status = to, !.by = who]]]
    /\ UNCHANGED <<request, report, back, tab>>

SaveReport(h) ==
    /\ call[h].status = "report"
    /\ report' = [report EXCEPT ![call[h].id] = call[h].row]
    /\ back' = IF Standing(call[h].id) THEN back ELSE back \union {call[h].id}
    /\ call' = [call EXCEPT ![h] = NoRow]
    /\ UNCHANGED <<request, tab>>

DeleteReport(x) ==
    /\ Live(report[x])
    /\ report' = [report EXCEPT ![x].deleted = TRUE]
    /\ UNCHANGED <<request, back, tab, call>>

\* The bin gives a report back without looking at what has happened to its
\* parts meanwhile.
RestoreReport(x) ==
    /\ report[x] # NoRow /\ report[x].deleted
    /\ report' = [report EXCEPT ![x].deleted = FALSE]
    /\ back' = back \union {x}
    /\ UNCHANGED <<request, tab, call>>

-----------------------------------------------------------------------------
PageStep(t) ==
    \/ OpenBlank(t) \/ PressCheck(t) \/ ChangeGuarantee(t)
    \/ Submit(t) \/ CloseDialog(t) \/ HearFiled(t) \/ MissFiled(t)
    \/ \E g \in Guarantees : TypeCode(t, g) \/ WriteReport(t, g)
    \/ \E g \in Guarantees, q \in Requests : Tick(t, g, q)
    \/ \E p \in Requests : AddPart(t, p)
    \/ \E i \in DOMAIN tab[t].parts : RemovePart(t, i)

LookUp(t) == \E g \in Guarantees, ok \in BOOLEAN : LookedUp(t, g, ok)

Filing(t) ==
    \E h \in Handlers :
        \/ \E ok \in BOOLEAN : CheckReport(h, t, ok)
        \/ call[h].status = "file" /\ call[h].tab = t /\ \E x \in Reports : InsertReport(h, x)

OfficeStep ==
    \/ \E h \in Handlers : SaveRequest(h) \/ SaveReport(h)
    \/ \E h \in Handlers, q \in Requests, to \in RequestStatus, who \in Reviewers \union {None} :
          ReadRequest(h, q, to, who)
    \/ \E h \in Handlers, x \in Revisited, to \in ReportStatus, who \in Reviewers :
          ReadReport(h, x, to, who)
    \/ \E q \in Requests :
          DeleteRequest(q) \/ RestoreRequest(q) \/ \E tech \in Techs : CreateRequest(q, tech)
    \/ \E x \in Revisited : DeleteReport(x) \/ RestoreReport(x)
    \/ \E x \in Reports, g \in Guarantees : OfficeReport(x, g)

Next == OfficeStep \/ \E t \in Tabs : PageStep(t) \/ LookUp(t) \/ Filing(t) \/ Refetch(t)

(* The page asks again every minute; the browser's and the server's answers *)
(* arrive.  Nobody is bound to press anything.                              *)
Fairness ==
    \A t \in Tabs : /\ WF_vars(Refetch(t)) /\ WF_vars(LookUp(t))

Spec == Init /\ [][Next]_vars /\ Fairness

-----------------------------------------------------------------------------
RowOf(set) == set \union {NoRow}
RequestRow == [status : RequestStatus, tech : Techs, by : Reviewers \union {None},
               deleted : BOOLEAN]
ReportRow == [status : ReportStatus, tech : Techs \union {None},
              guarantee : Guarantees, parts : PartLists,
              by : Reviewers \union {None}, deleted : BOOLEAN]

Submission == [guarantee : Guarantees, parts : PartLists]
Tab == [open : BOOLEAN, code : Guarantees \union {None},
        shown : Guarantees \union {None}, wanted : SUBSET Requests,
        parts : PartLists, seen : [Requests -> {"no", "free", "used"}],
        ticked : [Guarantees -> SUBSET Requests], looking : SUBSET Guarantees,
        checking : BOOLEAN, sending : Submission \union {None}, filed : BOOLEAN]
Call == [status : {"file"}, tab : Tabs]
        \union [status : {"request"}, id : Requests, row : RequestRow]
        \union [status : {"report"}, id : Reports, row : ReportRow]

\* Every row, tab and call has its fields; a list of parts never grows but by a
\* line added or by the ticked lines filled in once.
TypeOK ==
    /\ request \in [Requests -> RowOf(RequestRow)]
    /\ report \in [Reports -> RowOf(ReportRow)]
    /\ back \subseteq Reports
    /\ tab \in [Tabs -> Tab]
    /\ call \in [Handlers -> RowOf(Call)]

\* "A physical part can only be fitted once": two reports that stand never name
\* the same delivered line, unless one of them let it go and then came back: out
\* of the bin, or by a review that saved the row it had read before.
FittedOnce ==
    \A q \in Requests : \A x, y \in HeldBy(q) :
        x = y \/ {x, y} \intersect back # {}

\* "That line must belong to this technician, have reached Delivered": whatever
\* lists and dialogs were out of date when the report was written.
DeliveredBacksReport ==
    \A x \in Reports : Standing(x) =>
        \A q \in Names(report[x].parts) :
            request[q].status = "Delivered" /\ request[q].tech = report[x].tech

\* A line that is on a report does not stay ticked-able on the card: the card
\* and the dialog stop offering it, or the report lets it go.
SpentLeavesCard ==
    \A t \in Tabs, q \in Requests :
        (HeldBy(q) # {}) ~> (tab[t].seen[q] # "free" \/ HeldBy(q) = {})

\* A part that has been delivered reaches the technician's page, or stops
\* being there to offer.
DeliveredIsOffered ==
    \A t \in Tabs, q \in Requests :
        (Answer(t)[q] = "free") ~> (tab[t].seen[q] = "free" \/ Answer(t)[q] # "free")
=============================================================================
