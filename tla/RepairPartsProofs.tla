--------------------------- MODULE RepairPartsProofs ---------------------------
(***************************************************************************)
(* What the server keeps about spare parts for any number of requests,     *)
(* reports, tabs and reviewers, whatever lists and dialogs were out of     *)
(* date when a report was written.                                         *)
(***************************************************************************)
EXTENDS RepairParts, FiniteSetTheorems, SequenceTheorems, TLAPS

\* Reports are filed one after the other.
OneFiler ==
    \A h, g \in Handlers : "file" \in Serves[h] /\ "file" \in Serves[g] => h = g

\* Requests are moved on one after the other.
OneDesk ==
    \A h, g \in Handlers :
        Serves[h] \intersect {"status", "withdraw"} # {} /\
        Serves[g] \intersect {"status", "withdraw"} # {} => h = g

\* Rows, tabs and calls have the fields they were made with.
RequestFields == {"status", "tech", "by", "deleted"}
ReportFields == {"status", "tech", "guarantee", "parts", "by", "deleted"}

RequestShape(r) ==
    r = NoRow \/ (RequestFields \subseteq DOMAIN r /\ r.status \in RequestStatus)
ReportShape(r) ==
    r = NoRow \/ (ReportFields \subseteq DOMAIN r /\ r.status \in ReportStatus)
TabShape(d) == "sending" \in DOMAIN d

CallShape(h, c) ==
    \/ c = NoRow
    \/ /\ c.status = "file" /\ c.tab \in Tabs
       /\ "file" \in Serves[h]
    \/ /\ c.status = "request" /\ c.id \in Requests
       /\ RequestShape(c.row) /\ c.row # NoRow
       /\ Serves[h] \intersect {"status", "withdraw"} # {}
    \/ /\ c.status = "report" /\ c.id \in Reports
       /\ ReportShape(c.row) /\ c.row # NoRow

Shape ==
    /\ request = [q \in Requests |-> request[q]] /\ \A q \in Requests : RequestShape(request[q])
    /\ report = [x \in Reports |-> report[x]] /\ \A x \in Reports : ReportShape(report[x])
    /\ tab = [t \in Tabs |-> tab[t]] /\ \A t \in Tabs : TabShape(tab[t])
    /\ call = [h \in Handlers |-> call[h]] /\ \A h \in Handlers : CallShape(h, call[h])

-----------------------------------------------------------------------------
(* The tab: only Submit and the answer touch what has been sent.            *)

\* A step of a page leaves what has been sent, and what is sent is left alone
\* until it is answered.
TabMoves(t) ==
    \E d : /\ tab' = [tab EXCEPT ![t] = d] /\ TabShape(d)
           /\ tab[t].sending # None => d.sending = tab[t].sending

\* Filling the ticked lines in, and closing the dialog.
LEMMA FilledShape ==
    ASSUME NEW d, TabShape(d)
    PROVE  /\ TabShape(Filled(d)) /\ Filled(d).sending = d.sending
           /\ TabShape(Closed(d)) /\ Closed(d).sending = d.sending
<1>1. TabShape(Closed(d)) /\ Closed(d).sending = d.sending
  BY DEF TabShape, Closed
<1>2. ASSUME NEW parts
      PROVE  LET e == [d EXCEPT !.parts = parts, !.wanted = {}]
             IN  TabShape(e) /\ e.sending = d.sending
  BY DEF TabShape
<1>3. Filled(d) = d \/ \E parts : Filled(d) = [d EXCEPT !.parts = parts, !.wanted = {}]
  BY DEF Filled
<1> QED BY <1>1, <1>2, <1>3

\* Every step of a page but the answer to a submission is such a step.
LEMMA PageMoves ==
    ASSUME Shape, NEW t \in Tabs, PageStep(t) \/ LookUp(t) \/ Refetch(t)
    PROVE  TabMoves(t) /\ UNCHANGED <<request, report, back, call>>
<1>0. TabShape(tab[t])
  BY DEF Shape
<1>1. CASE OpenBlank(t)
  <2> DEFINE d == [tab[t] EXCEPT !.open = TRUE]
  <2>1. tab' = [tab EXCEPT ![t] = d] /\ UNCHANGED <<request, report, back, call>>
    BY <1>1 DEF OpenBlank, Shape
  <2>2. TabShape(d) /\ d.sending = tab[t].sending
    BY <1>0 DEF TabShape
  <2> HIDE DEF d
  <2> QED BY <2>1, <2>2 DEF TabMoves
<1>2. CASE PressCheck(t)
  <2> DEFINE d == [tab[t] EXCEPT !.looking = @ \union {tab[t].code}, !.checking = TRUE]
  <2>1. tab' = [tab EXCEPT ![t] = d] /\ UNCHANGED <<request, report, back, call>>
    BY <1>2 DEF PressCheck, Shape
  <2>2. TabShape(d) /\ d.sending = tab[t].sending
    BY <1>0 DEF TabShape
  <2> HIDE DEF d
  <2> QED BY <2>1, <2>2 DEF TabMoves
<1>3. CASE ChangeGuarantee(t)
  <2> DEFINE d == [tab[t] EXCEPT !.shown = None]
  <2>1. tab' = [tab EXCEPT ![t] = d] /\ UNCHANGED <<request, report, back, call>>
    BY <1>3 DEF ChangeGuarantee, Shape
  <2>2. TabShape(d) /\ d.sending = tab[t].sending
    BY <1>0 DEF TabShape
  <2> HIDE DEF d
  <2> QED BY <2>1, <2>2 DEF TabMoves
<1>4. ASSUME NEW g \in Guarantees, TypeCode(t, g)
      PROVE  TabMoves(t) /\ UNCHANGED <<request, report, back, call>>
  <2> DEFINE d == [tab[t] EXCEPT !.code = g]
  <2>1. tab' = [tab EXCEPT ![t] = d] /\ UNCHANGED <<request, report, back, call>>
    BY <1>4 DEF TypeCode, Shape
  <2>2. TabShape(d) /\ d.sending = tab[t].sending
    BY <1>0 DEF TabShape
  <2> HIDE DEF d
  <2> QED BY <2>1, <2>2 DEF TabMoves
<1>5. ASSUME NEW g \in Guarantees, WriteReport(t, g)
      PROVE  TabMoves(t) /\ UNCHANGED <<request, report, back, call>>
  <2> DEFINE d == [tab[t] EXCEPT !.open = TRUE, !.code = g, !.shown = None,
                                 !.wanted = tab[t].ticked[g], !.ticked[g] = {},
                                 !.looking = @ \union {g}, !.checking = TRUE]
  <2>1. tab' = [tab EXCEPT ![t] = d] /\ UNCHANGED <<request, report, back, call>>
    BY <1>5 DEF WriteReport
  <2>2. TabShape(d) /\ d.sending = tab[t].sending
    BY <1>0 DEF TabShape
  <2> HIDE DEF d
  <2> QED BY <2>1, <2>2 DEF TabMoves
<1>6. ASSUME NEW g \in Guarantees, NEW q \in Requests, Tick(t, g, q)
      PROVE  TabMoves(t) /\ UNCHANGED <<request, report, back, call>>
  <2> DEFINE d == [tab[t] EXCEPT !.ticked[g] = IF q \in @ THEN @ \ {q} ELSE @ \union {q}]
  <2>1. tab' = [tab EXCEPT ![t] = d] /\ UNCHANGED <<request, report, back, call>>
    BY <1>6 DEF Tick, Shape
  <2>2. TabShape(d) /\ d.sending = tab[t].sending
    BY <1>0 DEF TabShape
  <2> HIDE DEF d
  <2> QED BY <2>1, <2>2 DEF TabMoves
<1>7. ASSUME NEW p \in Requests, AddPart(t, p)
      PROVE  TabMoves(t) /\ UNCHANGED <<request, report, back, call>>
  <2> DEFINE d == [tab[t] EXCEPT !.parts = Append(@, p)]
  <2>1. tab' = [tab EXCEPT ![t] = d] /\ UNCHANGED <<request, report, back, call>>
    BY <1>7 DEF AddPart, Shape
  <2>2. TabShape(d) /\ d.sending = tab[t].sending
    BY <1>0 DEF TabShape
  <2> HIDE DEF d
  <2> QED BY <2>1, <2>2 DEF TabMoves
<1>8. ASSUME NEW i \in DOMAIN tab[t].parts, RemovePart(t, i)
      PROVE  TabMoves(t) /\ UNCHANGED <<request, report, back, call>>
  <2> DEFINE d == [tab[t] EXCEPT !.parts = SubSeq(@, 1, i - 1) \o SubSeq(@, i + 1, Len(@))]
  <2>1. tab' = [tab EXCEPT ![t] = d] /\ UNCHANGED <<request, report, back, call>>
    BY <1>8 DEF RemovePart, Shape
  <2>2. TabShape(d) /\ d.sending = tab[t].sending
    BY <1>0 DEF TabShape
  <2> HIDE DEF d
  <2> QED BY <2>1, <2>2 DEF TabMoves
<1>9. CASE Refetch(t)
  <2> DEFINE d == [tab[t] EXCEPT !.seen = Answer(t)]
  <2>1. tab' = [tab EXCEPT ![t] = Filled(d)] /\ UNCHANGED <<request, report, back, call>>
    BY <1>9 DEF Refetch, Shape
  <2>2. TabShape(d) /\ d.sending = tab[t].sending
    BY <1>0 DEF TabShape
  <2> HIDE DEF d
  <2> QED BY <2>1, <2>2, FilledShape DEF TabMoves
<1>10. CASE CloseDialog(t)
  <2>1. tab' = [tab EXCEPT ![t] = Closed(tab[t])] /\ UNCHANGED <<request, report, back, call>>
    BY <1>10 DEF CloseDialog
  <2> QED BY <1>0, <2>1, FilledShape DEF TabMoves
<1>11. CASE Submit(t)
  <2> DEFINE d == [tab[t] EXCEPT !.sending = [guarantee |-> tab[t].shown, parts |-> tab[t].parts]]
  <2>1. /\ tab' = [tab EXCEPT ![t] = d] /\ tab[t].sending = None
        /\ UNCHANGED <<request, report, back, call>>
    BY <1>11 DEF Submit, Shape
  <2>2. TabShape(d)
    BY <1>0 DEF TabShape
  <2> HIDE DEF d
  <2> QED BY <2>1, <2>2 DEF TabMoves
<1>12. ASSUME NEW g \in Guarantees, NEW acceptable \in BOOLEAN, LookedUp(t, g, acceptable)
      PROVE  TabMoves(t) /\ UNCHANGED <<request, report, back, call>>
  <2> DEFINE d == [tab[t] EXCEPT !.looking = @ \ {g}, !.checking = FALSE]
             e == [d EXCEPT !.shown = g]
  <2>1. /\ tab' = [tab EXCEPT ![t] = IF acceptable THEN Filled(e) ELSE d]
        /\ UNCHANGED <<request, report, back, call>>
    BY <1>12 DEF LookedUp
  <2>2. TabShape(d) /\ d.sending = tab[t].sending
    BY <1>0 DEF TabShape
  <2> HIDE DEF d
  <2>3. TabShape(e) /\ e.sending = d.sending
    BY <2>2 DEF TabShape
  <2> HIDE DEF e
  <2> QED BY <2>1, <2>2, <2>3, FilledShape DEF TabMoves
<1>13. CASE HearFiled(t) \/ MissFiled(t)
  <2> DEFINE d == [tab[t] EXCEPT !.filed = FALSE]
  <2>1. /\ tab' = [tab EXCEPT ![t] = Closed(d)] \/ tab' = [tab EXCEPT ![t] = d]
        /\ UNCHANGED <<request, report, back, call>>
    BY <1>13 DEF HearFiled, MissFiled, Shape
  <2>2. TabShape(d) /\ d.sending = tab[t].sending
    BY <1>0 DEF TabShape
  <2> HIDE DEF d
  <2> QED BY <2>1, <2>2, FilledShape DEF TabMoves
<1> QED
  BY <1>1, <1>2, <1>3, <1>4, <1>5, <1>6, <1>7, <1>8, <1>9, <1>10, <1>11, <1>12, <1>13
     DEF PageStep, LookUp

\* A tab's step leaves the tabs as records, and submissions under way as they are.
LEMMA TabsKept ==
    ASSUME Shape, NEW t \in Tabs, TabMoves(t)
    PROVE  /\ tab' = [u \in Tabs |-> tab'[u]] /\ \A u \in Tabs : TabShape(tab'[u])
           /\ \A u \in Tabs : tab[u].sending # None => tab'[u].sending = tab[u].sending
  BY DEF Shape, TabMoves

\* Nothing is filed or asked for at the start.
THEOREM ShapeInit == Init => Shape
<1> SUFFICES ASSUME Init PROVE Shape
  OBVIOUS
<1>1. TabShape(NewTab)
  BY DEF TabShape, NewTab
<1>2. request = [q \in Requests |-> request[q]] /\ \A q \in Requests : RequestShape(request[q])
  BY DEF Init, RequestShape
<1>3. report = [x \in Reports |-> report[x]] /\ \A x \in Reports : ReportShape(report[x])
  BY DEF Init, ReportShape
<1>4. tab = [t \in Tabs |-> tab[t]] /\ \A t \in Tabs : TabShape(tab[t])
  BY <1>1 DEF Init
<1>5. call = [h \in Handlers |-> call[h]] /\ \A h \in Handlers : CallShape(h, call[h])
  BY DEF Init, CallShape
<1> QED BY <1>2, <1>3, <1>4, <1>5 DEF Shape

-----------------------------------------------------------------------------
(* The server.                                                              *)

\* One slot's call changes.
LEMMA CallChanges ==
    ASSUME Shape, NEW h \in Handlers, NEW c, call' = [call EXCEPT ![h] = c], CallShape(h, c)
    PROVE  /\ call' = [g \in Handlers |-> call'[g]]
           /\ \A g \in Handlers : CallShape(g, call'[g])
  BY DEF Shape

\* Rows, tabs and calls keep their form whatever comes between a read and a save.
THEOREM ShapeNext == Shape /\ [Next]_vars => Shape'
<1> SUFFICES ASSUME Shape, [Next]_vars PROVE Shape'
  OBVIOUS
<1> DEFINE RequestsOK == /\ request = [q \in Requests |-> request[q]]
                         /\ \A q \in Requests : RequestShape(request[q])
           ReportsOK == /\ report = [x \in Reports |-> report[x]]
                        /\ \A x \in Reports : ReportShape(report[x])
           TabsOK == tab = [t \in Tabs |-> tab[t]] /\ \A t \in Tabs : TabShape(tab[t])
           CallsOK == /\ call = [h \in Handlers |-> call[h]]
                      /\ \A h \in Handlers : CallShape(h, call[h])
<1>a. RequestsOK /\ ReportsOK /\ TabsOK /\ CallsOK
  BY DEF Shape
<1>b. RequestsOK' /\ ReportsOK' /\ TabsOK' /\ CallsOK' => Shape'
  BY DEF Shape, RequestShape, ReportShape, TabShape, CallShape
<1>1. UNCHANGED request => RequestsOK'
  BY <1>a DEF RequestShape
<1>2. UNCHANGED report => ReportsOK'
  BY <1>a DEF ReportShape
<1>3. UNCHANGED tab => TabsOK'
  BY <1>a DEF TabShape
<1>4. UNCHANGED call => CallsOK'
  BY <1>a DEF CallShape
<1>5. ASSUME NEW h \in Handlers, NEW c, call' = [call EXCEPT ![h] = c], CallShape(h, c)
      PROVE  CallsOK'
  BY <1>5, CallChanges DEF CallShape
<1>6. \A h \in Handlers : CallShape(h, NoRow)
  BY DEF CallShape
<1>7. ASSUME NEW t \in Tabs, PageStep(t) \/ LookUp(t) \/ Refetch(t) PROVE Shape'
  <2>1. TabsOK'
    BY <1>7, PageMoves, TabsKept DEF TabShape
  <2> QED BY <1>7, <1>b, <1>1, <1>2, <1>4, <2>1, PageMoves
<1>8. ASSUME NEW t \in Tabs, NEW h \in Handlers, NEW ok \in BOOLEAN, CheckReport(h, t, ok)
      PROVE  Shape'
  <2>1. UNCHANGED <<request, report>> /\ "file" \in Serves[h]
    BY <1>8 DEF CheckReport
  <2>2. CASE call' = [call EXCEPT ![h] = [status |-> "file", tab |-> t]] /\ UNCHANGED tab
    <3>1. CallShape(h, [status |-> "file", tab |-> t])
      BY <2>1 DEF CallShape
    <3> QED BY <1>b, <1>1, <1>2, <1>3, <1>5, <2>1, <2>2, <3>1
  <2>3. CASE tab' = [tab EXCEPT ![t].sending = None] /\ UNCHANGED call
    <3>1. TabsOK'
      BY <1>a, <2>3 DEF TabShape
    <3> QED BY <1>b, <1>1, <1>2, <1>4, <2>1, <2>3, <3>1
  <2> QED BY <1>8, <2>2, <2>3 DEF CheckReport
<1>9. ASSUME NEW h \in Handlers, NEW x \in Reports, InsertReport(h, x)
      PROVE  Shape'
  <2> DEFINE t == call[h].tab
             d == [tab[t] EXCEPT !.sending = None, !.filed = TRUE]
             row == NewReport(TechOf[t], tab[t].sending.guarantee, tab[t].sending.parts)
  <2>1. t \in Tabs
    BY <1>9 DEF InsertReport, Shape, CallShape, NoRow
  <2>2. /\ report' = [report EXCEPT ![x] = row] /\ tab' = [tab EXCEPT ![t] = d]
        /\ call' = [call EXCEPT ![h] = NoRow] /\ UNCHANGED request
    BY <1>9, <2>1 DEF InsertReport, Shape
  <2>3. TabShape(d)
    BY <2>1 DEF Shape, TabShape
  <2>4. ReportShape(row)
    BY DEF ReportShape, ReportFields, ReportStatus, NewReport
  <2> HIDE DEF t, d, row
  <2>5. TabsOK'
    BY <1>a, <2>1, <2>2, <2>3 DEF TabShape
  <2>6. ReportsOK'
    BY <1>a, <2>2, <2>4 DEF ReportShape
  <2> QED BY <1>b, <1>1, <1>5, <1>6, <2>2, <2>5, <2>6
<1>10. ASSUME NEW q \in Requests, NEW tech \in Techs, CreateRequest(q, tech) PROVE Shape'
  <2>1. RequestShape(NewRequest(tech))
    BY DEF RequestShape, RequestFields, RequestStatus, NewRequest
  <2>2. RequestsOK'
    BY <1>a, <1>10, <2>1 DEF CreateRequest, RequestShape
  <2> QED BY <1>10, <1>b, <1>2, <1>3, <1>4, <2>2 DEF CreateRequest
<1>11. ASSUME NEW h \in Handlers, NEW q \in Requests, NEW to \in RequestStatus, NEW who,
              ReadRequest(h, q, to, who)
      PROVE  Shape'
  <2> DEFINE row == [request[q] EXCEPT !.status = to, !.by = IF who = None THEN @ ELSE who]
             c == [status |-> "request", id |-> q, row |-> row]
  <2>1. /\ call' = [call EXCEPT ![h] = c] /\ UNCHANGED <<request, report, tab>>
        /\ Live(request[q]) /\ Serves[h] \intersect {"status", "withdraw"} # {}
    BY <1>11 DEF ReadRequest
  <2>4. request[q] # NoRow /\ RequestFields \subseteq DOMAIN request[q]
    BY <2>1 DEF Shape, RequestShape, Live, NoRow
  <2>2. RequestShape(row) /\ row # NoRow
    BY <2>4 DEF RequestShape, RequestFields, RequestStatus, NoRow
  <2>3. CallShape(h, c)
    BY <2>1, <2>2 DEF CallShape
  <2> HIDE DEF c
  <2> QED BY <1>b, <1>1, <1>2, <1>3, <1>5, <2>1, <2>3
<1>12. ASSUME NEW h \in Handlers, SaveRequest(h) PROVE Shape'
  <2>1. call[h].id \in Requests /\ RequestShape(call[h].row)
    BY <1>12 DEF SaveRequest, Shape, CallShape, NoRow
  <2>2. RequestsOK'
    BY <1>a, <1>12, <2>1 DEF SaveRequest, RequestShape
  <2> QED BY <1>12, <1>b, <1>2, <1>3, <1>5, <1>6, <2>2 DEF SaveRequest
<1>13. ASSUME NEW q \in Requests, DeleteRequest(q) PROVE Shape'
  <2>1. request[q] # NoRow /\ request' = [request EXCEPT ![q].deleted = TRUE]
    BY <1>13 DEF DeleteRequest, Live, NoRow
  <2>2. RequestsOK'
    BY <1>a, <2>1 DEF RequestShape, RequestFields, RequestStatus, NoRow
  <2> QED BY <1>13, <1>b, <1>2, <1>3, <1>4, <2>2 DEF DeleteRequest
<1>13b. ASSUME NEW q \in Requests, RestoreRequest(q) PROVE Shape'
  <2>1. request[q] # NoRow /\ request' = [request EXCEPT ![q].deleted = FALSE]
    BY <1>13b DEF RestoreRequest
  <2>2. RequestsOK'
    BY <1>a, <2>1 DEF RequestShape, RequestFields, RequestStatus, NoRow
  <2> QED BY <1>13b, <1>b, <1>2, <1>3, <1>4, <2>2 DEF RestoreRequest
<1>14. ASSUME NEW x \in Reports, NEW g \in Guarantees, OfficeReport(x, g) PROVE Shape'
  <2>1. ReportShape(NewReport(None, g, <<>>))
    BY DEF ReportShape, ReportFields, ReportStatus, NewReport
  <2>2. ReportsOK'
    BY <1>a, <1>14, <2>1 DEF OfficeReport, ReportShape
  <2> QED BY <1>14, <1>b, <1>1, <1>3, <1>4, <2>2 DEF OfficeReport
<1>15. ASSUME NEW h \in Handlers, NEW x \in Revisited, NEW to \in ReportStatus, NEW who,
              ReadReport(h, x, to, who)
      PROVE  Shape'
  <2> DEFINE row == [report[x] EXCEPT !.status = to, !.by = who]
             c == [status |-> "report", id |-> x, row |-> row]
  <2>1. /\ call' = [call EXCEPT ![h] = c] /\ UNCHANGED <<request, report, tab>>
        /\ Live(report[x]) /\ x \in Reports
    BY <1>15, RepairConstants DEF ReadReport
  <2>4. report[x] # NoRow /\ ReportFields \subseteq DOMAIN report[x]
    BY <2>1 DEF Shape, ReportShape, Live, NoRow
  <2>2. ReportShape(row) /\ row # NoRow
    BY <2>4 DEF ReportShape, ReportFields, ReportStatus, NoRow
  <2>3. CallShape(h, c)
    BY <2>1, <2>2 DEF CallShape
  <2> HIDE DEF c
  <2> QED BY <1>b, <1>1, <1>2, <1>3, <1>5, <2>1, <2>3
<1>16. ASSUME NEW h \in Handlers, SaveReport(h) PROVE Shape'
  <2>1. call[h].id \in Reports /\ ReportShape(call[h].row)
    BY <1>16 DEF SaveReport, Shape, CallShape, NoRow
  <2>2. ReportsOK'
    BY <1>a, <1>16, <2>1 DEF SaveReport, ReportShape
  <2> QED BY <1>16, <1>b, <1>1, <1>3, <1>5, <1>6, <2>2 DEF SaveReport
<1>17. ASSUME NEW x \in Reports, DeleteReport(x) PROVE Shape'
  <2>1. report[x] # NoRow /\ report' = [report EXCEPT ![x].deleted = TRUE]
    BY <1>17 DEF DeleteReport, Live, NoRow
  <2>2. ReportsOK'
    BY <1>a, <2>1 DEF ReportShape, ReportFields, ReportStatus, NoRow
  <2> QED BY <1>17, <1>b, <1>1, <1>3, <1>4, <2>2 DEF DeleteReport
<1>18. ASSUME NEW x \in Reports, RestoreReport(x) PROVE Shape'
  <2>1. report[x] # NoRow /\ report' = [report EXCEPT ![x].deleted = FALSE]
    BY <1>18 DEF RestoreReport
  <2>2. ReportsOK'
    BY <1>a, <2>1 DEF ReportShape, ReportFields, ReportStatus, NoRow
  <2> QED BY <1>18, <1>b, <1>1, <1>3, <1>4, <2>2 DEF RestoreReport
<1>19. CASE UNCHANGED vars
  BY <1>19, <1>b, <1>1, <1>2, <1>3, <1>4 DEF vars
<1> QED
  BY <1>7, <1>8, <1>9, <1>10, <1>11, <1>12, <1>13, <1>14, <1>15, <1>16, <1>17, <1>18, <1>19,
     <1>13b, RepairConstants DEF Next, OfficeStep, Filing

\* Rows, tabs and calls have their form in every reachable state.
THEOREM ShapeHolds == Spec => []Shape
  BY ShapeInit, ShapeNext, PTL DEF Spec

-----------------------------------------------------------------------------
(* Reviews under way: parts and technician of a report never change once it *)
(* is filed, so a review saves the ones the report still has.               *)

\* A review under way read the parts and the technician the report still has.
RowAsRead(h) ==
    call[h].status = "report" =>
        /\ report[call[h].id] # NoRow
        /\ call[h].row.parts = report[call[h].id].parts
        /\ call[h].row.tech = report[call[h].id].tech

RowsAsRead == \A h \in Handlers : RowAsRead(h)

\* Two submissions of one tab are not under way together.
TabsApart ==
    \A h, g \in Handlers :
        call[h].status = "file" /\ call[g].status = "file" /\ call[h].tab = call[g].tab => h = g

\* No row is written and nothing is under way at the start.
LEMMA NothingCalled ==
    ASSUME Init
    PROVE  /\ \A h \in Handlers : call[h].status = "none"
           /\ \A x \in Reports : report[x] = NoRow
  BY DEF Init, NoRow

\* The next report is a row nobody has written.
LEMMA NextIsNew ==
    ASSUME NEW x \in Reports, x = NextReport
    PROVE  report[x] = NoRow
  BY RepairConstants DEF NextReport

\* No review and no submission is under way at the start.
THEOREM RowsAsReadInit == Init => RowsAsRead /\ TabsApart
  BY NothingCalled DEF RowsAsRead, RowAsRead, TabsApart

\* A step that keeps parts and technician of every report that is there.
ReportsKept ==
    \A x \in Reports : report[x] # NoRow =>
        /\ report'[x] # NoRow
        /\ report'[x].parts = report[x].parts /\ report'[x].tech = report[x].tech

\* Parts and technician of a report never change once it is filed.
LEMMA NextKeepsReports ==
    ASSUME Shape, RowsAsRead, [Next]_vars
    PROVE  ReportsKept
<1>a. \A x \in Reports : report[x] # NoRow => ReportFields \subseteq DOMAIN report[x]
  BY DEF Shape, ReportShape
<1>1. CASE UNCHANGED report
  BY <1>1 DEF ReportsKept
<1>2. ASSUME NEW h \in Handlers, NEW x \in Reports, InsertReport(h, x) PROVE ReportsKept
  BY <1>2, NextIsNew DEF InsertReport, Shape, ReportsKept
<1>3. ASSUME NEW h \in Handlers, SaveReport(h) PROVE ReportsKept
  <2>1. /\ call[h].id \in Reports /\ call[h].row # NoRow
        /\ call[h].row.parts = report[call[h].id].parts
        /\ call[h].row.tech = report[call[h].id].tech
    BY <1>3 DEF SaveReport, RowsAsRead, RowAsRead, Shape, CallShape, NoRow
  <2> QED BY <1>3, <2>1 DEF SaveReport, Shape, ReportsKept
<1>4. ASSUME NEW x \in Reports, NEW b \in BOOLEAN, report[x] # NoRow,
             report' = [report EXCEPT ![x].deleted = b]
      PROVE  ReportsKept
  <2> DEFINE row == [report[x] EXCEPT !.deleted = b]
  <2>1. report' = [report EXCEPT ![x] = row]
    BY <1>4
  <2>2. row.parts = report[x].parts /\ row.tech = report[x].tech /\ row # NoRow
    BY <1>4, <1>a DEF ReportFields, NoRow
  <2> HIDE DEF row
  <2> QED BY <2>1, <2>2 DEF Shape, ReportsKept
<1>5. ASSUME NEW x \in Reports, DeleteReport(x) PROVE ReportsKept
  <2>1. report[x] # NoRow /\ report' = [report EXCEPT ![x].deleted = TRUE]
    BY <1>5 DEF DeleteReport, Live, NoRow
  <2> QED BY <1>4, <2>1
<1>6. ASSUME NEW x \in Reports, RestoreReport(x) PROVE ReportsKept
  BY <1>4, <1>6 DEF RestoreReport
<1>7. ASSUME NEW x \in Reports, NEW g \in Guarantees, OfficeReport(x, g) PROVE ReportsKept
  BY <1>7, NextIsNew DEF OfficeReport, Shape, ReportsKept
<1>8. ASSUME NEW t \in Tabs, PageStep(t) \/ LookUp(t) \/ Refetch(t) PROVE UNCHANGED report
  BY <1>8, PageMoves
<1>9. ASSUME NEW t \in Tabs, NEW h \in Handlers, NEW ok \in BOOLEAN, CheckReport(h, t, ok)
      PROVE  UNCHANGED report
  BY <1>9 DEF CheckReport
<1>10. ASSUME NEW h \in Handlers,
              \/ SaveRequest(h)
              \/ \E q \in Requests, to \in RequestStatus, who \in Reviewers \union {None} :
                    ReadRequest(h, q, to, who)
              \/ \E x \in Revisited, to \in ReportStatus, who \in Reviewers :
                    ReadReport(h, x, to, who)
       PROVE  UNCHANGED report
  BY <1>10 DEF SaveRequest, ReadRequest, ReadReport
<1>11. ASSUME NEW q \in Requests, \/ DeleteRequest(q) \/ RestoreRequest(q)
                                 \/ \E tech \in Techs : CreateRequest(q, tech)
       PROVE  UNCHANGED report
  BY <1>11 DEF DeleteRequest, RestoreRequest, CreateRequest
<1> QED
  BY <1>1, <1>2, <1>3, <1>5, <1>6, <1>7, <1>8, <1>9, <1>10, <1>11, RepairConstants
     DEF Next, OfficeStep, Filing, vars

\* One slot's call ends or reads a row: the others are as they were.
LEMMA CallReplaced ==
    ASSUME Shape, RowsAsRead, TabsApart, ReportsKept,
           NEW h \in Handlers, NEW c, call' = [call EXCEPT ![h] = c], c.status # "file",
           c.status = "report" =>
               /\ c.id \in Reports /\ report[c.id] # NoRow
               /\ c.row.parts = report[c.id].parts /\ c.row.tech = report[c.id].tech
    PROVE  RowsAsRead' /\ TabsApart'
<1>1. call'[h] = c /\ \A g \in Handlers \ {h} : call'[g] = call[g]
  BY DEF Shape
<1>2. \A g \in Handlers : call[g].status = "report" => call[g].id \in Reports
  BY DEF Shape, CallShape, NoRow
<1>3. TabsApart'
  BY <1>1 DEF TabsApart
<1>4. ASSUME NEW g \in Handlers PROVE RowAsRead(g)'
  <2>1. CASE g = h
    BY <1>1, <2>1 DEF RowAsRead, ReportsKept
  <2>2. CASE g # h
    BY <1>1, <1>2, <2>2 DEF RowsAsRead, RowAsRead, ReportsKept
  <2> QED BY <2>1, <2>2
<1> QED BY <1>3, <1>4 DEF RowsAsRead

\* Reviews under way read what the report still has, and no tab has two
\* submissions past their check.
THEOREM RowsAsReadNext ==
    Shape /\ RowsAsRead /\ TabsApart /\ [Next]_vars => RowsAsRead' /\ TabsApart'
<1> SUFFICES ASSUME Shape, RowsAsRead, TabsApart, [Next]_vars
             PROVE  RowsAsRead' /\ TabsApart'
  OBVIOUS
<1>a. ReportsKept
  BY NextKeepsReports
<1>b. NoRow.status = "none"
  BY DEF NoRow
<1>1. CASE UNCHANGED call
  <2>1. \A g \in Handlers : call[g].status = "report" => call[g].id \in Reports
    BY DEF Shape, CallShape, NoRow
  <2> QED BY <1>1, <1>a, <2>1 DEF RowsAsRead, RowAsRead, TabsApart, ReportsKept
<1>2. ASSUME NEW h \in Handlers, call' = [call EXCEPT ![h] = NoRow]
      PROVE  RowsAsRead' /\ TabsApart'
  BY <1>2, <1>a, <1>b, CallReplaced
<1>3. ASSUME NEW t \in Tabs, NEW h \in Handlers, NEW ok \in BOOLEAN, CheckReport(h, t, ok)
      PROVE  RowsAsRead' /\ TabsApart'
  <2>1. CASE call' = [call EXCEPT ![h] = [status |-> "file", tab |-> t]]
    <3>1. call'[h] = [status |-> "file", tab |-> t] /\ \A g \in Handlers \ {h} : call'[g] = call[g]
      BY <2>1 DEF Shape
    <3>2. /\ UNCHANGED report
          /\ \A g \in Handlers : call[g].status = "file" => call[g].tab # t
      BY <1>3 DEF CheckReport
    <3>3. TabsApart'
      BY <3>1, <3>2 DEF TabsApart
    <3>4. RowsAsRead'
      BY <3>1, <3>2 DEF RowsAsRead, RowAsRead
    <3> QED BY <3>3, <3>4
  <2> QED BY <1>1, <1>3, <2>1 DEF CheckReport
<1>4. ASSUME NEW h \in Handlers, NEW q \in Requests, NEW to \in RequestStatus, NEW who,
             ReadRequest(h, q, to, who)
      PROVE  RowsAsRead' /\ TabsApart'
  <2> DEFINE c == [status |-> "request", id |-> q,
                   row |-> [request[q] EXCEPT !.status = to,
                                              !.by = IF who = None THEN @ ELSE who]]
  <2>1. call' = [call EXCEPT ![h] = c] /\ c.status = "request"
    BY <1>4 DEF ReadRequest
  <2> HIDE DEF c
  <2> QED BY <1>a, <2>1, CallReplaced
<1>5. ASSUME NEW h \in Handlers, NEW x \in Reports, NEW to \in ReportStatus, NEW who,
             ReadReport(h, x, to, who)
      PROVE  RowsAsRead' /\ TabsApart'
  <2> DEFINE row == [report[x] EXCEPT !.status = to, !.by = who]
             c == [status |-> "report", id |-> x, row |-> row]
  <2>1. call' = [call EXCEPT ![h] = c] /\ c.status = "report" /\ c.id = x /\ c.row = row
    BY <1>5 DEF ReadReport
  <2>2. report[x] # NoRow /\ ReportFields \subseteq DOMAIN report[x]
    BY <1>5 DEF ReadReport, Live, NoRow, Shape, ReportShape
  <2>3. row.parts = report[x].parts /\ row.tech = report[x].tech
    BY <2>2 DEF ReportFields
  <2> HIDE DEF c, row
  <2> QED BY <1>a, <2>1, <2>2, <2>3, CallReplaced
<1>6. ASSUME NEW t \in Tabs, PageStep(t) \/ LookUp(t) \/ Refetch(t) PROVE UNCHANGED call
  BY <1>6, PageMoves
<1>7. ASSUME NEW h \in Handlers,
             SaveRequest(h) \/ SaveReport(h) \/ \E x \in Reports : InsertReport(h, x)
      PROVE  call' = [call EXCEPT ![h] = NoRow]
  BY <1>7 DEF SaveRequest, SaveReport, InsertReport
<1>8. ASSUME \/ \E q \in Requests : \/ DeleteRequest(q) \/ RestoreRequest(q)
                                   \/ \E tech \in Techs : CreateRequest(q, tech)
             \/ \E x \in Revisited : DeleteReport(x) \/ RestoreReport(x)
             \/ \E x \in Reports, g \in Guarantees : OfficeReport(x, g)
      PROVE  UNCHANGED call
  BY <1>8 DEF DeleteRequest, RestoreRequest, CreateRequest, DeleteReport, RestoreReport, OfficeReport
<1> QED
  BY <1>1, <1>2, <1>3, <1>4, <1>5, <1>6, <1>7, <1>8, RepairConstants
     DEF Next, OfficeStep, Filing, vars

\* Reviews under way read the parts and the technician the report still has.
THEOREM RowsAsReadHolds == Spec => [](Shape /\ RowsAsRead /\ TabsApart)
  BY ShapeInit, ShapeNext, RowsAsReadInit, RowsAsReadNext, PTL DEF Spec

-----------------------------------------------------------------------------
(* Types.  A submission that has passed its check waits in its tab until it *)
(* is answered, so the insert finds the lines it is to write.               *)

\* Whoever has passed the check of a submission finds it still in its tab.
SubmissionsWait ==
    \A h \in Handlers : call[h].status = "file" => tab[call[h].tab].sending # None

\* No list, a line more and a line less.
LEMMA ListsOfParts ==
    /\ <<>> \in PartLists
    /\ \A s \in PartLists, p \in Requests : Len(s) < MaxParts => Append(s, p) \in PartLists
    /\ \A s \in PartLists : \A i \in DOMAIN s :
          SubSeq(s, 1, i - 1) \o SubSeq(s, i + 1, Len(s)) \in PartLists
<1>1. <<>> \in PartLists
  BY RepairConstants DEF PartLists
<1>2. ASSUME NEW s \in PartLists, NEW p \in Requests, Len(s) < MaxParts
      PROVE  Append(s, p) \in PartLists
  BY <1>2, RepairConstants DEF PartLists
<1>3. ASSUME NEW s \in PartLists, NEW i \in DOMAIN s
      PROVE  SubSeq(s, 1, i - 1) \o SubSeq(s, i + 1, Len(s)) \in PartLists
  <2>1. s \in Seq(Requests) /\ Len(s) \in Nat /\ i \in 1..Len(s)
    BY DEF PartLists
  <2> DEFINE before == SubSeq(s, 1, i - 1)
             after == SubSeq(s, i + 1, Len(s))
  <2>2. before \in Seq(Requests) /\ Len(before) = i - 1
    BY <2>1, SubSeqProperties
  <2>3. after \in Seq(Requests) /\ Len(after) = Len(s) - i
    BY <2>1, SubSeqProperties
  <2> HIDE DEF before, after
  <2>4. before \o after \in Seq(Requests) /\ Len(before \o after) = Len(s) - 1
    BY <2>1, <2>2, <2>3, ConcatProperties
  <2>5. Cardinality(Requests) \in Nat /\ MaxParts \in Nat
    BY RepairConstants, FS_CardinalityType
  <2> QED BY <2>1, <2>4, <2>5 DEF PartLists, before, after
<1> QED BY <1>1, <1>2, <1>3

\* Some list names each of the ticked lines once, and is one a report may have.
LEMMA ListingOfTicked ==
    ASSUME NEW found \in SUBSET Requests
    PROVE  (CHOOSE s \in [1..Cardinality(found) -> found] : Names(s) = found) \in PartLists
<1>1. IsFiniteSet(found) /\ Cardinality(found) <= Cardinality(Requests)
  BY RepairConstants, FS_Subset
<1>2. PICK n \in Nat : n = Cardinality(found) /\ ExistsBijection(1..n, found)
  BY <1>1, FS_CardinalityType
<1>3. PICK f \in [1..n -> found] : Names(f) = found
  <2>1. PICK f \in Bijection(1..n, found) : TRUE
    BY <1>2 DEF ExistsBijection
  <2>2. f \in [1..n -> found] /\ \A q \in found : \E i \in 1..n : f[i] = q
    BY <2>1 DEF Bijection, Injection, Surjection
  <2> QED BY <2>2 DEF Names
<1>4. PICK s : s = (CHOOSE z \in [1..n -> found] : Names(z) = found)
  OBVIOUS
<1>5. s \in [1..n -> found]
  BY <1>3, <1>4
<1>6. s \in Seq(Requests) /\ Len(s) = n
  BY <1>5
<1>7. s \in PartLists
  BY <1>1, <1>2, <1>6 DEF PartLists
<1> QED BY <1>2, <1>4, <1>7

\* Filling the ticked lines in, and closing the dialog.
LEMMA FilledTyped ==
    ASSUME NEW d \in Tab
    PROVE  Filled(d) \in Tab /\ Closed(d) \in Tab
<1>1. Closed(d) \in Tab
  BY ListsOfParts DEF Tab, Closed
<1>2. ASSUME NEW parts \in PartLists
      PROVE  [d EXCEPT !.parts = parts, !.wanted = {}] \in Tab
  BY DEF Tab
<1>3. Filled(d) \in Tab
  <2> DEFINE found == {q \in d.wanted : d.seen[q] # "no"}
             listing == CHOOSE s \in [1..Cardinality(found) -> found] : Names(s) = found
  <2>1. found \in SUBSET Requests
    BY DEF Tab
  <2>2. listing \in PartLists
    BY <2>1, ListingOfTicked
  <2>3. Filled(d) = d \/ Filled(d) = [d EXCEPT !.parts = listing, !.wanted = {}]
    BY DEF Filled
  <2> HIDE DEF listing
  <2> QED BY <1>2, <2>2, <2>3
<1> QED BY <1>1, <1>3

\* The list the server answers with.
LEMMA AnswerTyped ==
    ASSUME NEW t \in Tabs PROVE Answer(t) \in [Requests -> {"no", "free", "used"}]
  BY DEF Answer

\* Whatever the technician does on a page, and whatever answers reach it, each
\* tab keeps its fields.
LEMMA PageTyped ==
    ASSUME tab \in [Tabs -> Tab], NEW t \in Tabs, PageStep(t) \/ LookUp(t) \/ Refetch(t)
    PROVE  tab' \in [Tabs -> Tab]
<1>0. ASSUME NEW d \in Tab, tab' = [tab EXCEPT ![t] = d] PROVE tab' \in [Tabs -> Tab]
  BY <1>0
<1>u. PICK u \in Tab : u = tab[t]
  OBVIOUS
<1>1. CASE OpenBlank(t)
  <2>1. [u EXCEPT !.open = TRUE] \in Tab
    BY DEF Tab
  <2> QED BY <1>0, <1>1, <1>u, <2>1 DEF OpenBlank
<1>2. CASE PressCheck(t)
  <2>1. u.code \in Guarantees
    BY <1>2, <1>u DEF PressCheck, Tab
  <2>2. [u EXCEPT !.looking = @ \union {u.code}, !.checking = TRUE] \in Tab
    BY <2>1 DEF Tab
  <2>3. tab' = [tab EXCEPT ![t] = [u EXCEPT !.looking = @ \union {u.code}, !.checking = TRUE]]
    BY <1>2, <1>u DEF PressCheck
  <2> QED BY <1>0, <2>2, <2>3
<1>3. CASE ChangeGuarantee(t)
  <2>1. [u EXCEPT !.shown = None] \in Tab
    BY DEF Tab
  <2> QED BY <1>0, <1>3, <1>u, <2>1 DEF ChangeGuarantee
<1>4. ASSUME NEW g \in Guarantees, TypeCode(t, g) PROVE tab' \in [Tabs -> Tab]
  <2>1. [u EXCEPT !.code = g] \in Tab
    BY DEF Tab
  <2> QED BY <1>0, <1>4, <1>u, <2>1 DEF TypeCode
<1>5. ASSUME NEW g \in Guarantees, WriteReport(t, g) PROVE tab' \in [Tabs -> Tab]
  <2>1. u.ticked[g] \in SUBSET Requests
    BY DEF Tab
  <2>2. [u EXCEPT !.open = TRUE, !.code = g, !.shown = None, !.wanted = u.ticked[g],
                  !.ticked[g] = {}, !.looking = @ \union {g}, !.checking = TRUE] \in Tab
    BY <2>1 DEF Tab
  <2> QED BY <1>0, <1>5, <1>u, <2>2 DEF WriteReport
<1>6. ASSUME NEW g \in Guarantees, NEW q \in Requests, Tick(t, g, q)
      PROVE  tab' \in [Tabs -> Tab]
  <2>1. PICK lines \in SUBSET Requests :
            lines = IF q \in u.ticked[g] THEN u.ticked[g] \ {q} ELSE u.ticked[g] \union {q}
    BY DEF Tab
  <2>2. [u EXCEPT !.ticked[g] = lines] \in Tab
    BY DEF Tab
  <2>3. tab' = [tab EXCEPT ![t] = [u EXCEPT !.ticked[g] = lines]]
    BY <1>6, <1>u, <2>1 DEF Tick
  <2> QED BY <1>0, <2>2, <2>3
<1>7. ASSUME NEW p \in Requests, AddPart(t, p) PROVE tab' \in [Tabs -> Tab]
  <2>1. Append(u.parts, p) \in PartLists
    BY <1>7, <1>u, ListsOfParts DEF AddPart, Tab
  <2>2. [u EXCEPT !.parts = Append(u.parts, p)] \in Tab
    BY <2>1 DEF Tab
  <2>3. tab' = [tab EXCEPT ![t] = [u EXCEPT !.parts = Append(u.parts, p)]]
    BY <1>7, <1>u DEF AddPart
  <2> QED BY <1>0, <2>2, <2>3
<1>8. ASSUME NEW i \in DOMAIN tab[t].parts, RemovePart(t, i) PROVE tab' \in [Tabs -> Tab]
  <2>1. PICK s : s = SubSeq(u.parts, 1, i - 1) \o SubSeq(u.parts, i + 1, Len(u.parts))
    OBVIOUS
  <2>2. s \in PartLists
    BY <1>u, <2>1, ListsOfParts DEF Tab
  <2>3. [u EXCEPT !.parts = s] \in Tab
    BY <2>2 DEF Tab
  <2>4. tab' = [tab EXCEPT ![t] = [u EXCEPT !.parts = s]]
    BY <1>8, <1>u, <2>1 DEF RemovePart
  <2> QED BY <1>0, <2>3, <2>4
<1>9. CASE Refetch(t)
  <2>1. [u EXCEPT !.seen = Answer(t)] \in Tab
    BY AnswerTyped DEF Tab
  <2>2. Filled([u EXCEPT !.seen = Answer(t)]) \in Tab
    BY <2>1, FilledTyped
  <2> QED BY <1>0, <1>9, <1>u, <2>2 DEF Refetch
<1>10. CASE CloseDialog(t)
  BY <1>0, <1>10, <1>u, FilledTyped DEF CloseDialog
<1>11. CASE Submit(t)
  <2>1. [guarantee |-> u.shown, parts |-> u.parts] \in Submission
    BY <1>11, <1>u DEF Submit, Submission, Tab
  <2>2. [u EXCEPT !.sending = [guarantee |-> u.shown, parts |-> u.parts]] \in Tab
    BY <2>1 DEF Tab
  <2> QED BY <1>0, <1>11, <1>u, <2>2 DEF Submit
<1>12. ASSUME NEW g \in Guarantees, NEW ok \in BOOLEAN, LookedUp(t, g, ok)
       PROVE  tab' \in [Tabs -> Tab]
  <2>1. PICK d : d = [u EXCEPT !.looking = @ \ {g}, !.checking = FALSE]
    OBVIOUS
  <2>2. d \in Tab
    BY <2>1 DEF Tab
  <2>3. [d EXCEPT !.shown = g] \in Tab
    BY <2>2 DEF Tab
  <2>4. Filled([d EXCEPT !.shown = g]) \in Tab
    BY <2>3, FilledTyped
  <2>5. tab' = [tab EXCEPT ![t] = IF ok THEN Filled([d EXCEPT !.shown = g]) ELSE d]
    BY <1>12, <1>u, <2>1 DEF LookedUp
  <2> QED BY <1>0, <2>2, <2>4, <2>5
<1>13. CASE HearFiled(t) \/ MissFiled(t)
  <2>1. PICK d : d = [u EXCEPT !.filed = FALSE]
    OBVIOUS
  <2>2. d \in Tab
    BY <2>1 DEF Tab
  <2>3. Closed(d) \in Tab
    BY <2>2, FilledTyped
  <2>4. tab' = [tab EXCEPT ![t] = Closed(d)] \/ tab' = [tab EXCEPT ![t] = d]
    BY <1>13, <1>u, <2>1 DEF HearFiled, MissFiled
  <2> QED BY <1>0, <2>2, <2>3, <2>4
<1> QED
  BY <1>1, <1>2, <1>3, <1>4, <1>5, <1>6, <1>7, <1>8, <1>9, <1>10, <1>11, <1>12, <1>13
     DEF PageStep, LookUp

\* The rows of both tables: a new one, one read and changed, one deleted.
LEMMA RowsTyped ==
    /\ \A tech \in Techs : NewRequest(tech) \in RequestRow
    /\ \A tech \in Techs \union {None}, g \in Guarantees, parts \in PartLists :
          NewReport(tech, g, parts) \in ReportRow
    /\ \A row \in RequestRow, to \in RequestStatus, who \in Reviewers \union {None} :
          [row EXCEPT !.status = to, !.by = IF who = None THEN @ ELSE who] \in RequestRow
    /\ \A row \in ReportRow, to \in ReportStatus, who \in Reviewers :
          [row EXCEPT !.status = to, !.by = who] \in ReportRow
    /\ \A row \in RequestRow, b \in BOOLEAN : [row EXCEPT !.deleted = b] \in RequestRow
    /\ \A row \in ReportRow, b \in BOOLEAN : [row EXCEPT !.deleted = b] \in ReportRow
<1>1. \A tech \in Techs : NewRequest(tech) \in RequestRow
  BY DEF NewRequest, RequestRow, RequestStatus
<1>2. \A tech \in Techs \union {None}, g \in Guarantees, parts \in PartLists :
          NewReport(tech, g, parts) \in ReportRow
  BY DEF NewReport, ReportRow, ReportStatus
<1>3. \A row \in RequestRow, to \in RequestStatus, who \in Reviewers \union {None} :
          [row EXCEPT !.status = to, !.by = IF who = None THEN @ ELSE who] \in RequestRow
  BY DEF RequestRow
<1>4. \A row \in ReportRow, to \in ReportStatus, who \in Reviewers :
          [row EXCEPT !.status = to, !.by = who] \in ReportRow
  BY DEF ReportRow
<1>5. \A row \in RequestRow, b \in BOOLEAN : [row EXCEPT !.deleted = b] \in RequestRow
  BY DEF RequestRow
<1>6. \A row \in ReportRow, b \in BOOLEAN : [row EXCEPT !.deleted = b] \in ReportRow
  BY DEF ReportRow
<1> QED BY <1>1, <1>2, <1>3, <1>4, <1>5, <1>6

\* What a call that saves a row holds, and what the one that files holds.
LEMMA CallsTyped ==
    ASSUME NEW c \in RowOf(Call)
    PROVE  /\ c.status = "file" => c.tab \in Tabs
           /\ c.status = "request" => c.id \in Requests /\ c.row \in RequestRow
           /\ c.status = "report" => c.id \in Reports /\ c.row \in ReportRow
  BY DEF RowOf, NoRow, Call

\* Everything is empty at the start.
THEOREM TypedInit == Init => TypeOK /\ SubmissionsWait
<1> SUFFICES ASSUME Init PROVE TypeOK /\ SubmissionsWait
  OBVIOUS
<1>1. NewTab \in Tab
  BY ListsOfParts DEF NewTab, Tab
<1>2. TypeOK
  BY <1>1 DEF Init, TypeOK, RowOf
<1>3. SubmissionsWait
  BY NothingCalled DEF SubmissionsWait
<1> QED BY <1>2, <1>3

\* Every step keeps the types, and takes no submission away from its handler.
THEOREM TypedNext ==
    TypeOK /\ SubmissionsWait /\ Shape /\ TabsApart /\ [Next]_vars
        => TypeOK' /\ SubmissionsWait'
<1> SUFFICES ASSUME TypeOK, SubmissionsWait, Shape, TabsApart, [Next]_vars
             PROVE  TypeOK' /\ SubmissionsWait'
  OBVIOUS
<1> USE DEF TypeOK
<1>0. \A h \in Handlers : /\ call[h].status = "file" => call[h].tab \in Tabs
                          /\ call[h].status = "request" =>
                                call[h].id \in Requests /\ call[h].row \in RequestRow
                          /\ call[h].status = "report" =>
                                call[h].id \in Reports /\ call[h].row \in ReportRow
  BY CallsTyped
<1>a. /\ NoRow \in RowOf(Call) /\ NoRow.status = "none"
      /\ RequestRow \subseteq RowOf(RequestRow) /\ ReportRow \subseteq RowOf(ReportRow)
  BY DEF RowOf, NoRow
<1>b. ASSUME NEW h \in Handlers, NEW c \in RowOf(Call), c.status # "file",
             call' = [call EXCEPT ![h] = c], UNCHANGED tab
      PROVE  call' \in [Handlers -> RowOf(Call)] /\ SubmissionsWait'
  BY <1>b DEF SubmissionsWait
<1>1. CASE UNCHANGED vars
  BY <1>1 DEF vars, SubmissionsWait
<1>2. ASSUME NEW t \in Tabs, PageStep(t) \/ LookUp(t) \/ Refetch(t)
      PROVE  TypeOK' /\ SubmissionsWait'
  <2>1. tab' \in [Tabs -> Tab]
    BY <1>2, PageTyped
  <2>2. TabMoves(t) /\ UNCHANGED <<request, report, back, call>>
    BY <1>2, PageMoves
  <2>3. \A s \in Tabs : tab[s].sending # None => tab'[s].sending = tab[s].sending
    BY <2>2 DEF TabMoves
  <2> QED BY <1>0, <2>1, <2>2, <2>3 DEF SubmissionsWait
<1>3. ASSUME NEW t \in Tabs, NEW h \in Handlers, NEW ok \in BOOLEAN, CheckReport(h, t, ok)
      PROVE  TypeOK' /\ SubmissionsWait'
  <2>1. CASE /\ call' = [call EXCEPT ![h] = [status |-> "file", tab |-> t]]
             /\ UNCHANGED tab
    <3>1. [status |-> "file", tab |-> t] \in RowOf(Call)
      BY DEF RowOf, Call
    <3>2. tab[t].sending # None /\ UNCHANGED <<request, report, back>>
      BY <1>3 DEF CheckReport
    <3>3. SubmissionsWait'
      BY <2>1, <3>2 DEF SubmissionsWait
    <3> QED BY <2>1, <3>1, <3>2, <3>3
  <2>2. CASE tab' = [tab EXCEPT ![t].sending = None] /\ UNCHANGED call
    <3>1. PICK d : d = [tab[t] EXCEPT !.sending = None]
      OBVIOUS
    <3>2. d \in Tab
      BY <3>1 DEF Tab
    <3>3. tab' = [tab EXCEPT ![t] = d]
      BY <2>2, <3>1
    <3>4. /\ \A g \in Handlers : call[g].status = "file" => call[g].tab # t
          /\ UNCHANGED <<request, report, back>>
      BY <1>3 DEF CheckReport
    <3> QED BY <1>0, <2>2, <3>2, <3>3, <3>4 DEF SubmissionsWait
  <2> QED BY <1>3, <2>1, <2>2 DEF CheckReport
<1>4. ASSUME NEW h \in Handlers, NEW x \in Reports, InsertReport(h, x)
      PROVE  TypeOK' /\ SubmissionsWait'
  <2>1. PICK t \in Tabs : t = call[h].tab /\ tab[t].sending # None
    BY <1>0, <1>4 DEF InsertReport, SubmissionsWait
  <2>2. PICK sent : sent = tab[t].sending /\ sent \in Submission
    BY <2>1 DEF Tab
  <2>3. sent.guarantee \in Guarantees /\ sent.parts \in PartLists /\ TechOf[t] \in Techs
    BY <2>2 DEF Submission, Techs
  <2>4. PICK row \in ReportRow : row = NewReport(TechOf[t], sent.guarantee, sent.parts)
    BY <2>3, RowsTyped
  <2>5. report' = [report EXCEPT ![x] = row] /\ UNCHANGED <<request, back>>
    BY <1>4, <2>1, <2>2, <2>4 DEF InsertReport
  <2>6. PICK d : d = [tab[t] EXCEPT !.sending = None, !.filed = TRUE]
    OBVIOUS
  <2>7. d \in Tab
    BY <2>6 DEF Tab
  <2>8. tab' = [tab EXCEPT ![t] = d] /\ call' = [call EXCEPT ![h] = NoRow]
    BY <1>4, <2>1, <2>6 DEF InsertReport
  <2>9. \A g \in Handlers \ {h} : call[g].status = "file" => call[g].tab # t
    BY <1>4, <2>1 DEF InsertReport, TabsApart
  <2>10. SubmissionsWait'
    BY <1>0, <1>a, <2>7, <2>8, <2>9 DEF SubmissionsWait
  <2> QED BY <1>a, <2>5, <2>7, <2>8, <2>10
<1>5. ASSUME NEW h \in Handlers, NEW q \in Requests, NEW to \in RequestStatus,
             NEW who \in Reviewers \union {None}, ReadRequest(h, q, to, who)
      PROVE  TypeOK' /\ SubmissionsWait'
  <2>1. request[q] \in RequestRow
    BY <1>5 DEF ReadRequest, Live, NoRow, RowOf
  <2>2. PICK row \in RequestRow :
            row = [request[q] EXCEPT !.status = to, !.by = IF who = None THEN @ ELSE who]
    BY <2>1, RowsTyped
  <2>3. PICK c : c = [status |-> "request", id |-> q, row |-> row]
    OBVIOUS
  <2>4. c \in RowOf(Call) /\ c.status # "file"
    BY <2>3 DEF RowOf, Call
  <2>5. call' = [call EXCEPT ![h] = c] /\ UNCHANGED <<request, report, back, tab>>
    BY <1>5, <2>2, <2>3 DEF ReadRequest
  <2> QED BY <1>b, <2>4, <2>5
<1>6. ASSUME NEW h \in Handlers, NEW x \in Revisited, NEW to \in ReportStatus,
             NEW who \in Reviewers, ReadReport(h, x, to, who)
      PROVE  TypeOK' /\ SubmissionsWait'
  <2>1. x \in Reports /\ report[x] \in ReportRow
    BY <1>6, RepairConstants DEF ReadReport, Live, NoRow, RowOf
  <2>2. PICK row \in ReportRow : row = [report[x] EXCEPT !.status = to, !.by = who]
    BY <2>1, RowsTyped
  <2>3. PICK c : c = [status |-> "report", id |-> x, row |-> row]
    OBVIOUS
  <2>4. c \in RowOf(Call) /\ c.status # "file"
    BY <2>1, <2>3 DEF RowOf, Call
  <2>5. call' = [call EXCEPT ![h] = c] /\ UNCHANGED <<request, report, back, tab>>
    BY <1>6, <2>2, <2>3 DEF ReadReport
  <2> QED BY <1>b, <2>4, <2>5
<1>7. ASSUME NEW h \in Handlers, SaveRequest(h) PROVE TypeOK' /\ SubmissionsWait'
  <2>1. call[h].id \in Requests /\ call[h].row \in RowOf(RequestRow)
    BY <1>0, <1>7, <1>a DEF SaveRequest
  <2>2. /\ request' = [request EXCEPT ![call[h].id] = call[h].row]
        /\ call' = [call EXCEPT ![h] = NoRow] /\ UNCHANGED <<report, back, tab>>
    BY <1>7 DEF SaveRequest
  <2> QED BY <1>a, <1>b, <2>1, <2>2
<1>8. ASSUME NEW h \in Handlers, SaveReport(h) PROVE TypeOK' /\ SubmissionsWait'
  <2>1. call[h].id \in Reports /\ call[h].row \in RowOf(ReportRow)
    BY <1>0, <1>8, <1>a DEF SaveReport
  <2>2. /\ report' = [report EXCEPT ![call[h].id] = call[h].row]
        /\ back' = back \/ back' = back \union {call[h].id}
        /\ call' = [call EXCEPT ![h] = NoRow] /\ UNCHANGED <<request, tab>>
    BY <1>8 DEF SaveReport
  <2> QED BY <1>a, <1>b, <2>1, <2>2
<1>9. ASSUME NEW q \in Requests, NEW row \in RequestRow, request' = [request EXCEPT ![q] = row],
             UNCHANGED <<report, back, tab, call>>
      PROVE  TypeOK' /\ SubmissionsWait'
  BY <1>9, <1>a DEF SubmissionsWait
<1>10. ASSUME NEW q \in Requests, NEW tech \in Techs, CreateRequest(q, tech)
       PROVE  TypeOK' /\ SubmissionsWait'
  BY <1>9, <1>10, RowsTyped DEF CreateRequest
<1>11. ASSUME NEW q \in Requests, DeleteRequest(q) PROVE TypeOK' /\ SubmissionsWait'
  <2>1. request[q] \in RequestRow
    BY <1>11 DEF DeleteRequest, Live, NoRow, RowOf
  <2>2. PICK row \in RequestRow : row = [request[q] EXCEPT !.deleted = TRUE]
    BY <2>1, RowsTyped
  <2>3. request' = [request EXCEPT ![q] = row] /\ UNCHANGED <<report, back, tab, call>>
    BY <1>11, <2>2 DEF DeleteRequest
  <2> QED BY <1>9, <2>3
<1>11b. ASSUME NEW q \in Requests, RestoreRequest(q) PROVE TypeOK' /\ SubmissionsWait'
  <2>1. request[q] \in RequestRow
    BY <1>11b DEF RestoreRequest, RowOf
  <2>2. PICK row \in RequestRow : row = [request[q] EXCEPT !.deleted = FALSE]
    BY <2>1, RowsTyped
  <2>3. request' = [request EXCEPT ![q] = row] /\ UNCHANGED <<report, back, tab, call>>
    BY <1>11b, <2>2 DEF RestoreRequest
  <2> QED BY <1>9, <2>3
<1>12. ASSUME NEW x \in Reports, NEW row \in ReportRow, report' = [report EXCEPT ![x] = row],
              back' = back \/ back' = back \union {x}, UNCHANGED <<request, tab, call>>
       PROVE  TypeOK' /\ SubmissionsWait'
  BY <1>12, <1>a DEF SubmissionsWait
<1>13. ASSUME NEW x \in Revisited, DeleteReport(x) \/ RestoreReport(x)
       PROVE  TypeOK' /\ SubmissionsWait'
  <2>1. x \in Reports /\ report[x] \in ReportRow
    BY <1>13, RepairConstants DEF DeleteReport, RestoreReport, Live, NoRow, RowOf
  <2>2. PICK b \in BOOLEAN : /\ report' = [report EXCEPT ![x].deleted = b]
                             /\ back' = back \/ back' = back \union {x}
                             /\ UNCHANGED <<request, tab, call>>
    BY <1>13 DEF DeleteReport, RestoreReport
  <2>3. PICK row \in ReportRow : row = [report[x] EXCEPT !.deleted = b]
    BY <2>1, RowsTyped
  <2>4. report' = [report EXCEPT ![x] = row]
    BY <2>2, <2>3
  <2> QED BY <1>12, <2>1, <2>2, <2>4
<1>14. ASSUME NEW x \in Reports, NEW g \in Guarantees, OfficeReport(x, g)
       PROVE  TypeOK' /\ SubmissionsWait'
  <2>1. PICK row \in ReportRow : row = NewReport(None, g, <<>>)
    BY ListsOfParts, RowsTyped
  <2> QED BY <1>12, <1>14, <2>1 DEF OfficeReport
<1> QED
  BY <1>1, <1>2, <1>3, <1>4, <1>5, <1>6, <1>7, <1>8, <1>10, <1>11, <1>13, <1>14, <1>11b
     DEF Next, OfficeStep, Filing, vars

\* Rows, tabs and calls have the fields their tables and forms give them, and no
\* list of parts outgrows the lines there are to name, under any interleaving.
THEOREM TypeCorrect == Spec => []TypeOK
  BY ShapeInit, ShapeNext, RowsAsReadInit, RowsAsReadNext, TypedInit, TypedNext, PTL DEF Spec

-----------------------------------------------------------------------------
(* A part is fitted once.  Reports are filed one after the other, so what   *)
(* the check found free is still free when the insert runs, but for reports *)
(* that came back.                                                          *)

\* A submission past its check is there, and names no line that a report holds,
\* except one that came back.
CheckedStill(h) ==
    call[h].status = "file" =>
        /\ tab[call[h].tab].sending # None
        /\ \A q \in Names(tab[call[h].tab].sending.parts) : HeldBy(q) \subseteq back

Fitted == FittedOnce /\ \A h \in Handlers : CheckedStill(h)

\* A step that gives lines only to reports that came back.
HeldGrowsBack ==
    back \subseteq back' /\ \A q : (HeldBy(q))' \subseteq HeldBy(q) \union back'

\* Such a step keeps the invariant, if submissions under way are left alone.
LEMMA FittedKept ==
    ASSUME Shape, Fitted, HeldGrowsBack, UNCHANGED call,
           \A u \in Tabs : tab[u].sending # None => tab'[u].sending = tab[u].sending
    PROVE  Fitted'
<1>1. FittedOnce'
  BY DEF Fitted, FittedOnce, HeldGrowsBack
<1>2. ASSUME NEW h \in Handlers, call[h].status = "file" PROVE CheckedStill(h)'
  <2>1. call[h].tab \in Tabs /\ CheckedStill(h)
    BY <1>2 DEF Shape, CallShape, NoRow, Fitted
  <2> QED BY <1>2, <2>1 DEF CheckedStill, HeldGrowsBack
<1>3. ASSUME NEW h \in Handlers, call[h].status # "file" PROVE CheckedStill(h)'
  BY <1>3 DEF CheckedStill
<1> QED BY <1>1, <1>2, <1>3 DEF Fitted

\* The same, when one slot ends its call.
LEMMA FittedKeptAtEnd ==
    ASSUME Shape, Fitted, HeldGrowsBack, UNCHANGED tab,
           NEW h \in Handlers, NEW c, call' = [call EXCEPT ![h] = c], c.status # "file"
    PROVE  Fitted'
<1>1. FittedOnce'
  BY DEF Fitted, FittedOnce, HeldGrowsBack
<1>2. call'[h] = c /\ \A g \in Handlers \ {h} : call'[g] = call[g]
  BY DEF Shape
<1>3. ASSUME NEW g \in Handlers PROVE CheckedStill(g)'
  <2>1. CASE g = h
    BY <1>2, <2>1 DEF CheckedStill
  <2>2. CASE g # h
    BY <1>2, <2>2 DEF CheckedStill, HeldGrowsBack, Fitted
  <2> QED BY <2>1, <2>2
<1> QED BY <1>1, <1>3 DEF Fitted

\* Without a change to the reports no line changes hands.
LEMMA HeldUnchanged ==
    ASSUME UNCHANGED <<report, back>>
    PROVE  HeldGrowsBack
  BY DEF HeldGrowsBack, HeldBy, Standing, Live

\* No line is on a report at the start.
THEOREM FittedInit == Init => Fitted
<1> SUFFICES ASSUME Init PROVE Fitted
  OBVIOUS
<1>1. \A q : HeldBy(q) = {}
  BY NothingCalled DEF HeldBy, Standing, Live, NoRow
<1> QED BY <1>1, NothingCalled DEF Fitted, FittedOnce, CheckedStill

\* Filing, reviewing, deleting and restoring in any order.
THEOREM FittedNext ==
    ASSUME OneFiler
    PROVE  Shape /\ RowsAsRead /\ TabsApart /\ Fitted /\ [Next]_vars => Fitted'
<1> SUFFICES ASSUME Shape, RowsAsRead, TabsApart, Fitted, [Next]_vars
             PROVE  Fitted'
  OBVIOUS
<1>a. NoRow.status = "none"
  BY DEF NoRow
<1>b. \A x \in Reports : report[x] # NoRow => ReportFields \subseteq DOMAIN report[x]
  BY DEF Shape, ReportShape
\* A step of a page.
<1>1. ASSUME NEW t \in Tabs, PageStep(t) \/ LookUp(t) \/ Refetch(t) PROVE Fitted'
  <2>1. UNCHANGED <<report, back, call>> /\ TabMoves(t)
    BY <1>1, PageMoves
  <2> QED BY <2>1, TabsKept, HeldUnchanged, FittedKept
\* The check of a submission.
<1>2. ASSUME NEW t \in Tabs, NEW h \in Handlers, NEW ok \in BOOLEAN, CheckReport(h, t, ok)
      PROVE  Fitted'
  <2>1. UNCHANGED <<report, back>> /\ tab[t].sending # None
    BY <1>2 DEF CheckReport
  <2>2. FittedOnce' /\ \A q : (HeldBy(q))' = HeldBy(q)
    BY <2>1 DEF Fitted, FittedOnce, HeldBy, Standing, Live
  <2>3. CASE /\ \A q \in Names(tab[t].sending.parts) : MayFit(TechOf[t], q)
             /\ call' = [call EXCEPT ![h] = [status |-> "file", tab |-> t]] /\ UNCHANGED tab
    <3>1. call'[h] = [status |-> "file", tab |-> t] /\ \A g \in Handlers \ {h} : call'[g] = call[g]
      BY <2>3 DEF Shape
    <3>2. \A q \in Names(tab[t].sending.parts) : HeldBy(q) = {}
      BY <2>3 DEF MayFit
    <3>3. CheckedStill(h)'
      BY <2>1, <2>2, <2>3, <3>1, <3>2 DEF CheckedStill
    <3>4. ASSUME NEW g \in Handlers \ {h} PROVE CheckedStill(g)'
      BY <2>1, <2>2, <2>3, <3>1 DEF Fitted, CheckedStill
    <3> QED BY <2>2, <3>3, <3>4 DEF Fitted
  <2>4. CASE tab' = [tab EXCEPT ![t].sending = None] /\ UNCHANGED call
    <3>1. \A u \in Tabs \ {t} : tab'[u] = tab[u]
      BY <2>4 DEF Shape
    <3>2. ASSUME NEW g \in Handlers PROVE CheckedStill(g)'
      <4>1. call[g].status = "file" => call[g].tab \in Tabs \ {t}
        BY <1>2 DEF CheckReport, Shape, CallShape, NoRow
      <4> QED BY <2>1, <2>2, <2>4, <3>1, <4>1 DEF Fitted, CheckedStill
    <3> QED BY <2>2, <3>2 DEF Fitted
  <2> QED BY <1>2, <2>3, <2>4 DEF CheckReport
\* The insert.
<1>3. ASSUME NEW h \in Handlers, NEW x \in Reports, InsertReport(h, x) PROVE Fitted'
  <2> DEFINE parts == tab[call[h].tab].sending.parts
             row == NewReport(TechOf[call[h].tab], tab[call[h].tab].sending.guarantee, parts)
  <2>1. /\ report' = [report EXCEPT ![x] = row] /\ UNCHANGED back
        /\ call[h].status = "file" /\ call' = [call EXCEPT ![h] = NoRow]
    BY <1>3 DEF InsertReport
  <2>2. \A q \in Names(parts) : HeldBy(q) \subseteq back
    BY <2>1 DEF Fitted, CheckedStill
  <2>3. row.parts = parts
    BY DEF NewReport
  <2> HIDE DEF parts, row
  <2>4. \A q : /\ (HeldBy(q))' \subseteq HeldBy(q) \union {x}
               /\ q \notin Names(parts) => (HeldBy(q))' \subseteq HeldBy(q)
    BY <1>3, <2>1, <2>3, NextIsNew DEF HeldBy, Standing, Live, Shape, InsertReport
  <2>5. FittedOnce'
    <3> SUFFICES ASSUME NEW q \in Requests, NEW y \in (HeldBy(q))', NEW z \in (HeldBy(q))'
                 PROVE  y = z \/ {y, z} \intersect back # {}
      BY <2>1 DEF FittedOnce
    <3>1. CASE q \in Names(parts)
      BY <2>2, <2>4, <3>1
    <3>2. CASE q \notin Names(parts)
      BY <2>4, <3>2 DEF Fitted, FittedOnce
    <3> QED BY <3>1, <3>2
  <2>6. \A g \in Handlers : call'[g].status # "file"
    <3>1. \A g \in Handlers : call[g].status = "file" => "file" \in Serves[g]
      BY DEF Shape, CallShape, NoRow
    <3>2. \A g \in Handlers : call[g].status = "file" => g = h
      BY <2>1, <3>1 DEF OneFiler
    <3> QED BY <1>a, <2>1, <3>2 DEF Shape
  <2> QED BY <2>5, <2>6 DEF Fitted, CheckedStill
\* A review's save: it gives parts only to a report that had let them go.
<1>4. ASSUME NEW h \in Handlers, SaveReport(h) PROVE Fitted'
  <2> DEFINE id == call[h].id
             row == call[h].row
  <2>1. /\ report' = [report EXCEPT ![id] = row] /\ call' = [call EXCEPT ![h] = NoRow]
        /\ back' = IF Standing(id) THEN back ELSE back \union {id}
        /\ UNCHANGED tab
    BY <1>4 DEF SaveReport
  <2>2. id \in Reports /\ report[id] # NoRow /\ row.parts = report[id].parts
    BY <1>4 DEF SaveReport, RowsAsRead, RowAsRead, Shape, CallShape, NoRow
  <2> HIDE DEF id, row
  <2>3. HeldGrowsBack
    <3>1. back \subseteq back' /\ (Standing(id) \/ id \in back')
      BY <2>1
    <3>2. ASSUME NEW q, NEW y \in (HeldBy(q))', y # id PROVE y \in HeldBy(q)
      BY <2>1, <2>2, <3>2 DEF HeldBy, Standing, Live, Shape
    <3>3. ASSUME NEW q, id \in (HeldBy(q))', Standing(id) PROVE id \in HeldBy(q)
      BY <2>1, <2>2, <3>3 DEF HeldBy, Shape
    <3> QED BY <3>1, <3>2, <3>3 DEF HeldGrowsBack
  <2> QED BY <1>a, <2>1, <2>3, FittedKeptAtEnd
\* Into the bin and out of it.
<1>5. ASSUME NEW x \in Reports, NEW b \in BOOLEAN, report[x] # NoRow,
             report' = [report EXCEPT ![x].deleted = b], back \subseteq back', b \/ x \in back',
             UNCHANGED <<tab, call>>
      PROVE  Fitted'
  <2> DEFINE row == [report[x] EXCEPT !.deleted = b]
  <2>1. report' = [report EXCEPT ![x] = row]
    BY <1>5
  <2>2. row.parts = report[x].parts /\ row.deleted = b
    BY <1>5, <1>b DEF ReportFields
  <2> HIDE DEF row
  <2>3. HeldGrowsBack
    BY <1>5, <2>1, <2>2 DEF HeldGrowsBack, HeldBy, Standing, Live, Shape
  <2> QED BY <1>5, <2>3, FittedKept
<1>6. ASSUME NEW x \in Reports, DeleteReport(x) PROVE Fitted'
  <2>1. /\ report[x] # NoRow /\ report' = [report EXCEPT ![x].deleted = TRUE]
        /\ UNCHANGED <<back, tab, call>>
    BY <1>6 DEF DeleteReport, Live, NoRow
  <2> QED BY <1>5, <2>1
<1>7. ASSUME NEW x \in Reports, RestoreReport(x) PROVE Fitted'
  <2>1. /\ report[x] # NoRow /\ report' = [report EXCEPT ![x].deleted = FALSE]
        /\ back' = back \union {x} /\ UNCHANGED <<tab, call>>
    BY <1>7 DEF RestoreReport
  <2> QED BY <1>5, <2>1
\* A report of the office's names no delivered line.
<1>8. ASSUME NEW x \in Reports, NEW g \in Guarantees, OfficeReport(x, g) PROVE Fitted'
  <2> DEFINE row == NewReport(None, g, <<>>)
  <2>1. report' = [report EXCEPT ![x] = row] /\ UNCHANGED <<back, tab, call>>
    BY <1>8 DEF OfficeReport
  <2>2. \A q : q \notin Names(row.parts)
    BY DEF NewReport, Names
  <2> HIDE DEF row
  <2>3. HeldGrowsBack
    BY <2>1, <2>2 DEF HeldGrowsBack, HeldBy, Standing, Live, Shape
  <2> QED BY <2>1, <2>3, FittedKept
\* Requests.
<1>9. ASSUME NEW h \in Handlers, NEW c, call' = [call EXCEPT ![h] = c], c.status # "file",
             UNCHANGED <<report, back, tab>>
      PROVE  Fitted'
  BY <1>9, HeldUnchanged, FittedKeptAtEnd
<1>10. ASSUME NEW h \in Handlers, SaveRequest(h) PROVE Fitted'
  BY <1>a, <1>9, <1>10 DEF SaveRequest
<1>11. ASSUME NEW h \in Handlers, NEW q, NEW to, NEW who, ReadRequest(h, q, to, who)
       PROVE  Fitted'
  <2> DEFINE c == [status |-> "request", id |-> q,
                   row |-> [request[q] EXCEPT !.status = to,
                                              !.by = IF who = None THEN @ ELSE who]]
  <2>1. call' = [call EXCEPT ![h] = c] /\ c.status # "file" /\ UNCHANGED <<report, back, tab>>
    BY <1>11 DEF ReadRequest
  <2> HIDE DEF c
  <2> QED BY <1>9, <2>1
<1>12. ASSUME NEW h \in Handlers, NEW x, NEW to, NEW who, ReadReport(h, x, to, who)
       PROVE  Fitted'
  <2> DEFINE c == [status |-> "report", id |-> x,
                   row |-> [report[x] EXCEPT !.status = to, !.by = who]]
  <2>1. call' = [call EXCEPT ![h] = c] /\ c.status # "file" /\ UNCHANGED <<report, back, tab>>
    BY <1>12 DEF ReadReport
  <2> HIDE DEF c
  <2> QED BY <1>9, <2>1
<1>13. ASSUME UNCHANGED <<report, back, tab, call>> PROVE Fitted'
  BY <1>13, HeldUnchanged, FittedKept
<1>14. ASSUME NEW q \in Requests, \/ DeleteRequest(q) \/ RestoreRequest(q)
                                 \/ \E tech \in Techs : CreateRequest(q, tech)
       PROVE  Fitted'
  BY <1>13, <1>14 DEF DeleteRequest, RestoreRequest, CreateRequest
<1> QED
  BY <1>1, <1>2, <1>3, <1>4, <1>6, <1>7, <1>8, <1>10, <1>11, <1>12, <1>13, <1>14,
     RepairConstants DEF Next, OfficeStep, Filing, vars

\* "A physical part can only be fitted once": if reports are filed one after the
\* other, no two that stand name one delivered line, unless one came back, for
\* any number of requests, reports, tabs and reviewers at work together.
THEOREM FittedOnceHolds == ASSUME OneFiler PROVE Spec => []FittedOnce
<1>1. Init => Shape /\ RowsAsRead /\ TabsApart /\ Fitted
  BY ShapeInit, RowsAsReadInit, FittedInit
<1>2. Shape /\ RowsAsRead /\ TabsApart /\ Fitted /\ [Next]_vars
        => (Shape /\ RowsAsRead /\ TabsApart /\ Fitted)'
  BY ShapeNext, RowsAsReadNext, FittedNext
<1>3. Fitted => FittedOnce
  BY DEF Fitted
<1> QED BY <1>1, <1>2, <1>3, PTL DEF Spec

-----------------------------------------------------------------------------
(* Delivered parts stay delivered.  No transition leaves Delivered, so a    *)
(* save can only overwrite it with a row that was read before; with one     *)
(* desk moving the requests on there is no such row.                        *)

\* The line is there, delivered, and this technician's.
Settled(q, tech) ==
    q \in Requests /\ request[q].status = "Delivered" /\ request[q].tech = tech

\* What is about to be saved was read from a request that is still open.
ReadOpen(h) ==
    call[h].status = "request" =>
        request[call[h].id].status \in RequestStatus \ {"Delivered"}

\* The lines of a submission past its check are settled.
SentSettled(h) ==
    call[h].status = "file" =>
        /\ tab[call[h].tab].sending # None
        /\ \A q \in Names(tab[call[h].tab].sending.parts) : Settled(q, TechOf[call[h].tab])

\* The lines of every report are settled.
ReportSettled(x) ==
    report[x] # NoRow => \A q \in Names(report[x].parts) : Settled(q, report[x].tech)

Deliveries ==
    /\ \A h \in Handlers : ReadOpen(h) /\ SentSettled(h)
    /\ \A x \in Reports : ReportSettled(x)

\* A step that leaves settled lines settled.
SettledStays == \A q, tech : Settled(q, tech) => Settled(q, tech)'

\* No row is written at the start.
THEOREM DeliveriesInit == Init => Deliveries
  BY NothingCalled DEF Deliveries, ReadOpen, SentSettled, ReportSettled

\* A step that keeps status and technician of every request that is there.
RequestsKept ==
    \A q \in Requests : request[q] # NoRow =>
        /\ request'[q].status = request[q].status /\ request'[q].tech = request[q].tech

\* Only a save moves a request on.
LEMMA OnlySavesMove ==
    ASSUME Shape, [Next]_vars, \A h \in Handlers : ~SaveRequest(h)
    PROVE  RequestsKept
<1>1. CASE UNCHANGED request
  BY <1>1 DEF RequestsKept
<1>2. ASSUME NEW q \in Requests, NEW tech \in Techs, CreateRequest(q, tech) PROVE RequestsKept
  BY <1>2 DEF CreateRequest, RequestsKept, Shape
<1>3. ASSUME NEW q \in Requests, NEW gone \in BOOLEAN, request[q] # NoRow,
             request' = [request EXCEPT ![q].deleted = gone]
      PROVE  RequestsKept
  <2> DEFINE row == [request[q] EXCEPT !.deleted = gone]
  <2>1. request' = [request EXCEPT ![q] = row]
    BY <1>3
  <2>2. RequestFields \subseteq DOMAIN request[q]
    BY <1>3 DEF Shape, RequestShape
  <2>3. row.status = request[q].status /\ row.tech = request[q].tech
    BY <2>2 DEF RequestFields
  <2> HIDE DEF row
  <2> QED BY <2>1, <2>3 DEF RequestsKept, Shape
<1>3b. ASSUME NEW q \in Requests, DeleteRequest(q) \/ RestoreRequest(q) PROVE RequestsKept
  <2>1. CASE DeleteRequest(q)
    <3>1. request[q] # NoRow /\ request' = [request EXCEPT ![q].deleted = TRUE]
      BY <2>1 DEF DeleteRequest, Live, NoRow
    <3> QED BY <1>3, <3>1
  <2>2. CASE RestoreRequest(q)
    BY <1>3, <2>2 DEF RestoreRequest
  <2> QED BY <1>3b, <2>1, <2>2
<1>4. ASSUME NEW t \in Tabs, PageStep(t) \/ LookUp(t) \/ Refetch(t) PROVE UNCHANGED request
  BY <1>4, PageMoves
<1>5. ASSUME NEW t \in Tabs, Filing(t) PROVE UNCHANGED request
  BY <1>5 DEF Filing, CheckReport, InsertReport
<1>6. ASSUME \/ \E h \in Handlers :
                   \/ SaveReport(h)
                   \/ \E q \in Requests, to \in RequestStatus, who \in Reviewers \union {None} :
                         ReadRequest(h, q, to, who)
                   \/ \E x \in Revisited, to \in ReportStatus, who \in Reviewers :
                         ReadReport(h, x, to, who)
             \/ \E x \in Revisited : DeleteReport(x) \/ RestoreReport(x)
             \/ \E x \in Reports, g \in Guarantees : OfficeReport(x, g)
      PROVE  UNCHANGED request
  BY <1>6 DEF SaveReport, ReadRequest, ReadReport, DeleteReport, RestoreReport, OfficeReport
<1> QED
  BY <1>1, <1>2, <1>4, <1>5, <1>6, <1>3b DEF Next, OfficeStep, vars

\* No step unsettles a line.
LEMMA NextKeepsSettled ==
    ASSUME Shape, Deliveries, [Next]_vars
    PROVE  SettledStays
<1>1. ASSUME NEW h \in Handlers, SaveRequest(h) PROVE SettledStays
  <2>1. call[h].id \in Requests /\ request[call[h].id].status # "Delivered"
    BY <1>1 DEF SaveRequest, Deliveries, ReadOpen, Shape, CallShape, NoRow
  <2> QED BY <1>1, <2>1 DEF SaveRequest, SettledStays, Settled, Shape
<1>2. CASE RequestsKept
  BY <1>2 DEF RequestsKept, SettledStays, Settled, NoRow
<1> QED BY <1>1, <1>2, OnlySavesMove

\* Requests under way were read open, as long as one desk moves them on.
LEMMA ReadOpenKept ==
    ASSUME OneDesk, Shape, Deliveries, [Next]_vars
    PROVE  \A h \in Handlers : ReadOpen(h)'
<1>0. NoRow.status = "none" /\ \A h \in Handlers :
          call[h].status = "request" =>
              call[h].id \in Requests /\ Serves[h] \intersect {"status", "withdraw"} # {}
  BY DEF Shape, CallShape, NoRow
<1>1. ASSUME NEW h \in Handlers, SaveRequest(h) PROVE \A g \in Handlers : ReadOpen(g)'
  <2>1. \A g \in Handlers : call[g].status = "request" => g = h
    BY <1>0, <1>1 DEF SaveRequest, OneDesk
  <2>2. \A g \in Handlers : call'[g].status # "request"
    BY <1>0, <1>1, <2>1 DEF SaveRequest, Shape
  <2> QED BY <2>2 DEF ReadOpen
<1>2. ASSUME NEW h \in Handlers, NEW q \in Requests, NEW to \in RequestStatus, NEW who,
             ReadRequest(h, q, to, who)
      PROVE  \A g \in Handlers : ReadOpen(g)'
  <2> DEFINE c == [status |-> "request", id |-> q,
                   row |-> [request[q] EXCEPT !.status = to,
                                              !.by = IF who = None THEN @ ELSE who]]
  <2>1. call' = [call EXCEPT ![h] = c] /\ c.id = q /\ UNCHANGED request
    BY <1>2 DEF ReadRequest
  <2>2. request[q].status \in RequestStatus
    BY <1>2 DEF ReadRequest, Live, NoRow, Shape, RequestShape
  <2>3. request[q].status # "Delivered"
    BY <1>2 DEF ReadRequest, NextStatus
  <2> HIDE DEF c
  <2> QED BY <2>1, <2>2, <2>3 DEF Shape, Deliveries, ReadOpen
<1>3. ASSUME \A h \in Handlers : ~SaveRequest(h),
             \A h \in Handlers : call'[h].status = "request" =>
                 call[h].status = "request" /\ call'[h].id = call[h].id
      PROVE  \A g \in Handlers : ReadOpen(g)'
  <2>1. RequestsKept
    BY <1>3, OnlySavesMove
  <2>2. \A h \in Handlers : call[h].status = "request" => request[call[h].id] # NoRow
    BY DEF Deliveries, ReadOpen, NoRow, RequestStatus
  <2> QED BY <1>0, <1>3, <2>1, <2>2 DEF RequestsKept, Deliveries, ReadOpen
<1>4. ASSUME NEW h \in Handlers, NEW c, call' = [call EXCEPT ![h] = c], c.status # "request"
      PROVE  \A g \in Handlers : call'[g].status = "request" =>
                 call[g].status = "request" /\ call'[g].id = call[g].id
  BY <1>4 DEF Shape
<1>5. ASSUME NEW h \in Handlers, SaveReport(h) \/ \E x \in Reports : InsertReport(h, x)
      PROVE  call' = [call EXCEPT ![h] = NoRow]
  BY <1>5 DEF SaveReport, InsertReport
<1>6. ASSUME NEW t \in Tabs, NEW h \in Handlers, NEW ok \in BOOLEAN, CheckReport(h, t, ok)
      PROVE  \E c : (call' = [call EXCEPT ![h] = c] \/ UNCHANGED call) /\ c.status # "request"
  <2>1. [status |-> "file", tab |-> t].status # "request"
    OBVIOUS
  <2> QED BY <1>6, <2>1 DEF CheckReport
<1>7. ASSUME NEW h \in Handlers, NEW x, NEW to, NEW who, ReadReport(h, x, to, who)
      PROVE  \E c : call' = [call EXCEPT ![h] = c] /\ c.status # "request"
  <2> DEFINE c == [status |-> "report", id |-> x,
                   row |-> [report[x] EXCEPT !.status = to, !.by = who]]
  <2>1. call' = [call EXCEPT ![h] = c] /\ c.status # "request"
    BY <1>7 DEF ReadReport
  <2> HIDE DEF c
  <2> QED BY <2>1
<1>8. ASSUME NEW t \in Tabs, PageStep(t) \/ LookUp(t) \/ Refetch(t) PROVE UNCHANGED call
  BY <1>8, PageMoves
<1>9. ASSUME \/ \E q \in Requests : \/ DeleteRequest(q) \/ RestoreRequest(q)
                                   \/ \E tech \in Techs : CreateRequest(q, tech)
             \/ \E x \in Revisited : DeleteReport(x) \/ RestoreReport(x)
             \/ \E x \in Reports, g \in Guarantees : OfficeReport(x, g)
      PROVE  UNCHANGED call
  BY <1>9 DEF DeleteRequest, RestoreRequest, CreateRequest, DeleteReport, RestoreReport, OfficeReport
<1>10. CASE \E h \in Handlers : SaveRequest(h)
  BY <1>1, <1>10
<1>11. CASE \E h \in Handlers, q \in Requests, to \in RequestStatus, who \in Reviewers \union {None} :
              ReadRequest(h, q, to, who)
  BY <1>2, <1>11
<1>12. CASE /\ \A h \in Handlers : ~SaveRequest(h)
            /\ \/ UNCHANGED call
               \/ \E h \in Handlers : \E c : call' = [call EXCEPT ![h] = c] /\ c.status # "request"
  BY <1>3, <1>4, <1>12
<1> QED
  BY <1>0, <1>5, <1>6, <1>7, <1>8, <1>9, <1>10, <1>11, <1>12, RepairConstants
     DEF Next, OfficeStep, Filing, vars

\* A submission past its check stays as it was checked until it is answered.
LEMMA SentSettledKept ==
    ASSUME Shape, TabsApart, Deliveries, SettledStays, [Next]_vars
    PROVE  \A h \in Handlers : SentSettled(h)'
<1>0. NoRow.status = "none" /\ \A h \in Handlers : call[h].status = "file" => call[h].tab \in Tabs
  BY DEF Shape, CallShape, NoRow
<1>1. ASSUME \A g \in Handlers : call'[g].status = "file" =>
                 call[g].status = "file" /\ call'[g].tab = call[g].tab,
             \A g \in Handlers : call'[g].status = "file" =>
                 (tab[call[g].tab].sending # None =>
                      tab'[call[g].tab].sending = tab[call[g].tab].sending)
      PROVE  \A g \in Handlers : SentSettled(g)'
  BY <1>1 DEF Deliveries, SentSettled, SettledStays
<1>2. ASSUME NEW t \in Tabs, PageStep(t) \/ LookUp(t) \/ Refetch(t)
      PROVE  \A g \in Handlers : SentSettled(g)'
  <2>1. UNCHANGED call /\ \A u \in Tabs : tab[u].sending # None => tab'[u].sending = tab[u].sending
    BY <1>2, PageMoves, TabsKept
  <2> QED BY <1>0, <1>1, <2>1
<1>3. ASSUME NEW t \in Tabs, NEW h \in Handlers, NEW ok \in BOOLEAN, CheckReport(h, t, ok)
      PROVE  \A g \in Handlers : SentSettled(g)'
  <2>1. CASE /\ \A q \in Names(tab[t].sending.parts) : MayFit(TechOf[t], q)
             /\ call' = [call EXCEPT ![h] = [status |-> "file", tab |-> t]] /\ UNCHANGED tab
    <3>1. call'[h] = [status |-> "file", tab |-> t] /\ \A g \in Handlers \ {h} : call'[g] = call[g]
      BY <2>1 DEF Shape
    <3>2. \A q \in Names(tab[t].sending.parts) : Settled(q, TechOf[t])
      BY <2>1 DEF MayFit, Settled
    <3>3. tab[t].sending # None
      BY <1>3 DEF CheckReport
    <3>4. SentSettled(h)'
      BY <2>1, <3>1, <3>2, <3>3 DEF SentSettled, SettledStays
    <3>5. ASSUME NEW g \in Handlers \ {h} PROVE SentSettled(g)'
      BY <2>1, <3>1 DEF Deliveries, SentSettled, SettledStays
    <3> QED BY <3>4, <3>5
  <2>2. CASE tab' = [tab EXCEPT ![t].sending = None] /\ UNCHANGED call
    <3>1. \A u \in Tabs \ {t} : tab'[u] = tab[u]
      BY <2>2 DEF Shape
    <3>2. \A g \in Handlers : call[g].status = "file" => call[g].tab \in Tabs \ {t}
      BY <1>0, <1>3 DEF CheckReport
    <3> QED BY <1>1, <2>2, <3>1, <3>2
  <2> QED BY <1>3, <2>1, <2>2 DEF CheckReport
<1>4. ASSUME NEW h \in Handlers, NEW x \in Reports, InsertReport(h, x)
      PROVE  \A g \in Handlers : SentSettled(g)'
  <2>1. /\ call[h].status = "file" /\ call' = [call EXCEPT ![h] = NoRow]
        /\ \E d : tab' = [tab EXCEPT ![call[h].tab] = d]
    BY <1>4 DEF InsertReport
  <2>2. \A u \in Tabs \ {call[h].tab} : tab'[u] = tab[u]
    BY <2>1 DEF Shape
  <2>3. \A g \in Handlers : call'[g].status = "file" => g # h /\ call'[g] = call[g]
    BY <1>0, <2>1 DEF Shape
  <2>4. \A g \in Handlers : call'[g].status = "file" => call[g].tab \in Tabs \ {call[h].tab}
    BY <1>0, <2>1, <2>3 DEF TabsApart
  <2> QED BY <1>1, <2>2, <2>3, <2>4
<1>5. ASSUME NEW h \in Handlers, NEW c, call' = [call EXCEPT ![h] = c], c.status # "file",
             UNCHANGED tab
      PROVE  \A g \in Handlers : SentSettled(g)'
  BY <1>1, <1>5 DEF Shape
<1>6. ASSUME NEW h \in Handlers, SaveReport(h) \/ SaveRequest(h)
      PROVE  call' = [call EXCEPT ![h] = NoRow] /\ UNCHANGED tab
  BY <1>6 DEF SaveReport, SaveRequest
<1>7. ASSUME NEW h \in Handlers, NEW q, NEW to, NEW who, ReadRequest(h, q, to, who)
      PROVE  \E c : call' = [call EXCEPT ![h] = c] /\ c.status # "file" /\ UNCHANGED tab
  <2> DEFINE c == [status |-> "request", id |-> q,
                   row |-> [request[q] EXCEPT !.status = to,
                                              !.by = IF who = None THEN @ ELSE who]]
  <2>1. call' = [call EXCEPT ![h] = c] /\ c.status # "file" /\ UNCHANGED tab
    BY <1>7 DEF ReadRequest
  <2> HIDE DEF c
  <2> QED BY <2>1
<1>8. ASSUME NEW h \in Handlers, NEW x, NEW to, NEW who, ReadReport(h, x, to, who)
      PROVE  \E c : call' = [call EXCEPT ![h] = c] /\ c.status # "file" /\ UNCHANGED tab
  <2> DEFINE c == [status |-> "report", id |-> x,
                   row |-> [report[x] EXCEPT !.status = to, !.by = who]]
  <2>1. call' = [call EXCEPT ![h] = c] /\ c.status # "file" /\ UNCHANGED tab
    BY <1>8 DEF ReadReport
  <2> HIDE DEF c
  <2> QED BY <2>1
<1>9. ASSUME \/ \E q \in Requests : \/ DeleteRequest(q) \/ RestoreRequest(q)
                                   \/ \E tech \in Techs : CreateRequest(q, tech)
             \/ \E x \in Revisited : DeleteReport(x) \/ RestoreReport(x)
             \/ \E x \in Reports, g \in Guarantees : OfficeReport(x, g)
      PROVE  UNCHANGED <<tab, call>>
  BY <1>9 DEF DeleteRequest, RestoreRequest, CreateRequest, DeleteReport, RestoreReport, OfficeReport
<1>10. CASE UNCHANGED <<tab, call>>
  BY <1>1, <1>10
<1> QED
  BY <1>0, <1>2, <1>3, <1>4, <1>5, <1>6, <1>7, <1>8, <1>9, <1>10 DEF Next, OfficeStep, Filing, vars

\* A report that is filed names only settled lines, and lines stay settled.
LEMMA ReportSettledKept ==
    ASSUME Shape, RowsAsRead, Deliveries, SettledStays, [Next]_vars
    PROVE  \A x \in Reports : ReportSettled(x)'
<1>0. ReportsKept
  BY NextKeepsReports
<1>1. ASSUME NEW x \in Reports, report[x] # NoRow PROVE ReportSettled(x)'
  BY <1>0, <1>1 DEF ReportsKept, Deliveries, ReportSettled, SettledStays
<1>2. ASSUME NEW h \in Handlers, NEW x \in Reports, InsertReport(h, x)
      PROVE  \A y \in Reports : report[y] = NoRow => ReportSettled(y)'
  <2> DEFINE t == call[h].tab
             row == NewReport(TechOf[t], tab[t].sending.guarantee, tab[t].sending.parts)
  <2>1. /\ report' = [report EXCEPT ![x] = row] /\ call[h].status = "file"
    BY <1>2 DEF InsertReport
  <2>2. \A q \in Names(tab[t].sending.parts) : Settled(q, TechOf[t])
    BY <2>1 DEF Deliveries, SentSettled
  <2>3. row.parts = tab[t].sending.parts /\ row.tech = TechOf[t]
    BY DEF NewReport
  <2> HIDE DEF row, t
  <2>4. ReportSettled(x)'
    BY <2>1, <2>2, <2>3 DEF ReportSettled, SettledStays, Shape
  <2>5. ASSUME NEW y \in Reports \ {x}, report[y] = NoRow PROVE ReportSettled(y)'
    BY <2>1, <2>5 DEF ReportSettled, Shape
  <2> QED BY <2>4, <2>5
<1>3. ASSUME NEW x \in Reports, NEW g \in Guarantees, OfficeReport(x, g)
      PROVE  \A y \in Reports : report[y] = NoRow => ReportSettled(y)'
  <2> DEFINE row == NewReport(None, g, <<>>)
  <2>1. report' = [report EXCEPT ![x] = row]
    BY <1>3 DEF OfficeReport
  <2>2. \A q : q \notin Names(row.parts)
    BY DEF NewReport, Names
  <2> HIDE DEF row
  <2> QED BY <2>1, <2>2 DEF ReportSettled, Shape
<1>4. ASSUME \A x \in Reports : report[x] = NoRow => report'[x] = NoRow
      PROVE  \A y \in Reports : report[y] = NoRow => ReportSettled(y)'
  BY <1>4 DEF ReportSettled
<1>5. ASSUME NEW h \in Handlers, SaveReport(h)
      PROVE  \A x \in Reports : report[x] = NoRow => report'[x] = NoRow
  <2>1. call[h].id \in Reports /\ report[call[h].id] # NoRow
    BY <1>5 DEF SaveReport, RowsAsRead, RowAsRead, Shape, CallShape, NoRow
  <2> QED BY <1>5, <2>1 DEF SaveReport, Shape
<1>6. ASSUME NEW x \in Reports, DeleteReport(x) \/ RestoreReport(x)
      PROVE  \A y \in Reports : report[y] = NoRow => report'[y] = NoRow
  <2>1. report[x] # NoRow /\ \E row : report' = [report EXCEPT ![x] = row]
    BY <1>6 DEF DeleteReport, RestoreReport, Live, NoRow
  <2> QED BY <2>1 DEF Shape
<1>7. ASSUME NEW t \in Tabs, PageStep(t) \/ LookUp(t) \/ Refetch(t) PROVE UNCHANGED report
  BY <1>7, PageMoves
<1>8. ASSUME NEW t \in Tabs, NEW h \in Handlers, NEW ok \in BOOLEAN, CheckReport(h, t, ok)
      PROVE  UNCHANGED report
  BY <1>8 DEF CheckReport
<1>9. ASSUME \/ \E h \in Handlers :
                   \/ SaveRequest(h)
                   \/ \E q \in Requests, to \in RequestStatus, who \in Reviewers \union {None} :
                         ReadRequest(h, q, to, who)
                   \/ \E x \in Revisited, to \in ReportStatus, who \in Reviewers :
                         ReadReport(h, x, to, who)
             \/ \E q \in Requests : \/ DeleteRequest(q) \/ RestoreRequest(q)
                                   \/ \E tech \in Techs : CreateRequest(q, tech)
      PROVE  UNCHANGED report
  BY <1>9 DEF SaveRequest, ReadRequest, ReadReport, DeleteRequest, RestoreRequest, CreateRequest
<1>10. ASSUME UNCHANGED report
       PROVE  \A y \in Reports : report[y] = NoRow => ReportSettled(y)'
  BY <1>4, <1>10
<1>11. \A y \in Reports : report[y] = NoRow => ReportSettled(y)'
  BY <1>2, <1>3, <1>4, <1>5, <1>6, <1>7, <1>8, <1>9, <1>10, RepairConstants
     DEF Next, OfficeStep, Filing, vars
<1> QED BY <1>1, <1>11

\* Submissions and reports name delivered lines only, from step to step.
THEOREM DeliveriesNext ==
    ASSUME OneDesk
    PROVE  Shape /\ RowsAsRead /\ TabsApart /\ Deliveries /\ [Next]_vars => Deliveries'
  BY NextKeepsSettled, ReadOpenKept, SentSettledKept, ReportSettledKept DEF Deliveries

\* "That line must belong to this technician, have reached Delivered": while one
\* desk moves requests on, the lines of every report that stands are delivered and
\* its technician's, for any number of reports filed and reviewed together.
THEOREM DeliveredBacksReportHolds == ASSUME OneDesk PROVE Spec => []DeliveredBacksReport
<1>1. Init => Shape /\ RowsAsRead /\ TabsApart /\ Deliveries
  BY ShapeInit, RowsAsReadInit, DeliveriesInit
<1>2. Shape /\ RowsAsRead /\ TabsApart /\ Deliveries /\ [Next]_vars
        => (Shape /\ RowsAsRead /\ TabsApart /\ Deliveries)'
  BY ShapeNext, RowsAsReadNext, DeliveriesNext
<1>3. Deliveries => DeliveredBacksReport
  BY DEF Deliveries, ReportSettled, Settled, DeliveredBacksReport, Standing, Live, NoRow
<1> QED BY <1>1, <1>2, <1>3, PTL DEF Spec
=============================================================================
