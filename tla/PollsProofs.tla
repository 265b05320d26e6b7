----------------------------- MODULE PollsProofs -----------------------------
(***************************************************************************)
(* What holds of Polls for any number of customers, links, questions,      *)
(* editions, handlers and batch sizes, and under any interleaving.         *)
(***************************************************************************)
EXTENDS Polls, FiniteSetTheorems, TLAPS

-----------------------------------------------------------------------------
(* The shapes of what is in flight.                                         *)

PollRow == [status : PollStatus, deleted : BOOLEAN]
Editions == 1..MaxEditions
Recipient == [sms : SMSStatus, responded : BOOLEAN]

BuildCall == [kind : {"build"}, batch : SUBSET Customers]
SendCall == [kind : {"send"}, queue : SUBSET Reachable, chosen : BOOLEAN,
             texting : Customers \union {None}, whileOpen : BOOLEAN]
SaveCall == [kind : {"update", "close"}, row : PollRow, replace : BOOLEAN,
             whileOpen : BOOLEAN]
DeleteCall == [kind : {"delete"}]
Calls == {NoCall} \union BuildCall \union SendCall \union SaveCall \union DeleteCall

OpenPage == [state : {"open"}, edition : Editions]
CheckedPage == [state : {"checked"}, edition : Editions, given : SUBSET Slots]
FiledPage == [state : {"filed"}, edition : Editions]
Pages == {NoPage} \union OpenPage \union CheckedPage \union FiledPage

\* A batch texts people who are invited and set out on a poll that was not
\* closed; what an edit saves has the status it found, what a close saves is
\* closed.
CallOK(c, invited) ==
    /\ c.kind = "send" => /\ c.queue \subseteq invited
                          /\ c.texting \in c.queue \union {None}
                          /\ c.whileOpen
    /\ c.kind = "update" => (c.whileOpen <=> c.row.status # "Closed")
    /\ c.kind = "close" => c.row.status = "Closed"

\* A form that is open is of somebody invited, and one whose checks are through
\* has what is required.
PageOK(p, c, invited) ==
    /\ p.state \in {"open", "checked", "filed"} => c \in invited
    /\ p.state = "checked" => Required \subseteq p.given

Rows ==
    /\ poll \in PollRow
    /\ edition \in Editions
    /\ recipient \in [Customers -> {Absent} \union Recipient]
    /\ PendingOf \subseteq Reachable
    /\ answers \in [Customers -> SUBSET (Editions \X Slots)]
    /\ desk \in PollStatus
    /\ filed \in [Customers -> SUBSET Links]
    /\ again \subseteq Customers /\ orphaned \subseteq Customers

InFlight ==
    /\ call \in [Handlers -> Calls]
    /\ \A h \in Handlers : CallOK(call[h], Invited)

Browsers ==
    /\ page \in [Links -> Pages]
    /\ \A l \in Links : PageOK(page[l], LinkOf[l], Invited)

Shape == Rows /\ InFlight /\ Browsers

-----------------------------------------------------------------------------
(* The parts of Shape from one step to the next.                            *)

\* Every call of the office is a record of one of four forms.
LEMMA CallKinds ==
    ASSUME NEW c \in Calls
    PROVE  /\ c.kind = "none" => c = NoCall
           /\ c.kind = "build" => c \in BuildCall
           /\ c.kind = "send" => c \in SendCall
           /\ c.kind \in {"update", "close"} => c \in SaveCall
           /\ c.kind = "delete" => c \in DeleteCall
           /\ c.kind \in Kinds \union {"none"}
  BY DEF Calls, NoCall, BuildCall, SendCall, SaveCall, DeleteCall, Kinds

\* The three states of a customer's page.
LEMMA PageStates ==
    ASSUME NEW p \in Pages
    PROVE  /\ p.state = "open" => p \in OpenPage
           /\ p.state = "checked" => p \in CheckedPage
           /\ p.state = "filed" => p \in FiledPage
           /\ p.state \in {"none", "open", "checked", "filed"}
  BY DEF Pages, NoPage, OpenPage, CheckedPage, FiledPage

\* Nobody's invitation is withdrawn, so what waits for the invited goes on.
LEMMA InFlightStays ==
    ASSUME InFlight, call' = call, Invited \subseteq Invited'
    PROVE  InFlight'
  BY DEF InFlight, CallOK

\* One slot's call changes, and the others keep waiting for the invited.
LEMMA InFlightChanges ==
    ASSUME InFlight, NEW h \in Handlers, NEW c \in Calls, call' = [call EXCEPT ![h] = c],
           Invited \subseteq Invited', CallOK(c, Invited')
    PROVE  InFlight'
<1>1. call' \in [Handlers -> Calls]
  BY DEF InFlight
<1>2. ASSUME NEW g \in Handlers PROVE CallOK(call'[g], Invited')
  <2>1. CASE g = h
    BY <2>1 DEF InFlight
  <2>2. CASE g # h
    BY <2>2 DEF InFlight, CallOK
  <2> QED BY <2>1, <2>2
<1> QED BY <1>1, <1>2 DEF InFlight

\* A call that is through leaves an empty slot.
LEMMA ThroughLeaves ==
    ASSUME InFlight, NEW h \in Handlers, Through(h), Invited \subseteq Invited'
    PROVE  InFlight'
<1>1. NoCall \in Calls /\ CallOK(NoCall, Invited')
  BY DEF Calls, CallOK, NoCall
<1> QED BY <1>1, InFlightChanges DEF Through

\* As long as no invitation is withdrawn, open pages stay as they are.
LEMMA BrowsersStay ==
    ASSUME Browsers, page' = page, Invited \subseteq Invited'
    PROVE  Browsers'
  BY DEF Browsers, PageOK

\* One browser's page changes, the others stay.
LEMMA BrowserChanges ==
    ASSUME Browsers, NEW l \in Links, NEW p \in Pages, page' = [page EXCEPT ![l] = p],
           Invited \subseteq Invited', PageOK(p, LinkOf[l], Invited')
    PROVE  Browsers'
<1>1. page' \in [Links -> Pages]
  BY DEF Browsers
<1>2. ASSUME NEW k \in Links PROVE PageOK(page'[k], LinkOf[k], Invited')
  <2>1. CASE k = l
    BY <2>1 DEF Browsers
  <2>2. CASE k # l
    BY <2>2 DEF Browsers, PageOK
  <2> QED BY <2>1, <2>2
<1> QED BY <1>1, <1>2 DEF Browsers

\* A request that sets out: the rows stay, the call is new.
LEMMA SetsOut ==
    ASSUME Shape, NEW h \in Handlers, NEW c \in Calls, Request(h, c), CallOK(c, Invited),
           UNCHANGED <<poll, edition, recipient, orphaned, public>>, again' \subseteq Customers
    PROVE  Shape'
<1>1. Rows'
  BY DEF Shape, Rows, Request, public, PendingOf
<1>2. Invited' = Invited
  BY DEF Invited
<1>3. InFlight'
  BY <1>2, InFlightChanges DEF Shape, Request
<1>4. Browsers'
  BY <1>2, BrowsersStay DEF Shape, public
<1> QED BY <1>1, <1>3, <1>4 DEF Shape

\* A request that ends without touching a recipient.
LEMMA Ends ==
    ASSUME Shape, NEW h \in Handlers, Through(h), Rows', UNCHANGED <<recipient, page>>
    PROVE  Shape'
<1>1. Invited' = Invited
  BY DEF Invited
<1>2. InFlight'
  BY <1>1, ThroughLeaves DEF Shape
<1>3. Browsers'
  BY <1>1, BrowsersStay DEF Shape
<1> QED BY <1>2, <1>3 DEF Shape

\* The server starts with well-formed rows, no request and no page.
THEOREM ShapeInit == Init => Shape
<1> SUFFICES ASSUME Init PROVE Shape
  OBVIOUS
<1>1. Rows
  BY PollConstants DEF Init, Rows, PollRow, PollStatus, Editions, Absent, PendingOf
<1>2. InFlight
  BY DEF Init, InFlight, Calls, CallOK, NoCall
<1>3. Browsers
  BY DEF Init, Browsers, Pages, PageOK, NoPage
<1> QED BY <1>1, <1>2, <1>3 DEF Shape

\* Every step of office, server or customer keeps the form of rows, requests
\* and pages.
THEOREM ShapeNext == Shape /\ [Next]_vars => Shape'
<1> SUFFICES ASSUME Shape, [Next]_vars PROVE Shape'
  OBVIOUS
<1>1. CASE UNCHANGED vars
  <2>1. Rows'
    BY <1>1 DEF vars, Shape, Rows, PendingOf
  <2>2. Invited' = Invited
    BY <1>1 DEF vars, Invited
  <2>3. InFlight' /\ Browsers'
    BY <1>1, <2>2, InFlightStays, BrowsersStay DEF vars, Shape
  <2> QED BY <2>1, <2>3 DEF Shape
<1>2. ASSUME NEW h \in Handlers, NEW matching \in SUBSET Customers, BuildAudience(h, matching)
      PROVE  Shape'
  <2> DEFINE c == [kind |-> "build", batch |-> matching \ Invited]
  <2>1. c \in Calls /\ CallOK(c, Invited)
    BY DEF Calls, BuildCall, CallOK
  <2> HIDE DEF c
  <2>2. Request(h, c) /\ UNCHANGED <<poll, edition, recipient, orphaned, public>> /\ again' \subseteq Customers
    BY <1>2 DEF BuildAudience, Shape, Rows, c
  <2> QED BY <2>1, <2>2, SetsOut
<1>3. ASSUME NEW h \in Handlers, NEW chosen \in SUBSET Customers, NEW queue \in SUBSET Customers,
             Send(h, chosen, queue)
      PROVE  Shape'
  <2> DEFINE c == [kind |-> "send", queue |-> queue, chosen |-> chosen # {},
                   texting |-> None, whileOpen |-> poll.status # "Closed"]
  <2>1. queue \subseteq PendingOf /\ poll.status # "Closed"
    BY <1>3 DEF Send
  <2>2. queue \subseteq Invited /\ queue \subseteq Reachable
    BY <2>1 DEF Shape, Rows, PendingOf, Invited, Absent
  <2>3. poll.status \in PollStatus
    BY DEF Shape, Rows, PollRow
  <2>4. c \in Calls /\ CallOK(c, Invited)
    BY <2>1, <2>2, <2>3 DEF Calls, SendCall, CallOK
  <2>5. again' \subseteq Customers
    <3>1. again' = again \union UNION {queue \intersect Queued(g) : g \in Handlers}
      BY <1>3 DEF Send
    <3> QED BY <3>1 DEF Shape, Rows
  <2> HIDE DEF c
  <2>6. Request(h, c) /\ UNCHANGED <<poll, edition, recipient, orphaned, public>>
    BY <1>3 DEF Send, c
  <2> QED BY <2>4, <2>5, <2>6, SetsOut
<1>4. ASSUME NEW h \in Handlers, Update(h) PROVE Shape'
  <2> DEFINE c == RowCall("update", poll, canEdit)
  <2>1. poll \in PollRow /\ poll.status \in PollStatus
    BY DEF Shape, Rows, PollRow
  <2>2. c \in Calls /\ CallOK(c, Invited)
    BY <2>1 DEF Calls, SaveCall, CallOK, RowCall, canEdit
  <2> HIDE DEF c
  <2>3. Request(h, c) /\ UNCHANGED <<poll, edition, recipient, orphaned, public>> /\ again' \subseteq Customers
    BY <1>4 DEF Update, Shape, Rows, c
  <2> QED BY <2>2, <2>3, SetsOut
<1>5. ASSUME NEW h \in Handlers, Close(h) PROVE Shape'
  <2> DEFINE c == RowCall("close", [poll EXCEPT !.status = "Closed"], FALSE)
  <2>1. /\ [poll EXCEPT !.status = "Closed"] \in PollRow
        /\ [poll EXCEPT !.status = "Closed"].status = "Closed"
        /\ poll.status \in PollStatus
    BY DEF Shape, Rows, PollRow, PollStatus
  <2>2. c \in Calls /\ CallOK(c, Invited)
    BY <2>1 DEF Calls, SaveCall, CallOK, RowCall
  <2> HIDE DEF c
  <2>3. Request(h, c) /\ UNCHANGED <<poll, edition, recipient, orphaned, public>> /\ again' \subseteq Customers
    BY <1>5 DEF Close, Shape, Rows, c
  <2> QED BY <2>2, <2>3, SetsOut
<1>6. ASSUME NEW h \in Handlers, Delete(h) PROVE Shape'
  <2> DEFINE c == [kind |-> "delete"]
  <2>1. c \in Calls /\ CallOK(c, Invited)
    BY DEF Calls, DeleteCall, CallOK
  <2> HIDE DEF c
  <2>2. Request(h, c) /\ UNCHANGED <<poll, edition, recipient, orphaned, public>> /\ again' \subseteq Customers
    BY <1>6 DEF Delete, Shape, Rows, c
  <2> QED BY <2>1, <2>2, SetsOut
<1>7. ASSUME NEW h \in Handlers, Stop(h) PROVE Shape'
  <2>1. Rows'
    BY <1>7 DEF Stop, Through, public, Shape, Rows, PendingOf
  <2> QED BY <1>7, <2>1, Ends DEF Stop, public
<1>8. ASSUME NEW h \in Handlers, InsertRecipients(h) PROVE Shape'
  <2>1. call[h] \in BuildCall
    BY <1>8, CallKinds DEF InsertRecipients, Shape, InFlight
  <2>2. call[h].batch \subseteq Customers
    BY <2>1 DEF BuildCall
  <2>3. \A c \in Customers : \/ recipient'[c] = recipient[c]
                             \/ recipient'[c] = [sms |-> statusFor(c), responded |-> FALSE]
    BY <1>8 DEF InsertRecipients
  <2>4. DOMAIN recipient' = Customers /\ recipient' = [c \in Customers |-> recipient'[c]]
    BY <1>8 DEF InsertRecipients, Shape, Rows
  <2>5. \A c \in Customers : /\ [sms |-> statusFor(c), responded |-> FALSE] \in Recipient
                             /\ [sms |-> statusFor(c), responded |-> FALSE] # Absent
                             /\ statusFor(c) = "Pending" => c \in Reachable
    BY DEF statusFor, Recipient, SMSStatus, Absent
  <2>6. recipient' \in [Customers -> {Absent} \union Recipient]
    BY <2>3, <2>4, <2>5 DEF Shape, Rows
  <2>7. Invited \subseteq Invited'
    BY <2>3, <2>5 DEF Invited
  <2>8. PendingOf' \subseteq Reachable
    <3> SUFFICES ASSUME NEW c \in Customers, recipient'[c].sms = "Pending" PROVE c \in Reachable
      BY DEF PendingOf
    <3>1. CASE recipient'[c] = recipient[c]
      BY <3>1 DEF PendingOf, Shape, Rows
    <3>2. CASE recipient'[c] = [sms |-> statusFor(c), responded |-> FALSE]
      BY <2>5, <3>2
    <3> QED BY <2>3, <3>1, <3>2
  <2>9. Rows'
    BY <1>8, <2>6, <2>8 DEF InsertRecipients, Through, public, Shape, Rows
  <2>10. InFlight' /\ Browsers'
    BY <1>8, <2>7, ThroughLeaves, BrowsersStay DEF InsertRecipients, public, Shape
  <2> QED BY <2>9, <2>10 DEF Shape
<1>9. ASSUME NEW h \in Handlers, NEW c \in Customers, Text(h, c) PROVE Shape'
  <2> DEFINE d == [call[h] EXCEPT !.texting = c]
  <2>1. call[h] \in SendCall /\ CallOK(call[h], Invited)
    BY <1>9, CallKinds DEF Text, Shape, InFlight
  <2>2. d \in Calls /\ CallOK(d, Invited)
    BY <1>9, <2>1 DEF Text, Calls, SendCall, CallOK
  <2>3. call' = [call EXCEPT ![h] = d]
    BY <1>9 DEF Text
  <2> HIDE DEF d
  <2>4. Rows'
    BY <1>9 DEF Text, public, Shape, Rows, PendingOf
  <2>5. Invited' = Invited
    BY <1>9 DEF Text, Invited
  <2>6. InFlight'
    BY <2>2, <2>3, <2>5, InFlightChanges DEF Shape
  <2>7. Browsers'
    BY <1>9, <2>5, BrowsersStay DEF Text, public, Shape
  <2> QED BY <2>4, <2>6, <2>7 DEF Shape
<1>10. ASSUME NEW h \in Handlers, NEW outcome \in Outcomes, Note(h, outcome) PROVE Shape'
  <2> DEFINE c == call[h].texting
             d == [call[h] EXCEPT !.texting = None, !.queue = @ \ {c}]
  <2>1. call[h] \in SendCall /\ CallOK(call[h], Invited) /\ c # None
    BY <1>10, CallKinds DEF Note, NextOfBatch, Shape, InFlight
  <2>2. c \in Customers /\ c \in Invited
    BY <2>1 DEF SendCall, CallOK
  <2>3. d \in Calls /\ CallOK(d, Invited)
    BY <2>1 DEF Calls, SendCall, CallOK
  <2>4. call' = [call EXCEPT ![h] = d] /\ recipient' = [recipient EXCEPT ![c].sms = outcome]
    BY <1>10 DEF Note, NextOfBatch
  <2> HIDE DEF c, d
  <2>5. recipient[c] \in Recipient
    BY <2>2 DEF Shape, Rows, Invited
  <2>6. outcome \in SMSStatus /\ outcome # "Pending"
    BY PollConstants DEF SMSStatus
  <2>7. [recipient[c] EXCEPT !.sms = outcome] \in Recipient \ {Absent}
    BY <2>5, <2>6 DEF Recipient, Absent, SMSStatus
  <2>8. recipient' = [recipient EXCEPT ![c] = [recipient[c] EXCEPT !.sms = outcome]]
    BY <2>4
  <2>9. recipient' \in [Customers -> {Absent} \union Recipient] /\ Invited \subseteq Invited'
    BY <2>2, <2>7, <2>8 DEF Shape, Rows, Invited
  <2>10. PendingOf' \subseteq PendingOf
    BY <2>2, <2>5, <2>6, <2>8 DEF Shape, Rows, PendingOf, Recipient
  <2>11. Rows'
    BY <1>10, <2>9, <2>10 DEF Note, NextOfBatch, public, Shape, Rows
  <2>12. CallOK(d, Invited')
    BY <2>3, <2>9 DEF CallOK
  <2>13. InFlight' /\ Browsers'
    BY <1>10, <2>3, <2>4, <2>9, <2>12, InFlightChanges, BrowsersStay DEF Note, NextOfBatch, public, Shape
  <2> QED BY <2>11, <2>13 DEF Shape
<1>18. ASSUME NEW h \in Handlers, FailToNote(h) PROVE Shape'
  <2> DEFINE d == [call[h] EXCEPT !.texting = None, !.queue = @ \ {call[h].texting}]
  <2>1. call[h] \in SendCall /\ CallOK(call[h], Invited)
    BY <1>18, CallKinds DEF FailToNote, NextOfBatch, Shape, InFlight
  <2>2. d \in Calls /\ CallOK(d, Invited)
    BY <2>1 DEF Calls, SendCall, CallOK
  <2>3. call' = [call EXCEPT ![h] = d]
    BY <1>18 DEF FailToNote, NextOfBatch
  <2> HIDE DEF d
  <2>4. Rows' /\ Invited' = Invited
    BY <1>18 DEF FailToNote, NextOfBatch, public, Shape, Rows, PendingOf, Invited
  <2>5. InFlight' /\ Browsers'
    BY <1>18, <2>2, <2>3, <2>4, InFlightChanges, BrowsersStay
       DEF FailToNote, NextOfBatch, public, Shape
  <2> QED BY <2>4, <2>5 DEF Shape
<1>11. ASSUME NEW h \in Handlers, FinishSend(h) PROVE Shape'
  <2>1. poll' \in PollRow
    BY <1>11 DEF FinishSend, Shape, Rows, PollRow, PollStatus
  <2>2. Rows'
    BY <1>11, <2>1 DEF FinishSend, Through, public, Shape, Rows, PendingOf
  <2> QED BY <1>11, <2>2, Ends DEF FinishSend, public
<1>12. ASSUME NEW h \in Handlers, SaveRow(h) PROVE Shape'
  <2>1. call[h] \in SaveCall
    BY <1>12, CallKinds DEF SaveRow, Shape, InFlight
  <2>2. poll' \in PollRow
    BY <1>12, <2>1 DEF SaveRow, SaveCall
  <2>3. /\ edition' \in Editions /\ orphaned' \subseteq Customers
        /\ answers' \in [Customers -> SUBSET (Editions \X Slots)]
    <3>1. CASE call[h].replace /\ edition < MaxEditions
      BY <1>12, <3>1, PollConstants DEF SaveRow, Shape, Rows, Editions
    <3>2. CASE ~(call[h].replace /\ edition < MaxEditions)
      BY <1>12, <3>2 DEF SaveRow, Shape, Rows
    <3> QED BY <3>1, <3>2
  <2>4. Rows'
    BY <1>12, <2>2, <2>3 DEF SaveRow, Through, Shape, Rows, PendingOf
  <2> QED BY <1>12, <2>4, Ends DEF SaveRow
<1>13. ASSUME NEW h \in Handlers, Remove(h) PROVE Shape'
  <2>1. Rows'
    BY <1>13 DEF Remove, Through, public, Shape, Rows, PollRow, PendingOf
  <2> QED BY <1>13, <2>1, Ends DEF Remove, public
<1>14. CASE Reload \/ Restore
  <2>1. Rows'
    BY <1>14 DEF Reload, Restore, public, Shape, Rows, PollRow, PendingOf
  <2>2. Invited' = Invited
    BY <1>14 DEF Reload, Restore, Invited
  <2>3. InFlight' /\ Browsers'
    BY <1>14, <2>2, InFlightStays, BrowsersStay DEF Reload, Restore, public, Shape
  <2> QED BY <2>1, <2>3 DEF Shape
<1>15. ASSUME NEW l \in Links, GetPublic(l) PROVE Shape'
  <2> DEFINE r == recipient[LinkOf[l]]
             p == IF r.responded \/ poll.status = "Closed" THEN NoPage
                  ELSE [state |-> "open", edition |-> edition]
  <2>1. LinkOf[l] \in Invited
    BY <1>15, PollConstants DEF GetPublic, Invited
  <2>2. p \in Pages /\ PageOK(p, LinkOf[l], Invited)
    BY <2>1 DEF Pages, OpenPage, PageOK, NoPage, Shape, Rows
  <2>3. page' = [page EXCEPT ![l] = p]
    BY <1>15 DEF GetPublic
  <2> HIDE DEF p
  <2>4. Rows' /\ Invited' = Invited
    BY <1>15 DEF GetPublic, office, Shape, Rows, PendingOf, Invited
  <2>5. InFlight' /\ Browsers'
    BY <1>15, <2>2, <2>3, <2>4, InFlightStays, BrowserChanges DEF GetPublic, office, Shape
  <2> QED BY <2>4, <2>5 DEF Shape
<1>16. ASSUME NEW l \in Links, NEW given \in SUBSET Slots, Submit(l, given) PROVE Shape'
  <2> DEFINE p == [state |-> "checked", edition |-> page[l].edition, given |-> given]
  <2>1. page[l] \in OpenPage /\ PageOK(page[l], LinkOf[l], Invited)
    BY <1>16, PageStates DEF Submit, Shape, Browsers
  <2>2. p \in Pages /\ PageOK(p, LinkOf[l], Invited)
    BY <1>16, <2>1 DEF Submit, Pages, OpenPage, CheckedPage, PageOK
  <2>3. page' = [page EXCEPT ![l] = p]
    BY <1>16 DEF Submit
  <2> HIDE DEF p
  <2>4. Rows' /\ Invited' = Invited
    BY <1>16 DEF Submit, office, Shape, Rows, PendingOf, Invited
  <2>5. InFlight' /\ Browsers'
    BY <1>16, <2>2, <2>3, <2>4, InFlightStays, BrowserChanges DEF Submit, office, Shape
  <2> QED BY <2>4, <2>5 DEF Shape
<1>17. ASSUME NEW l \in Links, InsertAnswers(l) PROVE Shape'
  <2> DEFINE c == LinkOf[l]
  <2>1. page[l] \in CheckedPage /\ c \in Invited /\ c \in Customers
    BY <1>17, PageStates, PollConstants DEF InsertAnswers, Shape, Browsers, PageOK
  <2>2. Sheet(l) \subseteq Editions \X Slots
    BY <2>1 DEF Sheet, CheckedPage
  <2>3. CASE Fits(Sheet(l), c)
    <3> DEFINE p == [state |-> "filed", edition |-> page[l].edition]
    <3>1. /\ answers' = [answers EXCEPT ![c] = @ \union Sheet(l)]
          /\ recipient' = [recipient EXCEPT ![c] = [recipient[c] EXCEPT !.responded = TRUE]]
          /\ filed' = [filed EXCEPT ![c] = @ \union {l}]
          /\ page' = [page EXCEPT ![l] = p]
          /\ UNCHANGED office
      BY <1>17, <2>3 DEF InsertAnswers
    <3>2. recipient[c] \in Recipient
      BY <2>1 DEF Shape, Rows, Invited
    <3>3. [recipient[c] EXCEPT !.responded = TRUE] \in Recipient \ {Absent}
      BY <3>2 DEF Recipient, Absent, SMSStatus
    <3>4. recipient' \in [Customers -> {Absent} \union Recipient] /\ Invited \subseteq Invited'
      BY <2>1, <3>1, <3>3 DEF Shape, Rows, Invited
    <3>5. PendingOf' = PendingOf
      BY <2>1, <3>1, <3>2 DEF PendingOf, Shape, Rows, Recipient
    <3>6. answers' \in [Customers -> SUBSET (Editions \X Slots)] /\ filed' \in [Customers -> SUBSET Links]
      BY <2>2, <3>1 DEF Shape, Rows
    <3>7. Rows'
      BY <3>1, <3>4, <3>5, <3>6 DEF office, Shape, Rows
    <3>8. p \in Pages /\ PageOK(p, c, Invited')
      BY <2>1, <3>4 DEF Pages, CheckedPage, FiledPage, PageOK
    <3> HIDE DEF p
    <3>9. InFlight' /\ Browsers'
      BY <3>1, <3>4, <3>8, InFlightStays, BrowserChanges DEF office, Shape
    <3> QED BY <3>7, <3>9 DEF Shape
  <2>4. CASE ~Fits(Sheet(l), c)
    <3> DEFINE p == [state |-> "open", edition |-> page[l].edition]
    <3>1. page' = [page EXCEPT ![l] = p] /\ UNCHANGED <<answers, recipient, filed, office>>
      BY <1>17, <2>4 DEF InsertAnswers, Refused
    <3>2. p \in Pages /\ PageOK(p, c, Invited)
      BY <2>1 DEF Pages, OpenPage, CheckedPage, PageOK
    <3> HIDE DEF p
    <3>3. Rows' /\ Invited' = Invited
      BY <3>1 DEF office, Shape, Rows, PendingOf, Invited
    <3>4. InFlight' /\ Browsers'
      BY <3>1, <3>2, <3>3, InFlightStays, BrowserChanges DEF office, Shape
    <3> QED BY <3>3, <3>4 DEF Shape
  <2> QED BY <2>3, <2>4
<1>19. ASSUME NEW l \in Links, Hear(l) \/ GiveUp(l) PROVE Shape'
  <2> DEFINE p == IF Hear(l) THEN NoPage ELSE [state |-> "open", edition |-> page[l].edition]
  <2>1. page[l] \in FiledPage /\ LinkOf[l] \in Invited
    BY <1>19, PageStates DEF Hear, GiveUp, Shape, Browsers, PageOK
  <2>2. p \in Pages /\ PageOK(p, LinkOf[l], Invited)
    BY <2>1 DEF Pages, FiledPage, OpenPage, PageOK, NoPage
  <2>3. page' = [page EXCEPT ![l] = p]
    BY <1>19 DEF Hear, GiveUp, Refused
  <2> HIDE DEF p
  <2>4. Rows' /\ Invited' = Invited
    BY <1>19 DEF Hear, GiveUp, office, Shape, Rows, PendingOf, Invited
  <2>5. InFlight' /\ Browsers'
    BY <1>19, <2>2, <2>3, <2>4, InFlightStays, BrowserChanges DEF Hear, GiveUp, office, Shape
  <2> QED BY <2>4, <2>5 DEF Shape
<1> QED BY <1>1, <1>2, <1>3, <1>4, <1>5, <1>6, <1>7, <1>8, <1>9, <1>10, <1>11, <1>12, <1>13,
           <1>14, <1>15, <1>16, <1>17, <1>18, <1>19 DEF Next, OfficeStep, ServerStep, CustomerStep

\* Rows, requests in flight and pages have their form in every reachable state.
THEOREM ShapeHolds == Spec => []Shape
  BY ShapeInit, ShapeNext, PTL DEF Spec

\* Polls, recipients, answers, requests and pages keep their form, however the
\* requests of the office and of the customers interleave.
THEOREM TypeCorrect == Spec => []TypeOK
<1>1. Shape => TypeOK
  <2> SUFFICES ASSUME Shape PROVE TypeOK
    OBVIOUS
  <2>1. ASSUME NEW h \in Handlers
        PROVE  /\ call[h].kind \in Kinds \union {"none"}
               /\ call[h].kind = "send" => /\ call[h].queue \subseteq Reachable
                                           /\ call[h].texting \in call[h].queue \union {None}
    BY CallKinds DEF Shape, InFlight, CallOK, SendCall
  <2>2. ASSUME NEW l \in Links PROVE page[l].state \in {"none", "open", "checked", "filed"}
    BY PageStates DEF Shape, Browsers
  <2> QED BY <2>1, <2>2 DEF Shape, Rows, TypeOK, PollRow, Recipient, Editions
<1> QED BY <1>1, ShapeHolds, PTL

-----------------------------------------------------------------------------
(* Closing.                                                                 *)

\* "Close stops further answers": only a batch or an edit that read the poll while
\* it was open can open it again, when it is through.
THEOREM ClosedStaysHolds == Spec => ClosedStays
<1> DEFINE Late == \E h \in Handlers :
                      /\ call[h] # NoCall /\ call'[h] = NoCall
                      /\ call[h].kind \in {"send", "update"} /\ call[h].whileOpen
<1>1. Shape /\ [Next]_vars => [Reopened => Late]_vars
  <2> SUFFICES ASSUME Shape, Next, Reopened PROVE Late
    OBVIOUS
  <2>1. ASSUME NEW h \in Handlers, FinishSend(h) PROVE Late
    <3>1. call[h].kind = "send" /\ call[h].whileOpen
      BY <2>1 DEF FinishSend, Shape, InFlight, CallOK
    <3>2. call[h] # NoCall /\ call'[h] = NoCall
      BY <2>1, <3>1 DEF FinishSend, Through, NoCall, Shape, InFlight
    <3> QED BY <3>1, <3>2
  <2>2. ASSUME NEW h \in Handlers, SaveRow(h) PROVE Late
    <3>1. poll'.status # "Closed" /\ poll' = call[h].row /\ call[h].kind \in {"update", "close"}
      BY <2>2 DEF SaveRow, Reopened
    <3>2. call[h].kind = "update" /\ call[h].whileOpen
      BY <3>1 DEF Shape, InFlight, CallOK
    <3>3. call[h] # NoCall /\ call'[h] = NoCall
      BY <2>2, <3>2 DEF SaveRow, Through, NoCall, Shape, InFlight
    <3> QED BY <3>2, <3>3
  <2>3. ASSUME NEW h \in Handlers, Remove(h) PROVE FALSE
    BY <2>3 DEF Remove, Reopened, Shape, Rows, PollRow
  <2>4. ASSUME Restore PROVE FALSE
    BY <2>4 DEF Restore, Reopened, Shape, Rows, PollRow
  <2>5. ASSUME poll' = poll PROVE FALSE
    BY <2>5 DEF Reopened
  <2> HIDE DEF Late
  <2>6. ASSUME NEW h \in Handlers, OfficeStep(h) PROVE FALSE
    BY <2>5, <2>6 DEF OfficeStep, BuildAudience, Send, Update, Close, Delete, Stop
  <2>7. ASSUME NEW h \in Handlers, ServerStep(h) PROVE Late
    BY <2>1, <2>2, <2>3, <2>5, <2>7 DEF ServerStep, InsertRecipients, Text, Note, FailToNote,
         NextOfBatch
  <2>8. ASSUME NEW l \in Links, CustomerStep(l) PROVE FALSE
    BY <2>5, <2>8 DEF CustomerStep, GetPublic, Submit, InsertAnswers, Hear, GiveUp, office
  <2>9. ASSUME Reload PROVE FALSE
    BY <2>5, <2>9 DEF Reload
  <2> QED BY <2>4, <2>6, <2>7, <2>8, <2>9 DEF Next
<1> QED BY <1>1, ShapeHolds, PTL DEF Spec, ClosedStays

-----------------------------------------------------------------------------
(* Answers.                                                                 *)

\* Whoever has filed answers counts as having answered, and filed them once,
\* unless an edit has removed the first ones.
FiledOnce ==
    Required # {} =>
        \A c \in Customers : filed[c] # {} =>
            /\ recipient[c].responded
            /\ c \in orphaned \/ \E l \in Links : filed[c] = {l}

Sheets == AnswersComplete /\ FiledOnce

\* Answer sheets that are left alone stay complete.
LEMMA SheetsStay ==
    ASSUME Sheets, UNCHANGED <<edition, answers, orphaned, filed>>,
           \A c \in Customers : recipient'[c].responded = recipient[c].responded
    PROVE  Sheets'
  BY DEF Sheets, AnswersComplete, FiledOnce

\* The database takes a sheet only if all of it is of the edition on file and none
\* of it has been answered: who has answers to the required questions cannot send
\* them again.
LEMMA SheetsTaken ==
    ASSUME Shape, Sheets, NEW l \in Links, InsertAnswers(l)
    PROVE  Sheets'
<1> DEFINE c == LinkOf[l]
<1>1. /\ page[l].state = "checked" /\ page[l] \in CheckedPage
      /\ Required \subseteq page[l].given /\ c \in Customers
  BY PageStates, PollConstants DEF InsertAnswers, Shape, Browsers, PageOK
<1>2. UNCHANGED <<edition, orphaned>>
  BY DEF InsertAnswers, office
<1>3. CASE ~Fits(Sheet(l), c)
  BY <1>2, <1>3, SheetsStay DEF InsertAnswers
<1>4. CASE Fits(Sheet(l), c)
  <2>1. /\ answers' = [answers EXCEPT ![c] = @ \union Sheet(l)]
        /\ recipient' = [recipient EXCEPT ![c].responded = TRUE]
        /\ filed' = [filed EXCEPT ![c] = @ \union {l}]
    BY <1>4 DEF InsertAnswers
  <2>2. Sheet(l) \subseteq {edition} \X Slots
    <3> SUFFICES ASSUME NEW a \in Sheet(l) PROVE a \in {edition} \X Slots
      OBVIOUS
    <3>1. a[1] = edition
      BY <1>4 DEF Fits
    <3> QED BY <1>1, <3>1 DEF Sheet, CheckedPage
  <2>3. {edition} \X Required \subseteq Sheet(l)
    <3> SUFFICES ASSUME NEW q \in Required PROVE <<edition, q>> \in Sheet(l)
      OBVIOUS
    <3>1. <<page[l].edition, q>> \in Sheet(l)
      BY <1>1 DEF Sheet
    <3>2. page[l].edition = edition
      BY <1>4, <3>1 DEF Fits
    <3> QED BY <3>1, <3>2
  <2>4. answers'[c] = answers[c] \union Sheet(l) /\ filed'[c] = filed[c] \union {l}
    BY <1>1, <2>1 DEF Shape, Rows
  <2>5. recipient[c] \in {Absent} \union Recipient
    BY <1>1 DEF Shape, Rows
  <2>6. recipient'[c].responded
    <3>1. recipient'[c] = [recipient[c] EXCEPT !.responded = TRUE]
      BY <1>1, <2>1 DEF Shape, Rows
    <3> QED BY <2>5, <3>1 DEF Absent, Recipient
  <2>7. \A d \in Customers \ {c} : /\ answers'[d] = answers[d] /\ filed'[d] = filed[d]
                                   /\ recipient'[d] = recipient[d]
    BY <2>1 DEF Shape, Rows
  <2>8. AnswersComplete'
    BY <1>2, <2>2, <2>3, <2>4, <2>7 DEF Sheets, AnswersComplete
  <2>9. ASSUME Required # {}, filed[c] # {} PROVE c \in orphaned
    <3>1. recipient[c].responded
      BY <1>1, <2>9 DEF Sheets, FiledOnce
    <3>2. {edition} \X Required \subseteq answers[c] \/ c \in orphaned
      BY <1>1, <3>1 DEF Sheets, AnswersComplete
    <3>3. PICK q \in Required : TRUE
      BY <2>9
    <3>4. <<edition, q>> \in Sheet(l) /\ <<edition, q>> \notin answers[c]
      BY <1>4, <2>3, <3>3 DEF Fits
    <3> QED BY <3>2, <3>3, <3>4
  <2>10. FiledOnce'
    BY <1>1, <1>2, <2>4, <2>6, <2>7, <2>9 DEF Sheets, FiledOnce
  <2> QED BY <2>8, <2>10 DEF Sheets
<1> QED BY <1>3, <1>4

\* Nobody has answered at the start.
THEOREM SheetsInit == Init => Sheets
  BY DEF Init, Sheets, AnswersComplete, FiledOnce, Absent

\* No step of the poll's life, an edit between check and insert included,
\* leaves a sheet half filled or filed twice.
THEOREM SheetsNext == Shape /\ Sheets /\ [Next]_vars => Sheets'
<1> SUFFICES ASSUME Shape, Sheets, [Next]_vars PROVE Sheets'
  OBVIOUS
<1>1. ASSUME UNCHANGED <<recipient, edition, orphaned, answers, filed>> PROVE Sheets'
  BY <1>1, SheetsStay
<1>2. CASE UNCHANGED vars
  BY <1>1, <1>2 DEF vars
<1>3. ASSUME NEW h \in Handlers, OfficeStep(h) PROVE Sheets'
  BY <1>1, <1>3 DEF OfficeStep, BuildAudience, Send, Update, Close, Delete, Stop, public
<1>4. ASSUME NEW h \in Handlers, InsertRecipients(h) PROVE Sheets'
  <2>1. ASSUME NEW c \in Customers PROVE recipient'[c].responded = recipient[c].responded
    <3>1. CASE recipient' = recipient
      BY <3>1
    <3>2. CASE recipient' # recipient /\ c \in call[h].batch
      <4>1. recipient[c] = Absent /\ recipient'[c] = [sms |-> statusFor(c), responded |-> FALSE]
        BY <1>4, <3>2 DEF InsertRecipients, Invited
      <4> QED BY <4>1 DEF Absent
    <3>3. CASE recipient' # recipient /\ c \notin call[h].batch
      BY <1>4, <3>3 DEF InsertRecipients
    <3> QED BY <3>1, <3>2, <3>3
  <2> QED BY <1>4, <2>1, SheetsStay DEF InsertRecipients, public
<1>5. ASSUME NEW h \in Handlers, NEW outcome \in Outcomes, Note(h, outcome) PROVE Sheets'
  <2>1. ASSUME NEW c \in Customers PROVE recipient'[c].responded = recipient[c].responded
    <3>1. recipient[c] \in {Absent} \union Recipient
      BY DEF Shape, Rows
    <3>2. recipient'[c] = recipient[c] \/ recipient'[c] = [recipient[c] EXCEPT !.sms = outcome]
      BY <1>5 DEF Note, NextOfBatch, Shape, Rows
    <3> QED BY <3>1, <3>2 DEF Absent, Recipient
  <2> QED BY <1>5, <2>1, SheetsStay DEF Note, NextOfBatch, public
<1>6. ASSUME NEW h \in Handlers, SaveRow(h) PROVE Sheets'
  <2>1. CASE call[h].replace /\ edition < MaxEditions
    <3>1. /\ answers' = [c \in Customers |-> {}] /\ UNCHANGED <<recipient, filed>>
          /\ orphaned' = orphaned \union {c \in Customers : recipient[c].responded}
      BY <1>6, <2>1 DEF SaveRow
    <3> QED BY <3>1 DEF Sheets, AnswersComplete, FiledOnce
  <2>2. CASE ~(call[h].replace /\ edition < MaxEditions)
    BY <1>1, <1>6, <2>2 DEF SaveRow
  <2> QED BY <2>1, <2>2
<1>7. ASSUME NEW h \in Handlers,
             (\E c \in Customers : Text(h, c)) \/ FailToNote(h) \/ FinishSend(h) \/ Remove(h)
      PROVE  Sheets'
  BY <1>1, <1>7 DEF Text, FailToNote, NextOfBatch, FinishSend, Remove, public
<1>8. ASSUME NEW l \in Links, CustomerStep(l) PROVE Sheets'
  BY <1>1, <1>8, SheetsTaken DEF CustomerStep, GetPublic, Submit, Hear, GiveUp, office
<1>9. CASE Reload \/ Restore
  BY <1>1, <1>9 DEF Reload, Restore, public
<1> QED BY <1>2, <1>3, <1>4, <1>5, <1>6, <1>7, <1>8, <1>9 DEF Next, ServerStep

\* Answers on file are complete and from one submission, in every reachable
\* state.
THEOREM SheetsHold == Spec => []Sheets
  BY SheetsInit, SheetsNext, ShapeHolds, PTL DEF Spec

\* Whoever counts as having answered has answered everything required, and nothing
\* that is no longer asked, unless an edit has removed the answers since.
THEOREM AnswersCompleteHolds == Spec => []AnswersComplete
  BY SheetsHold, PTL DEF Sheets

\* Where a question must be answered, one person's answers come from one
\* submission, however often and in however many browsers the link is sent.
THEOREM AnsweredOnceHolds == Spec => []AnsweredOnce
<1>1. Sheets => AnsweredOnce
  <2> SUFFICES ASSUME Sheets, Required # {}, NEW c \in Customers, c \notin orphaned
               PROVE  ~(Cardinality(filed[c]) > 1)
    BY DEF AnsweredOnce
  <2>1. CASE filed[c] = {}
    BY <2>1, FS_EmptySet
  <2>2. CASE filed[c] # {}
    <3>1. PICK l \in Links : filed[c] = {l}
      BY <2>2 DEF Sheets, FiledOnce
    <3> QED BY <3>1, FS_Singleton
  <2> QED BY <2>1, <2>2
<1> QED BY <1>1, SheetsHold, PTL

-----------------------------------------------------------------------------
(* Invitations.                                                             *)

Firsts == Customers \ again

\* Of those no two batches have had at once: one batch at most has them, and as
\* long as it has them they wait.
Waiting ==
    /\ \A c \in Firsts, h \in Handlers : c \in Queued(h) => recipient[c].sms = "Pending"
    /\ \A c \in Firsts, h, g \in Handlers : c \in Queued(h) /\ c \in Queued(g) => h = g

\* A step in which no batch gets anybody and no row of a batch is noted.
LEMMA WaitingStays ==
    ASSUME Shape, Waiting, UNCHANGED again,
           \A c \in Invited : recipient'[c].sms = recipient[c].sms,
           \A h \in Handlers : Queued(h)' \subseteq Queued(h)
    PROVE  Waiting'
<1>1. Firsts' = Firsts
  BY DEF Firsts
<1>2. \A h \in Handlers : Queued(h) \subseteq Invited
  BY DEF Queued, Shape, InFlight, CallOK
<1> QED BY <1>1, <1>2 DEF Waiting

\* A call that changes to one whose batch, if it is one, is no larger.
LEMMA QueuesShrink ==
    ASSUME Shape, NEW h \in Handlers, NEW d, call' = [call EXCEPT ![h] = d],
           d.kind # "send" \/ (call[h].kind = "send" /\ d.queue \subseteq call[h].queue)
    PROVE  \A g \in Handlers : Queued(g)' \subseteq Queued(g)
<1>1. call'[h] = d /\ \A g \in Handlers \ {h} : call'[g] = call[g]
  BY DEF Shape, InFlight
<1> QED BY <1>1 DEF Queued

\* A batch is chosen among those who wait; whom another batch has too is excused.
LEMMA WaitingChosen ==
    ASSUME Shape, Waiting, NEW h \in Handlers, NEW chosen, NEW queue, Send(h, chosen, queue)
    PROVE  Waiting'
<1> DEFINE d == [kind |-> "send", queue |-> queue, chosen |-> chosen # {},
                 texting |-> None, whileOpen |-> poll.status # "Closed"]
<1>1. /\ call[h] = NoCall /\ call' = [call EXCEPT ![h] = d]
      /\ again' = again \union UNION {queue \intersect Queued(g) : g \in Handlers}
      /\ queue \subseteq PendingOf /\ recipient' = recipient
  BY DEF Send, Request
<1>2. call'[h] = d /\ \A g \in Handlers \ {h} : call'[g] = call[g]
  BY <1>1 DEF Shape, InFlight
<1>3. Queued(h)' = queue /\ \A g \in Handlers \ {h} : Queued(g)' = Queued(g)
  BY <1>2 DEF Queued
<1>4. /\ Firsts' \subseteq Firsts
      /\ \A g \in Handlers : Firsts' \intersect queue \intersect Queued(g) = {}
  BY <1>1 DEF Firsts
<1>5. \A c \in Firsts', g \in Handlers : c \in Queued(g)' => recipient'[c].sms = "Pending"
  BY <1>1, <1>3, <1>4 DEF Waiting, PendingOf
<1>6. \A c \in Firsts', g, k \in Handlers : c \in Queued(g)' /\ c \in Queued(k)' => g = k
  BY <1>3, <1>4 DEF Waiting
<1> QED BY <1>5, <1>6 DEF Waiting

\* Who is noted leaves the only batch that had them.
LEMMA WaitingNoted ==
    ASSUME Shape, Waiting, NEW h \in Handlers, NEW outcome \in Outcomes, Note(h, outcome)
    PROVE  Waiting'
<1> DEFINE c == call[h].texting
           d == [call[h] EXCEPT !.texting = None, !.queue = @ \ {c}]
<1>1. /\ call[h].kind = "send" /\ c # None /\ call' = [call EXCEPT ![h] = d]
      /\ recipient' = [recipient EXCEPT ![c].sms = outcome] /\ again' = again
  BY DEF Note, NextOfBatch
<1>2. call[h] \in SendCall /\ c \in call[h].queue
  BY <1>1, CallKinds DEF Shape, InFlight, CallOK, SendCall
<1>3. d.kind = "send" /\ d.queue = call[h].queue \ {c}
  BY <1>1, <1>2 DEF SendCall
<1>4. c \in Queued(h)
  BY <1>1, <1>2 DEF Queued
<1> HIDE DEF c, d
<1>5. call'[h] = d /\ \A g \in Handlers \ {h} : call'[g] = call[g]
  BY <1>1 DEF Shape, InFlight
<1>6. /\ Firsts' = Firsts /\ c \notin Queued(h)'
      /\ \A g \in Handlers : Queued(g)' \subseteq Queued(g)
  BY <1>1, <1>3, <1>5 DEF Firsts, Queued
<1>7. \A e \in Customers \ {c} : recipient'[e] = recipient[e]
  BY <1>1 DEF Shape, Rows
<1>8. ASSUME NEW e \in Firsts, NEW g \in Handlers, e \in Queued(g)'
      PROVE  recipient'[e].sms = "Pending"
  <2>1. e # c
    BY <1>4, <1>6, <1>8 DEF Waiting
  <2> QED BY <1>6, <1>7, <1>8, <2>1 DEF Waiting, Firsts
<1>9. \A e \in Firsts, g, k \in Handlers : e \in Queued(g)' /\ e \in Queued(k)' => g = k
  BY <1>6 DEF Waiting
<1> QED BY <1>6, <1>8, <1>9 DEF Waiting

\* There is no batch at the start.
THEOREM WaitingInit == Init => Waiting
<1>1. Init => \A h \in Handlers : Queued(h) = {}
  BY DEF Init, Queued, NoCall
<1> QED BY <1>1 DEF Waiting

\* Every step, failed notes and stops included, leaves those a batch has waiting.
THEOREM WaitingNext == Shape /\ Waiting /\ [Next]_vars => Waiting'
<1> SUFFICES ASSUME Shape, Waiting, [Next]_vars PROVE Waiting'
  OBVIOUS
<1>1. ASSUME UNCHANGED <<recipient, call, again>> PROVE Waiting'
  BY <1>1, WaitingStays DEF Queued
<1>2. CASE UNCHANGED vars
  BY <1>1, <1>2 DEF vars
<1>3. ASSUME NEW h \in Handlers, NEW d, d.kind # "send", call' = [call EXCEPT ![h] = d],
             UNCHANGED <<recipient, again>>
      PROVE  Waiting'
  BY <1>3, QueuesShrink, WaitingStays
<1>4. ASSUME NEW h \in Handlers, OfficeStep(h) PROVE Waiting'
  <2>1. ASSUME NEW m \in SUBSET Customers, BuildAudience(h, m) PROVE Waiting'
    BY <1>3, <2>1 DEF BuildAudience, Request
  <2>2. CASE Update(h) \/ Close(h) \/ Delete(h)
    BY <1>3, <2>2 DEF Update, Close, Delete, RowCall, Request
  <2>3. CASE Stop(h)
    BY <1>3, <2>3 DEF Stop, Through, NoCall
  <2> QED BY <1>4, <2>1, <2>2, <2>3, WaitingChosen DEF OfficeStep
<1>5. ASSUME NEW h \in Handlers, Through(h), UNCHANGED <<recipient, again>> PROVE Waiting'
  BY <1>3, <1>5 DEF Through, NoCall
<1>6. ASSUME NEW h \in Handlers, InsertRecipients(h) PROVE Waiting'
  <2>1. \A c \in Customers : c \in Invited => recipient'[c] = recipient[c]
    BY <1>6 DEF InsertRecipients
  <2>2. call' = [call EXCEPT ![h] = NoCall] /\ again' = again /\ NoCall.kind # "send"
    BY <1>6 DEF InsertRecipients, Through, NoCall
  <2>3. \A g \in Handlers : Queued(g)' \subseteq Queued(g)
    BY <2>2, QueuesShrink
  <2> QED BY <2>1, <2>2, <2>3, WaitingStays DEF Invited
<1>7. ASSUME NEW h \in Handlers, FinishSend(h) \/ SaveRow(h) \/ Remove(h) PROVE Waiting'
  BY <1>5, <1>7 DEF FinishSend, SaveRow, Remove
<1>8. ASSUME NEW h \in Handlers, FailToNote(h) \/ \E c \in Customers : Text(h, c)
      PROVE  Waiting'
  <2>1. call[h].kind = "send" /\ UNCHANGED <<recipient, again>>
    BY <1>8 DEF FailToNote, NextOfBatch, Text
  <2>2. call[h] \in SendCall
    BY <2>1, CallKinds DEF Shape, InFlight
  <2>3. PICK d : /\ call' = [call EXCEPT ![h] = d]
                 /\ \/ d = [call[h] EXCEPT !.texting = None, !.queue = @ \ {call[h].texting}]
                    \/ \E c \in Customers : d = [call[h] EXCEPT !.texting = c]
    BY <1>8 DEF FailToNote, NextOfBatch, Text
  <2>4. d.queue \subseteq call[h].queue
    <3>1. CASE d = [call[h] EXCEPT !.texting = None, !.queue = @ \ {call[h].texting}]
      BY <2>2, <3>1 DEF SendCall
    <3>2. ASSUME NEW c \in Customers, d = [call[h] EXCEPT !.texting = c]
          PROVE  d.queue \subseteq call[h].queue
      BY <2>2, <3>2 DEF SendCall
    <3> QED BY <2>3, <3>1, <3>2
  <2> QED BY <2>1, <2>3, <2>4, QueuesShrink, WaitingStays
<1>9. ASSUME NEW h \in Handlers, ServerStep(h) PROVE Waiting'
  BY <1>6, <1>7, <1>8, <1>9, WaitingNoted DEF ServerStep
<1>10. ASSUME NEW l \in Links, CustomerStep(l) PROVE Waiting'
  <2>1. CASE recipient' = recipient
    BY <1>1, <1>10, <2>1 DEF CustomerStep, GetPublic, Submit, InsertAnswers, Hear, GiveUp, office
  <2>2. CASE recipient' # recipient
    <3> DEFINE c == LinkOf[l]
    <3>1. InsertAnswers(l) /\ recipient' = [recipient EXCEPT ![c].responded = TRUE]
      BY <1>10, <2>2 DEF CustomerStep, GetPublic, Submit, InsertAnswers, Hear, GiveUp
    <3>2. c \in Invited /\ c \in Customers
      BY <3>1, PollConstants DEF InsertAnswers, Shape, Browsers, PageOK
    <3>3. recipient[c] \in Recipient
      BY <3>2 DEF Shape, Rows, Invited
    <3>4. recipient'[c] = [recipient[c] EXCEPT !.responded = TRUE]
          /\ \A e \in Customers \ {c} : recipient'[e] = recipient[e]
      BY <3>1, <3>2 DEF Shape, Rows
    <3>5. recipient'[c].sms = recipient[c].sms
      BY <3>3, <3>4 DEF Recipient
    <3>6. \A e \in Invited : recipient'[e].sms = recipient[e].sms
      BY <3>4, <3>5 DEF Invited
    <3>7. UNCHANGED again /\ \A g \in Handlers : Queued(g)' = Queued(g)
      BY <3>1 DEF InsertAnswers, office, Queued
    <3> QED BY <3>6, <3>7, WaitingStays
  <2> QED BY <2>1, <2>2
<1>11. CASE Reload \/ Restore
  BY <1>1, <1>11 DEF Reload, Restore, public
<1> QED BY <1>2, <1>4, <1>9, <1>10, <1>11 DEF Next

\* Whom a batch is texting still waits for it, whatever became of notes, servers and
\* other batches in between, unless two batches had picked the same person at once.
THEOREM TextsWaitingHolds == Spec => []TextsWaiting
<1>1. Shape /\ Waiting => TextsWaiting
  <2> SUFFICES ASSUME Shape, Waiting, NEW h \in Handlers,
                      call[h].kind = "send", call[h].texting # None
               PROVE  \/ recipient[call[h].texting].sms = "Pending"
                      \/ call[h].texting \in again
    BY DEF TextsWaiting
  <2>1. call[h] \in SendCall /\ call[h].texting \in call[h].queue
    BY CallKinds DEF Shape, InFlight, CallOK
  <2>2. call[h].texting \in Customers /\ call[h].texting \in Queued(h)
    BY <2>1 DEF SendCall, Queued
  <2> QED BY <2>2 DEF Waiting, Firsts
<1> QED BY <1>1, WaitingInit, WaitingNext, ShapeHolds, PTL DEF Spec
=============================================================================
