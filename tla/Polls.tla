--------------------------------- MODULE Polls ---------------------------------
(***************************************************************************)
(* A customer survey: the office picks an audience, the server texts each  *)
(* person a link of their own in batches, people answer, the poll is closed.*)
(*                                                                         *)
(* One poll.  The server's handlers are taken apart where they leave the   *)
(* database: between reading a row and saving it, between a text and the   *)
(* note that it went out, between the checks of a submission and its       *)
(* insert.  The office works from one page, whose buttons go by what it has *)
(* last loaded; a customer's link may be open in several browsers.         *)
(*                                                                         *)
(* Of the questions only the edition and the place are kept: an answer is  *)
(* to a question of one edition, and rewriting the questions starts another.*)
(***************************************************************************)
EXTENDS Naturals, FiniteSets

CONSTANTS
    Customers,
    Reachable,     \* those with a telephone number
    Links,         \* browsers in which a customer's link may be open
    LinkOf,        \* the customer whose link it is
    Slots,         \* the questions of an edition
    Required,      \* those that must be answered
    MaxEditions,   \* editions of the questions the model makes (bound)
    MaxTexts,      \* texts to one person that are counted (bound)
    maxSendBatch,  \* texts one click sends
    Outcomes,      \* what may become of a text: "Sent", "Failed"
    Handlers,      \* requests of the office the server works on at once
    Serves,        \* what each of them may be
    None

ASSUME PollConstants ==
    /\ Reachable \subseteq Customers
    /\ LinkOf \in [Links -> Customers]
    /\ Required \subseteq Slots
    /\ MaxEditions \in Nat \ {0}
    /\ MaxTexts \in Nat
    /\ maxSendBatch \in Nat \ {0}
    /\ Outcomes \subseteq {"Sent", "Failed"}
    /\ DOMAIN Serves = Handlers
    /\ None \notin Customers

VARIABLES
    poll,       \* the polls row
    edition,    \* the edition of poll_questions on file
    recipient,  \* poll_recipients, by customer
    answers,    \* poll_answers, by customer
    call,       \* the office's requests between two statements
    desk,       \* the status the office's page shows
    page,       \* the customers' browsers
    texts,      \* invitations that went out to each customer (history)
    again,      \* those two batches have had at once (history)
    orphaned,   \* those whose answers an edit has removed (history)
    filed       \* the browsers each customer's answers came from (history)

vars == <<poll, edition, recipient, answers, call, desk, page, texts, again, orphaned, filed>>
office == <<poll, edition, call, desk, texts, again, orphaned>>
public == <<answers, page, filed>>

PollStatus == {"Draft", "Sending", "Sent", "Closed"}
SMSStatus == {"Pending", "Sent", "Failed", "Skipped"}

Absent == [sms |-> "none", responded |-> FALSE]
Kinds == {"build", "send", "update", "close", "delete"}
NoCall == [kind |-> "none"]
NoPage == [state |-> "none"]

statusFor(c) == IF c \in Reachable THEN "Pending" ELSE "Skipped"

Live == ~poll.deleted
Invited == {c \in Customers : recipient[c] # Absent}
PendingOf == {c \in Customers : recipient[c].sms = "Pending"}

Init ==
    /\ poll = [status |-> "Draft", deleted |-> FALSE]
    /\ edition = 1
    /\ recipient = [c \in Customers |-> Absent]
    /\ answers = [c \in Customers |-> {}]
    /\ call = [h \in Handlers |-> NoCall]
    /\ desk = "Draft"
    /\ page = [l \in Links |-> NoPage]
    /\ texts = [c \in Customers |-> 0]
    /\ again = {} /\ orphaned = {}
    /\ filed = [c \in Customers |-> {}]

-----------------------------------------------------------------------------
(* The office's page.  A button waits for its answer, but an answer that is *)
(* lost frees it, and the page may be open twice: nothing keeps a second    *)
(* request from setting out while the first is still being worked on.       *)

Reload ==
    /\ desk # poll.status
    /\ desk' = poll.status
    /\ UNCHANGED <<poll, edition, recipient, call, texts, again, orphaned, public>>

\* Which buttons the page shows.  It may have been loaded when anybody who can be
\* texted was still waiting.
canBuildAudience == desk = "Draft"
canSend == desk # "Closed" /\ Invited \intersect Reachable # {}
canClose == desk \notin {"Closed", "Draft"}
canEdit == desk = "Draft"   \* the questions too

\* A request sets out: its handler has read the live poll, and c is left to do.
Request(h, c) ==
    /\ call[h] = NoCall /\ c.kind \in Serves[h]
    /\ Live
    /\ call' = [call EXCEPT ![h] = c]
    /\ UNCHANGED desk

Through(h) ==
    /\ call' = [call EXCEPT ![h] = NoCall]
    /\ UNCHANGED desk

-----------------------------------------------------------------------------
(* Building the audience.  Who matches the filters is left open; who is a   *)
(* recipient already is left out.                                           *)

BuildAudience(h, matching) ==
    /\ canBuildAudience
    /\ poll.status # "Closed"
    /\ Request(h, [kind |-> "build", batch |-> matching \ Invited])
    /\ UNCHANGED <<poll, edition, recipient, texts, again, orphaned, public>>

\* One recipient per customer and poll: if somebody of the batch has been added
\* meanwhile, none of it is.
InsertRecipients(h) ==
    /\ call[h].kind = "build"
    /\ recipient' =
          IF call[h].batch \intersect Invited # {} THEN recipient
          ELSE [c \in Customers |->
                  IF c \in call[h].batch
                  THEN [sms |-> statusFor(c), responded |-> FALSE]
                  ELSE recipient[c]]
    /\ Through(h)
    /\ UNCHANGED <<poll, edition, texts, again, orphaned, public>>

-----------------------------------------------------------------------------
(* Sending.                                                                 *)

\* Customers some batch still has to text or to note down.
Queued(g) == IF call[g].kind = "send" THEN call[g].queue ELSE {}

\* Mutant: those chosen are texted whether they still wait or not.
SendToChosen(h, chosen, queue) ==
    /\ canSend
    /\ chosen \subseteq Invited \intersect Reachable
    /\ poll.status # "Closed"
    /\ queue \subseteq IF chosen = {} THEN PendingOf ELSE chosen
    /\ Cardinality(queue) <= maxSendBatch
    /\ Request(h, [kind |-> "send", queue |-> queue, chosen |-> chosen # {},
                           texting |-> None, whileOpen |-> poll.status # "Closed"])
    /\ again' = again \union UNION {queue \intersect Queued(g) : g \in Handlers}
    /\ UNCHANGED <<poll, edition, recipient, texts, orphaned, public>>

\* Mutant: only the page knows that a closed poll sends nothing.
SendThoughClosed(h, chosen, queue) ==
    /\ canSend
    /\ chosen = {} /\ queue = PendingOf /\ Cardinality(queue) <= maxSendBatch
    /\ Request(h, [kind |-> "send", queue |-> queue, chosen |-> FALSE,
                           texting |-> None, whileOpen |-> poll.status # "Closed"])
    /\ again' = again \union UNION {queue \intersect Queued(g) : g \in Handlers}
    /\ UNCHANGED <<poll, edition, recipient, texts, orphaned, public>>

\* With nobody chosen, everyone waiting; up to maxSendBatch of them.
Send(h, chosen, queue) ==
    /\ canSend
    /\ chosen \subseteq Invited \intersect Reachable
    /\ poll.status # "Closed"
    /\ LET wanted == IF chosen = {} THEN PendingOf ELSE PendingOf \intersect chosen
       IN  /\ queue \subseteq wanted
           /\ queue = wanted \/ Cardinality(queue) = maxSendBatch
           /\ Cardinality(queue) <= maxSendBatch
    /\ Request(h, [kind |-> "send", queue |-> queue, chosen |-> chosen # {},
                           texting |-> None, whileOpen |-> poll.status # "Closed"])
    /\ again' = again \union UNION {queue \intersect Queued(g) : g \in Handlers}
    /\ UNCHANGED <<poll, edition, recipient, texts, orphaned, public>>

\* The provider takes the text or refuses it.
Text(h, c) ==
    /\ call[h].kind = "send" /\ call[h].texting = None
    /\ c \in call[h].queue
    /\ call' = [call EXCEPT ![h].texting = c]
    /\ texts' = [texts EXCEPT ![c] = IF @ = MaxTexts THEN @ ELSE @ + 1]
    /\ UNCHANGED <<poll, edition, recipient, desk, again, orphaned, public>>

\* Mutant: the loop goes on without leaving the person just texted.
NoteAndStay(h, outcome) ==
    /\ call[h].kind = "send" /\ call[h].texting # None
    /\ recipient' = [recipient EXCEPT ![call[h].texting].sms = outcome]
    /\ call' = [call EXCEPT ![h].queue = @ \ {call[h].texting}]
    /\ UNCHANGED <<poll, edition, desk, texts, again, orphaned, public>>

NextOfBatch(h) ==
    /\ call[h].kind = "send" /\ call[h].texting # None
    /\ call' = [call EXCEPT ![h].texting = None, ![h].queue = @ \ {call[h].texting}]
    /\ UNCHANGED <<poll, edition, desk, texts, again, orphaned, public>>

Note(h, outcome) ==
    /\ NextOfBatch(h)
    /\ recipient' = [recipient EXCEPT ![call[h].texting].sms = outcome]

\* The statement fails; nobody looks at its error, and the loop goes on.
FailToNote(h) == NextOfBatch(h) /\ UNCHANGED recipient

\* The batch is through: the status goes by who is still waiting, and is written
\* whatever it has become meanwhile.
FinishSend(h) ==
    /\ call[h].kind = "send" /\ call[h].queue = {}
    /\ poll' = IF poll.deleted THEN poll
               ELSE [poll EXCEPT !.status =
                       IF PendingOf = {} \/ call[h].chosen THEN "Sent" ELSE "Sending"]
    /\ Through(h)
    /\ UNCHANGED <<edition, recipient, texts, again, orphaned, public>>

\* The server stops, or the connection is cut, in the middle of a batch.
Stop(h) ==
    /\ call[h] # NoCall
    /\ Through(h)
    /\ UNCHANGED <<poll, edition, recipient, texts, again, orphaned, public>>

-----------------------------------------------------------------------------
(* Editing, closing and deleting: the row read is the row saved.            *)

RowCall(kind, row, replace) ==
    [kind |-> kind, row |-> row, replace |-> replace, whileOpen |-> poll.status # "Closed"]

\* The dialog is opened on a draft and stays open when the page finds out that the
\* poll is none any more: it then sends no questions.
Update(h) ==
    /\ canEdit => poll.status = "Draft" /\ edition < MaxEditions
    /\ Request(h, RowCall("update", poll, canEdit))
    /\ UNCHANGED <<poll, edition, recipient, texts, again, orphaned, public>>

Close(h) ==
    /\ canClose
    /\ Request(h, RowCall("close", [poll EXCEPT !.status = "Closed"], FALSE))
    /\ UNCHANGED <<poll, edition, recipient, texts, again, orphaned, public>>

\* A rewritten edition takes the answers to the old one along; people stay marked
\* as having answered.
SaveRow(h) ==
    /\ call[h].kind \in {"update", "close"}
    /\ poll' = call[h].row
    /\ IF call[h].replace /\ edition < MaxEditions
       THEN /\ edition' = edition + 1
            /\ answers' = [c \in Customers |-> {}]
            /\ orphaned' = orphaned \union {c \in Customers : recipient[c].responded}
       ELSE UNCHANGED <<edition, answers, orphaned>>
    /\ Through(h)
    /\ UNCHANGED <<recipient, texts, again, page, filed>>

\* From the list of polls, which may be out of date too.
Delete(h) ==
    /\ poll.status = "Draft"
    /\ Request(h, [kind |-> "delete"])
    /\ UNCHANGED <<poll, edition, recipient, texts, again, orphaned, public>>

Remove(h) ==
    /\ call[h].kind = "delete"
    /\ poll' = [poll EXCEPT !.deleted = TRUE]
    /\ Through(h)
    /\ UNCHANGED <<edition, recipient, texts, again, orphaned, public>>

Restore ==
    /\ ~Live
    /\ poll' = [poll EXCEPT !.deleted = FALSE]
    /\ UNCHANGED <<edition, recipient, call, desk, texts, again, orphaned, public>>

-----------------------------------------------------------------------------
(* The customer's browser.                                                  *)

\* The page that opens: the form, or the reason why there is none.
GetPublic(l) ==
    LET r == recipient[LinkOf[l]]
    IN  /\ page[l].state \in {"none", "open"}
        /\ r # Absent /\ Live
        /\ page' = [page EXCEPT ![l] =
              IF r.responded \/ poll.status = "Closed" THEN NoPage
              ELSE [state |-> "open", edition |-> edition]]
        /\ page' # page
        /\ UNCHANGED <<office, recipient, answers, filed>>

\* A message, and the form is still there.
Refused(l) == [page EXCEPT ![l] = [state |-> "open", edition |-> @.edition]]

\* The button waits for the required questions; Submit's checks, before its
\* transaction.
Submit(l, given) ==
    /\ page[l].state = "open"
    /\ Required \subseteq given
    /\ Live /\ poll.status # "Closed"
    /\ ~recipient[LinkOf[l]].responded
    /\ given \union Required # {} => page[l].edition = edition
    /\ page' = [page EXCEPT ![l] =
          [state |-> "checked", edition |-> @.edition, given |-> given]]
    /\ UNCHANGED <<office, recipient, answers, filed>>

\* Mutant: answers without the unique index, and without the reference to questions.
FitsTwice(given, c) == \A a \in given : a[1] = edition

FitsOld(given, c) == given \intersect answers[c] = {}

\* Whether the database takes the answers: each question must exist, and have no
\* answer of this person yet.
Fits(given, c) ==
    \A a \in given : a[1] = edition /\ a \notin answers[c]

Sheet(l) == {page[l].edition} \X page[l].given

InsertAnswers(l) ==
    LET c == LinkOf[l]
    IN  /\ page[l].state = "checked"
        /\ IF Fits(Sheet(l), c)
           THEN /\ answers' = [answers EXCEPT ![c] = @ \union Sheet(l)]
                /\ recipient' = [recipient EXCEPT ![c].responded = TRUE]
                /\ filed' = [filed EXCEPT ![c] = @ \union {l}]
                /\ page' = [page EXCEPT ![l] = [state |-> "filed", edition |-> @.edition]]
           ELSE /\ page' = Refused(l)
                /\ UNCHANGED <<answers, recipient, filed>>
        /\ UNCHANGED office

\* The answers are on file; the browser hears of it and says thank you, or takes
\* its request for lost.
Hear(l) ==
    /\ page[l].state = "filed"
    /\ page' = [page EXCEPT ![l] = NoPage]
    /\ UNCHANGED <<office, recipient, answers, filed>>

GiveUp(l) ==
    /\ page[l].state = "filed"
    /\ page' = Refused(l)
    /\ UNCHANGED <<office, recipient, answers, filed>>

-----------------------------------------------------------------------------
OfficeStep(h) ==
    \/ \E set \in SUBSET Customers : BuildAudience(h, set)
    \/ \E chosen, queue \in SUBSET Customers : Send(h, chosen, queue)
    \/ Update(h) \/ Close(h) \/ Delete(h) \/ Stop(h)

\* What a handler that has begun goes on to do.
ServerStep(h) ==
    \/ InsertRecipients(h)
    \/ \E c \in Customers : Text(h, c)
    \/ \E outcome \in Outcomes : Note(h, outcome)
    \/ FailToNote(h)
    \/ FinishSend(h) \/ SaveRow(h) \/ Remove(h)

CustomerStep(l) ==
    \/ GetPublic(l) \/ InsertAnswers(l) \/ Hear(l) \/ GiveUp(l)
    \/ \E given \in SUBSET Slots : Submit(l, given)

Next ==
    \/ \E h \in Handlers : OfficeStep(h) \/ ServerStep(h)
    \/ \E l \in Links : CustomerStep(l)
    \/ Reload \/ Restore

Spec == Init /\ [][Next]_vars

-----------------------------------------------------------------------------
TypeOK ==
    /\ poll \in [status : PollStatus, deleted : BOOLEAN]
    /\ edition \in 1..MaxEditions
    /\ recipient \in [Customers -> {Absent} \union [sms : SMSStatus, responded : BOOLEAN]]
    /\ answers \in [Customers -> SUBSET ((1..MaxEditions) \X Slots)]
    /\ desk \in PollStatus
    /\ \A h \in Handlers :
          /\ call[h].kind \in Kinds \union {"none"}
          /\ call[h].kind = "send" =>
                call[h].queue \subseteq Reachable /\ call[h].texting \in call[h].queue \union {None}
    /\ \A l \in Links : page[l].state \in {"none", "open", "checked", "filed"}
    /\ filed \in [Customers -> SUBSET Links]

\* Send reads who is waiting and texts them one by one much later: whoever a batch
\* is texting still waits then, unless another batch had them as well.  How often
\* a person is texted in all is another matter, see InvitedOnce.
TextsWaiting ==
    \A h \in Handlers : call[h].kind = "send" /\ call[h].texting # None =>
        \/ recipient[call[h].texting].sms = "Pending"
        \/ call[h].texting \in again

\* "One invitation per customer per poll": nobody is texted twice.  The index the
\* comment stands beside only keeps the rows apart; the text and its note are two
\* statements, and a stop or a failed note between them leaves the row waiting.
InvitedOnce == \A c \in Customers : texts[c] < 2

\* Where a question must be answered, the answers of a person come from one
\* submission, in however many browsers the link is open.
AnsweredOnce ==
    Required # {} =>
        \A c \in Customers : Cardinality(filed[c]) > 1 => c \in orphaned

\* Whoever counts as having answered has answers to all that must be answered,
\* and to nothing that is not asked, unless an edit has removed them.
AnswersComplete ==
    \A c \in Customers :
        /\ answers[c] \subseteq {edition} \X Slots
        /\ recipient[c].responded =>
              {edition} \X Required \subseteq answers[c] \/ c \in orphaned

\* "Close stops further answers": a closed poll is opened again only by a batch
\* or an edit that had begun before it was closed.
Reopened == poll.status = "Closed" /\ poll'.status # "Closed"

ClosedStays ==
    [][Reopened => \E h \in Handlers :
          /\ call[h] # NoCall /\ call'[h] = NoCall
          /\ call[h].kind \in {"send", "update"} /\ call[h].whileOpen]_vars

\* "Rewriting the questions after invitations have gone out would orphan the
\* answers already given, so it is only allowed while the poll is a draft": nobody
\* who was texted loses an answer.
AnswersStand == \A c \in orphaned : texts[c] = 0
=============================================================================
