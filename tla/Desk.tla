---------------------------------- MODULE Desk ----------------------------------
(***************************************************************************)
(* A list page of the office at work: the user picks an operation from the *)
(* menu of a row, a dialog asks for confirmation, and the page sends the   *)
(* operation while other people move the same rows.                        *)
(*                                                                         *)
(* What the pages have in common is here; each page is a record of what it *)
(* does differently, see ListPages.                                        *)
(***************************************************************************)
EXTENDS ListPages, Naturals

CONSTANTS
    Pages,      \* the pages a behaviour may be about
    Rows,
    Me,         \* the kind of account at the desk: "admin" or "technical"
    MaxSent,    \* confirmations, and
    MaxMoves    \* moves of others, that the model makes (bounds)

VARIABLES
    page,    \* the page that is up
    row,     \* the rows, as the server has them
    held,    \* rows that something hangs on, so that a plain delete is refused:
             \* where there may be any, one (bound)
    shown,   \* the status each row has in the list on screen
    ui,      \* the page's own state
    sent,    \* operations under way
    warned,  \* rows of which a plain delete has come back refused, or whose
             \* dialog was open when one did (history)
    left     \* confirmations and moves of others the model still makes; the
             \* user is done with the page after the last confirmation

vars == <<page, row, held, shown, ui, sent, warned, left>>

-----------------------------------------------------------------------------
Acts == PageTable[page].acts
Is(a, trait) == trait \in Acts[a].traits
Does(trait) == trait \in PageTable[page].traits
Keys(p) == {PageTable[p].acts[a].key : a \in DOMAIN PageTable[p].acts} \union {"form"}

ASSUME DeskConstants ==
    /\ Pages \subseteq DOMAIN PageTable
    /\ Me \in {"admin", "technical"}
    /\ MaxSent \in Nat /\ MaxMoves \in Nat
    /\ None \notin Rows \union {"admin", "technical"}

-----------------------------------------------------------------------------
Unsigned == {None, Me}

\* The server takes the operation: the status allows it, only an administrator
\* deletes, nothing hangs on a row that is deleted, and a row one kind of account
\* has signed is not signed by the other (the table refuses a row with both).
Takes(a, r, force) ==
    /\ row[r].status \in Acts[a].taken
    /\ a = "delete" => Me = "admin"
    /\ a = "delete" => r \notin held \/ force
    /\ Is(a, "signed") => row[r].by \in Unsigned

After(a, r, who) ==
    [row[r] EXCEPT !.status = IF Acts[a].to = None THEN @ ELSE Acts[a].to,
                   !.by = IF Is(a, "signed") THEN who ELSE @]

NobodyAsked == [act |-> "none", row |-> None, status |-> "none"]

\* A repair whose part was shipped, a category or a catalog entry in use.
MayBeHeld == {"repairs", "categories", "catalog"}

Idle(keys) ==
    [open |-> FALSE, asked |-> NobodyAsked, row |-> None, blocked |-> FALSE,
     text |-> [k \in keys |-> {}]]

Init ==
    /\ page \in Pages
    /\ row = [r \in Rows |-> [status |-> PageTable[page].first, by |-> None]]
    /\ held \in IF page \in MayBeHeld THEN {{r} : r \in Rows} ELSE {{}}
    /\ shown = [r \in Rows |-> row[r].status]
    /\ ui = Idle(Keys(page))
    /\ sent = {}
    /\ warned = {}
    /\ left = [sent |-> MaxSent, moves |-> MaxMoves]

AtDesk == left.sent > 0
Open == ui.asked.act
Busy(key) == \E s \in sent : s.key = key
KeyOf(a) == IF a = "add" THEN "form" ELSE Acts[a].key
Offered(r, a) ==
    /\ shown[r] \in Acts[a].offered
    /\ a = "delete" => Me = "admin" \/ Does("toAll")
Asked(a, r) == [act |-> a, row |-> r, status |-> IF r = None THEN "none" ELSE shown[r]]

\* Mutant: opening the dialog leaves it as the last refusal turned it.
MenuStillTurned(r, a) ==
    /\ AtDesk /\ ~ui.open /\ Offered(r, a) /\ ~Is(a, "box")
    /\ ui' = [ui EXCEPT !.open = TRUE, !.asked = Asked(a, r),
                        !.row = IF Is(a, "own") THEN @ ELSE r]
    /\ UNCHANGED <<page, row, held, shown, sent, warned, left>>

\* The menu of a row: the dialog opens on that row.
Menu(r, a) ==
    /\ AtDesk /\ ~ui.open /\ Offered(r, a) /\ ~Is(a, "box")
    /\ ui' = [ui EXCEPT !.open = TRUE, !.asked = Asked(a, r),
                        !.row = IF Is(a, "own") THEN @ ELSE r,
                        !.blocked = IF a = "delete" THEN FALSE ELSE @]
    /\ UNCHANGED <<page, row, held, shown, sent, warned, left>>

\* The row is looked at, and left selected when the dialog is closed.
View(r) ==
    /\ AtDesk /\ ~ui.open /\ Does("views") /\ shown[r] # "gone"
    /\ ui.row # r
    /\ ui' = [ui EXCEPT !.row = r]
    /\ UNCHANGED <<page, row, held, shown, sent, warned, left>>

\* The button for a new entry opens the form rows are edited in.
Add ==
    /\ AtDesk /\ ~ui.open /\ PageTable[page].add # "none"
    /\ page = "patterns" => Me = "admin"
    /\ ui' = [ui EXCEPT !.open = TRUE, !.asked = Asked("add", None),
                        !.row = IF PageTable[page].add = "blank" THEN None ELSE @]
    /\ UNCHANGED <<page, row, held, shown, sent, warned, left>>

\* Mutant: no dialog empties its form when it is closed.
KeptTyped(u, key) == u

Emptied(u, key) ==
    IF \E a \in DOMAIN Acts : Acts[a].key = key /\ Is(a, "types")
    THEN [u EXCEPT !.text[key] = {}] ELSE u

Dismissed(u) ==
    Emptied([u EXCEPT !.open = FALSE, !.asked = NobodyAsked, !.blocked = FALSE],
            KeyOf(u.asked.act))

Dismiss ==
    /\ AtDesk /\ ui.open
    /\ ui' = IF Does("forgets") THEN [Dismissed(ui) EXCEPT !.row = None]
             ELSE Dismissed(ui)
    /\ UNCHANGED <<page, row, held, shown, sent, warned, left>>

\* Something is typed for the row the dialog was opened on.
Type ==
    /\ AtDesk /\ ui.open /\ Open # "add"
    /\ Is(Open, "types") \/ Is(Open, "keeps")
    /\ ui' = [ui EXCEPT !.text[KeyOf(Open)] = @ \union {ui.asked.row}]
    /\ UNCHANGED <<page, row, held, shown, sent, warned, left>>

Operation(a, r, asked, force) ==
    [key |-> KeyOf(a), act |-> a, row |-> r, asked |-> asked, force |-> force,
     text |-> ui.text[KeyOf(a)], answer |-> "none"]

\* Mutant: the pages with two row variables confirm with the wrong one.
TheSelectedRow == ui.row

\* The row an operation is sent for.
Target == IF Open # "add" /\ Is(Open, "own") THEN ui.asked.row ELSE ui.row

\* What is sent: the form edits the row it has, or adds; the dialog that decides
\* on a guarantee sends the decision its form was first drawn with, an approval,
\* in a field the user cannot change.
Chosen ==
    IF KeyOf(Open) = "form" THEN IF Target = None THEN "add" ELSE "edit"
    ELSE IF page = "guarantees" /\ Open = "reject" THEN "approve"
    ELSE Open

\* Mutant: the button stays enabled while its mutation is under way.
ConfirmTwice(force) ==
    /\ ui.open
    /\ Target # None \/ KeyOf(Open) = "form"
    /\ force => ui.blocked /\ Me = "admin"
    /\ force = (ui.blocked /\ Open = "delete")
    /\ sent' = sent \union {Operation(Chosen, Target, ui.asked, force)}
    /\ AtDesk /\ left' = [left EXCEPT !.sent = @ - 1]
    /\ UNCHANGED <<page, row, held, shown, ui, warned>>

\* The button is disabled while its mutation is under way.  A dialog left without
\* a row sends nothing.
Confirm(force) ==
    /\ ui.open
    /\ ~Busy(KeyOf(Open))
    /\ Target # None \/ KeyOf(Open) = "form"
    /\ force => ui.blocked /\ Me = "admin"
    /\ force = (ui.blocked /\ Open = "delete")
    /\ sent' = sent \union {Operation(Chosen, Target, ui.asked, force)}
    /\ AtDesk /\ left' = [left EXCEPT !.sent = @ - 1]
    /\ UNCHANGED <<page, row, held, shown, ui, warned>>

\* A cancellation confirmed in the browser's box.  The guarantees' page selects
\* the row first, but sends what was selected when the page was drawn.
Box(r, a) ==
    /\ ~ui.open /\ Offered(r, a) /\ Is(a, "box")
    /\ ~Busy(KeyOf(a))
    /\ LET target == IF page = "guarantees" THEN ui.row ELSE r
       IN  sent' = IF target = None THEN sent
                   ELSE sent \union {Operation(a, target, Asked(a, r), FALSE)}
    /\ ui' = IF page = "guarantees" THEN [ui EXCEPT !.row = r] ELSE ui
    /\ AtDesk /\ left' = [left EXCEPT !.sent = @ - 1]
    /\ UNCHANGED <<page, row, held, shown, warned>>

\* The server's decision.
Decide(s) ==
    /\ s.answer = "none"
    /\ LET taken == s.act = "add" \/ Takes(s.act, s.row, s.force)
       IN  /\ sent' = (sent \ {s}) \union
                 {[s EXCEPT !.answer = IF taken THEN "done" ELSE "refused"]}
           /\ row' = IF taken /\ s.act # "add"
                     THEN [row EXCEPT ![s.row] = After(s.act, s.row, Me)] ELSE row
    /\ UNCHANGED <<page, held, shown, ui, warned, left>>

\* onSuccess: the selected row is let go of and the dialog of this operation is
\* closed, whichever row they are about by now.
Closing(u, s) ==
    LET same == u.open /\ (Does("forgets") \/ KeyOf(u.asked.act) = s.key)
        closed == IF same THEN Dismissed(u) ELSE u
        own == s.act # "add" /\ Is(s.act, "own")
    IN  [closed EXCEPT !.row = IF own \/ s.act = "add" THEN @ ELSE None,
                       !.blocked = IF s.act = "delete" THEN FALSE ELSE @,
                       !.text[s.key] = {}]

Succeed(s) ==
    /\ s.answer = "done"
    /\ sent' = sent \ {s}
    /\ ui' = IF page \in {"myRequests", "myParcels"} THEN ui ELSE Closing(ui, s)
    /\ UNCHANGED <<page, row, held, shown, warned, left>>

\* onError: a message.  On the repairs' page a refused deletion of a row that
\* something hangs on turns the dialog to the forced deletion instead.
Fail(s) ==
    /\ s.answer = "refused"
    /\ sent' = sent \ {s}
    /\ LET conflict == page = "repairs" /\ s.act = "delete" /\ s.row \in held
                          /\ row[s.row].status # "gone"
       IN  /\ ui' = IF conflict THEN [ui EXCEPT !.blocked = TRUE] ELSE ui
           /\ warned' = IF ~conflict THEN warned
                        ELSE warned \union {s.row} \union
                                (IF Open = "delete" THEN {ui.asked.row} ELSE {})
    /\ UNCHANGED <<page, row, held, shown, left>>

\* The request or its answer is lost.
Lose(s) ==
    /\ sent' = sent \ {s}
    /\ UNCHANGED <<page, row, held, shown, ui, warned, left>>

\* The list is asked for again.
Refresh ==
    /\ AtDesk
    /\ shown' = [r \in Rows |-> row[r].status]
    /\ shown' # shown
    /\ UNCHANGED <<page, row, held, ui, sent, warned, left>>

\* Somebody else moves a row.
Elsewhere(r, a, who) ==
    /\ row[r].status \in Acts[a].taken
    /\ a = "delete" => who = "admin"
    /\ Is(a, "signed") => row[r].by \in {None, who}
    /\ row' = [row EXCEPT ![r] = After(a, r, who)]
    /\ row' # row
    /\ left.moves > 0 /\ left' = [left EXCEPT !.moves = @ - 1]
    /\ UNCHANGED <<page, held, shown, ui, sent, warned>>

Next ==
    \/ \E r \in Rows, a \in DOMAIN Acts : Menu(r, a) \/ Box(r, a)
    \/ \E r \in Rows : View(r)
    \/ Add \/ Dismiss \/ Type \/ Refresh
    \/ \E force \in BOOLEAN : Confirm(force)
    \/ \E s \in sent : Decide(s) \/ Succeed(s) \/ Fail(s) \/ Lose(s)
    \/ \E r \in Rows, a \in DOMAIN Acts, who \in {"admin", "technical"} : Elsewhere(r, a, who)

Spec == Init /\ [][Next]_vars

-----------------------------------------------------------------------------
Statuses == PageTable[page].statuses \union {"gone"}

TypeOK ==
    /\ page \in Pages
    /\ row \in [Rows -> [status : Statuses, by : {None, "admin", "technical"}]]
    /\ held \subseteq Rows /\ warned \subseteq Rows
    /\ shown \in [Rows -> Statuses]
    /\ ui.open \in BOOLEAN /\ ui.blocked \in BOOLEAN
    /\ ui.open <=> Open # "none"
    /\ {ui.row, ui.asked.row} \subseteq Rows \union {None}
    /\ ui.text \in [Keys(page) -> SUBSET Rows]
    /\ left.sent \in 0..MaxSent /\ left.moves \in 0..MaxMoves
    /\ \A s, other \in sent : s.key = other.key => s = other

\* A page has one variable for the row all its dialogs are about: what is sent is
\* still what was picked, for the row it was picked for, whatever was looked at
\* before and whatever answers have come in since.  This is said of every
\* operation but those in Astray: the guarantees' decision and cancellation, and
\* the forms of five pages, where the code does not keep it.
SendsWhatWasAsked ==
    \A s \in sent : <<page, s.key>> \notin Astray =>
        s.act = s.asked.act /\ s.row = s.asked.row

\* "Are you sure you want to cancel {{code}} for {{customer}}?": the row cancelled
\* is the one the user was asked about.
CancelsWhatItNames == \A s \in sent : s.key = "cancel" => s.row = s.asked.row

\* What was typed about one row is not sent with an operation on another.
NotesStayWithRow ==
    \A s \in sent : <<page, s.key>> \notin KeepsText => s.text \subseteq {s.asked.row}

\* A menu offers nothing the server refuses, unless the row has moved since the
\* list was drawn, something hangs on a row to be deleted, the page offers the
\* deletion to accounts that may delete nothing, or the other kind of account has
\* signed the row.
RefusedOnlyIfMoved ==
    \A s \in sent :
        s.answer = "refused" /\ <<page, s.key>> \notin Astray =>
            \/ row[s.row].status # s.asked.status
            \/ s.act = "delete" /\ s.row \in held
            \/ s.act = "delete" /\ Me # "admin" /\ Does("toAll")
            \/ row[s.row].by \notin Unsigned

\* "True once a plain delete has come back saying a part was shipped": a repair
\* is deleted by force only if a refusal has come back about it, or while its own
\* dialog was in front of the user; an earlier row's refusal never lasts.
ForcedAfterWarning ==
    \A s \in sent : s.force => s.row \in warned
=============================================================================
