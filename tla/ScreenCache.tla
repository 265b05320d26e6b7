------------------------------ MODULE ScreenCache ------------------------------
(***************************************************************************)
(* The query cache of the web client under its screens: what is on screen, *)
(* against what the server holds.                                          *)
(*                                                                         *)
(* Queries are cached, dropped and asked for one by one, so one of them is *)
(* watched, whichever it is, while the user moves between the screens that *)
(* read it or write what it shows and one screen that does neither.        *)
(*                                                                         *)
(* How far an answer is behind the server is a set of marks, one for each  *)
(* kind of write it misses:                                                *)
(*   "own"     written by this browser, whose answer has not come yet;     *)
(*   "told"    written by this browser, which knows it succeeded;          *)
(*   "aging"   the same, but the screen is known not to drop the query;    *)
(*   "unsure"  written by this browser, which was told it failed;          *)
(*   "late"    an answer the server gave before the write, accepted after; *)
(*   "other"   written from elsewhere.                                     *)
(***************************************************************************)
EXTENDS Screens, Naturals

CONSTANT MaxWrites     \* writes the model makes (bound)

ASSUME CacheConstants == MaxWrites \in Nat \ {0}

VARIABLES
    watched,   \* the query looked at
    screens,   \* the screens that read it or write what it shows, as it sees them
    at,        \* the screen that is up
    dialog,    \* whether a dialog that reads the query is open on it
    cache,     \* the cached answer
    fetch,     \* the request for a new one that is under way
    failed,    \* the last request failed, and its retry
    op,        \* the operation under way
    writes     \* writes so far

vars == <<watched, screens, at, dialog, cache, fetch, failed, op, writes>>

Nothing == [now |-> "none"]

Concerns(o, key) == Touches(o, key) \/ key \in o.drops

\* A screen as the query sees it.  An operation promises to show its write on
\* the queries it drops and on those of its own screen.  Screens that look alike
\* to the query are one.
Side(n, key) ==
    LET ops == AppRoutes[n].ops
    IN  [reads |-> key \in AppRoutes[n].reads,
         dialog |-> \E d \in AppRoutes[n].dialogs : key \in d,
         ops |-> {[touches |-> Touches(ops[o], key),
                   drops |-> key \in ops[o].drops,
                   promises |-> \/ key \in ops[o].drops
                                \/ key \in AppRoutes[n].reads
                                   /\ <<<<n, o>>, key>> \notin LeftToAge] :
                  o \in {name \in DOMAIN ops : Concerns(ops[name], key)}}]

Elsewhere == [reads |-> FALSE, dialog |-> FALSE, ops |-> {}]

View(key) == {Side(n, key) : n \in DOMAIN AppRoutes} \union {Elsewhere}

ReadBy(n, open) == n.reads \/ (open /\ n.dialog)
Shown == ReadBy(at, dialog)

-----------------------------------------------------------------------------
(* The query client's defaults, and the two queries that override them.    *)

\* Asked for again every minute while on screen.
Polled(key) == key \in {"my-delivered-part-requests", "my-part-shipments-summary"}

\* Never trusted from the cache when a screen opens.
AlwaysAsked(key) == key = "my-delivered-part-requests"

Asked == [now |-> "asked"]
Answered(misses) == [now |-> "answered", misses |-> misses]

\* Dropped answers and answers older than five minutes are stale.
Stale == IF cache = Nothing THEN TRUE ELSE cache.invalid \/ cache.old

\* A screen or dialog that starts to read the query asks for it if it must; one
\* request at a time.
Opens(n, open) ==
    /\ at' = n /\ dialog' = open
    /\ fetch' = IF /\ ~Shown /\ ReadBy(n, open)
                   /\ fetch = Nothing
                   /\ (Stale \/ AlwaysAsked(watched))
                THEN Asked ELSE fetch
    /\ UNCHANGED <<watched, screens, cache, failed, op, writes>>

Init ==
    /\ watched \in Keys(AppRoutes)
    /\ screens = View(watched)
    /\ at = Elsewhere /\ dialog = FALSE
    /\ cache = Nothing /\ fetch = Nothing
    /\ failed = FALSE
    /\ op = Nothing
    /\ writes = 0

Go(n) == n # at /\ Opens(n, FALSE)

OpenDialog ==
    /\ ~dialog
    /\ at.dialog
    /\ Opens(at, TRUE)

CloseDialog == dialog /\ Opens(at, FALSE)

\* Mutant: the timer spares an answer that still counts as fresh.
RefreshStale ==
    /\ Shown /\ fetch = Nothing /\ Stale
    /\ fetch' = Asked
    /\ UNCHANGED <<watched, screens, at, dialog, cache, failed, op, writes>>

\* The refresh button, and the timer of a polled query.
Refresh ==
    /\ Shown /\ fetch = Nothing
    /\ fetch' = Asked
    /\ UNCHANGED <<watched, screens, at, dialog, cache, failed, op, writes>>

Poll == Polled(watched) /\ Refresh

\* The server computes the answer from what it holds now.
Serve ==
    /\ fetch = Asked
    /\ fetch' = Answered({})
    /\ UNCHANGED <<watched, screens, at, dialog, cache, failed, op, writes>>

Receive ==
    /\ fetch.now = "answered"
    /\ cache' = [now |-> "cached", misses |-> fetch.misses, invalid |-> FALSE, old |-> FALSE]
    /\ fetch' = Nothing
    /\ failed' = FALSE
    /\ UNCHANGED <<watched, screens, at, dialog, op, writes>>

\* Mutant: a request that failed goes on counting as under way.
FailsAndStays ==
    /\ fetch.now = "answered"
    /\ fetch' = [now |-> "failed"]
    /\ failed' = TRUE
    /\ UNCHANGED <<watched, screens, at, dialog, cache, op, writes>>

\* The request or its answer is lost, or the server refuses, twice.
FetchFails ==
    /\ fetch.now = "answered"
    /\ fetch' = Nothing
    /\ failed' = TRUE
    /\ UNCHANGED <<watched, screens, at, dialog, cache, op, writes>>

\* Five minutes pass.
GrowsOld ==
    /\ cache.now = "cached" /\ ~cache.old
    /\ cache' = [cache EXCEPT !.old = TRUE]
    /\ UNCHANGED <<watched, screens, at, dialog, fetch, failed, op, writes>>

-----------------------------------------------------------------------------
(* Writes.                                                                 *)

\* A write the cached answer, and one on its way, do not show.
Missed(mark) ==
    /\ cache' = IF cache.now = "cached" THEN [cache EXCEPT !.misses = @ \union {mark}]
                ELSE cache
    /\ fetch' = IF fetch.now = "answered" THEN [fetch EXCEPT !.misses = @ \union {mark}]
                ELSE fetch

OtherWrites ==
    /\ writes < MaxWrites
    /\ Missed("other")
    /\ writes' = writes + 1
    /\ UNCHANGED <<watched, screens, at, dialog, failed, op>>

Press(effect) ==
    /\ op = Nothing
    /\ writes < MaxWrites
    /\ op' = [now |-> "sent", effect |-> effect]
    /\ writes' = writes + 1
    /\ UNCHANGED <<watched, screens, at, dialog, cache, fetch, failed>>

Commit ==
    /\ op.now = "sent"
    /\ op' = [op EXCEPT !.now = "done"]
    /\ IF op.effect.touches THEN Missed("own")
       ELSE UNCHANGED <<cache, fetch>>
    /\ UNCHANGED <<watched, screens, at, dialog, failed, writes>>

Refuse ==
    /\ op.now = "sent"
    /\ op' = Nothing
    /\ UNCHANGED <<watched, screens, at, dialog, cache, fetch, failed, writes>>

Renamed(misses, mark) ==
    IF "own" \in misses THEN (misses \ {"own"}) \union {mark} ELSE misses

Marked(answer, mark) ==
    IF answer.now \in {"cached", "answered"}
    THEN [answer EXCEPT !.misses = Renamed(@, mark)] ELSE answer

\* The answer is lost on the way: an error is shown and nothing is dropped.
LoseAnswer ==
    /\ op.now = "done"
    /\ op' = Nothing
    /\ cache' = Marked(cache, "unsure")
    /\ fetch' = Marked(fetch, "unsure")
    /\ UNCHANGED <<watched, screens, at, dialog, failed, writes>>

\* onSuccess runs wherever the user has gone meanwhile.  A dropped query that is
\* on screen is asked for again; a request under way is given up for that only
\* if there is an answer to go on showing.
Mark(effect) == IF effect.promises THEN "told" ELSE "aging"

\* Mutant: what is dropped is asked for again when a screen next opens.
SucceedQuietly ==
    /\ op.now = "done"
    /\ op' = Nothing
    /\ cache' = LET marked == Marked(cache, Mark(op.effect))
                IN  IF op.effect.drops /\ cache.now = "cached"
                    THEN [marked EXCEPT !.invalid = TRUE] ELSE marked
    /\ fetch' = Marked(fetch, "late")
    /\ UNCHANGED <<watched, screens, at, dialog, failed, writes>>

Succeed ==
    /\ op.now = "done"
    /\ op' = Nothing
    /\ LET again == op.effect.drops /\ Shown /\ (fetch = Nothing \/ cache.now = "cached")
           marked == Marked(cache, Mark(op.effect))
       IN  /\ cache' = IF op.effect.drops /\ cache.now = "cached"
                       THEN [marked EXCEPT !.invalid = TRUE] ELSE marked
           /\ fetch' = IF again THEN Asked ELSE Marked(fetch, "late")
    /\ UNCHANGED <<watched, screens, at, dialog, failed, writes>>

-----------------------------------------------------------------------------
Next ==
    \/ \E n \in screens : Go(n)
    \/ OpenDialog \/ CloseDialog
    \/ Refresh \/ Poll \/ Serve \/ Receive \/ FetchFails \/ GrowsOld
    \/ OtherWrites
    \/ \E effect \in at.ops : Press(effect)
    \/ Commit \/ Refuse \/ LoseAnswer \/ Succeed

(* The timer of a polled query fires, a request sent is served, and of the   *)
(* answers asked for again and again one arrives.                            *)
Fairness == WF_vars(Poll) /\ WF_vars(Serve) /\ SF_vars(Receive)

Spec == Init /\ [][Next]_vars /\ Fairness

-----------------------------------------------------------------------------
Marks == {"own", "told", "aging", "unsure", "late", "other"}

TypeOK ==
    /\ at \in screens
    /\ dialog \in BOOLEAN /\ failed \in BOOLEAN
    /\ \/ cache = Nothing
       \/ cache \in [now : {"cached"}, misses : SUBSET Marks, invalid : BOOLEAN, old : BOOLEAN]
    /\ fetch \in {Nothing, Asked} \union [now : {"answered"}, misses : SUBSET Marks]
    /\ \/ op = Nothing
       \/ op.now \in {"sent", "done"} /\ (op.effect.touches \/ op.effect.drops)
    /\ writes \in 0..MaxWrites

\* What the answer on screen misses.
Missing == IF cache.now = "cached" THEN cache.misses ELSE {}

\* Once nothing is being fetched, a screen does not show less than this browser
\* knows it has written, unless it says the list could not be loaded.
OwnWriteShows ==
    Shown /\ fetch = Nothing /\ ~failed => "told" \notin Missing

\* "Delivery happens on someone else's screen, so never trust a cached answer":
\* what is asked for every minute catches up with every write, its own
\* screen's and other people's, while it stays on screen.
PolledCatchesUp ==
    (Polled(watched) /\ Shown)
        ~> (~Shown \/ (cache.now = "cached" /\ Missing = {}))

\* A write this browser knows of reaches the screen that is up, or the screen
\* says it could not load, or the user leaves.
OwnWriteArrives ==
    (Shown /\ "told" \in Missing) ~> (~Shown \/ failed \/ "told" \notin Missing)
=============================================================================
