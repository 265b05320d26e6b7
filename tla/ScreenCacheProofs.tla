-------------------------- MODULE ScreenCacheProofs --------------------------
(***************************************************************************)
(* What holds of ScreenCache for every query, whichever screens there are, *)
(* and for any number of writes.                                           *)
(***************************************************************************)
EXTENDS ScreenCache, TLAPS

\* What an operation does to the query.
Effect == [touches : BOOLEAN, drops : BOOLEAN, promises : BOOLEAN]

\* A screen only lists operations that concern the query, and the one under
\* way is one of those.
OpsConcern ==
    /\ \A n \in screens : \A e \in n.ops : e \in Effect /\ (e.touches \/ e.drops)
    /\ op # Nothing => /\ op \in [now : {"sent", "done"}, effect : Effect]
                       /\ op.effect.touches \/ op.effect.drops

IInv == TypeOK /\ OpsConcern

\* The operations a screen lists touch the query or drop it.
LEMMA ViewConcerns ==
    ASSUME NEW key, NEW n \in View(key), NEW e \in n.ops
    PROVE  e \in Effect /\ (e.touches \/ e.drops)
<1>1. CASE n = Elsewhere
  BY <1>1 DEF Elsewhere
<1>2. ASSUME NEW m \in DOMAIN AppRoutes, n = Side(m, key)
      PROVE  e \in Effect /\ (e.touches \/ e.drops)
  <2> DEFINE ops == AppRoutes[m].ops
  <2>1. PICK o \in DOMAIN ops :
            /\ Concerns(ops[o], key)
            /\ e = [touches |-> Touches(ops[o], key), drops |-> key \in ops[o].drops,
                    promises |-> \/ key \in ops[o].drops
                                 \/ key \in AppRoutes[m].reads
                                    /\ <<<<m, o>>, key>> \notin LeftToAge]
    BY <1>2 DEF Side
  <2>2. e = [touches |-> e.touches, drops |-> e.drops, promises |-> e.promises]
    BY <2>1
  <2>3. e.touches \in BOOLEAN /\ e.drops \in BOOLEAN /\ e.promises \in BOOLEAN
    BY <2>1 DEF Touches
  <2>4. e.touches \/ e.drops
    BY <2>1 DEF Concerns
  <2> QED BY <2>2, <2>3, <2>4 DEF Effect
<1> QED BY <1>1, <1>2 DEF View

\* Nothing is cached, asked for or written at the start.
THEOREM InvInit == Init => IInv
<1> SUFFICES ASSUME Init PROVE IInv
  OBVIOUS
<1>1. OpsConcern
  BY ViewConcerns DEF Init, OpsConcern
<1>2. at \in screens
  BY DEF Init, View
<1>3. writes \in 0..MaxWrites
  BY CacheConstants DEF Init
<1> QED BY <1>1, <1>2, <1>3 DEF Init, IInv, TypeOK, Nothing

-----------------------------------------------------------------------------
(* Answers and the marks on them. *)

Cached == [now : {"cached"}, misses : SUBSET Marks, invalid : BOOLEAN, old : BOOLEAN]
Answer == [now : {"answered"}, misses : SUBSET Marks]

\* A marked answer is an answer: only what it misses has changed.
LEMMA MarkedCache ==
    ASSUME NEW c \in Cached \union {Nothing}, NEW mark \in Marks
    PROVE  /\ Marked(c, mark) \in Cached \union {Nothing}
           /\ c = Nothing <=> Marked(c, mark) = Nothing
           /\ c # Nothing => /\ Marked(c, mark).misses \subseteq c.misses \union {mark}
                             /\ Marked(c, mark).invalid = c.invalid
  BY DEF Cached, Nothing, Marked, Renamed, Marks

\* A mark on a request for the list changes what its answer misses, and no more.
LEMMA MarkedFetch ==
    ASSUME NEW g \in {Nothing, Asked} \union Answer, NEW mark \in Marks
    PROVE  /\ Marked(g, mark) \in {Nothing, Asked} \union Answer
           /\ g = Nothing <=> Marked(g, mark) = Nothing
           /\ g.now = Marked(g, mark).now
           /\ g.now = "answered" => Marked(g, mark).misses \subseteq g.misses \union {mark}
  BY DEF Answer, Nothing, Asked, Marked, Renamed, Marks

\* A write the cache misses is marked on what is cached and what is under way.
LEMMA MissedType ==
    ASSUME TypeOK, NEW mark \in Marks, Missed(mark)
    PROVE  /\ cache' \in Cached \union {Nothing}
           /\ fetch' \in {Nothing, Asked} \union Answer
           /\ cache = Nothing <=> cache' = Nothing
           /\ cache # Nothing => /\ cache'.misses = cache.misses \union {mark}
                                 /\ cache'.invalid = cache.invalid
           /\ fetch = Nothing <=> fetch' = Nothing
           /\ fetch.now = fetch'.now
           /\ fetch.now = "answered" => fetch'.misses = fetch.misses \union {mark}
  BY DEF TypeOK, Missed, Cached, Answer, Nothing, Asked, Marks

\* An answer marked invalid or old is still one.
LEMMA InvalidType ==
    ASSUME NEW c \in Cached
    PROVE  /\ [c EXCEPT !.invalid = TRUE] \in Cached
           /\ [c EXCEPT !.invalid = TRUE].invalid
           /\ [c EXCEPT !.old = TRUE] \in Cached
           /\ [c EXCEPT !.old = TRUE].misses = c.misses
           /\ [c EXCEPT !.old = TRUE].invalid = c.invalid
  BY DEF Cached

\* What the type invariant says, by parts.
LEMMA Types ==
    TypeOK <=>
        /\ at \in screens /\ dialog \in BOOLEAN /\ failed \in BOOLEAN
        /\ cache \in Cached \union {Nothing}
        /\ fetch \in {Nothing, Asked} \union Answer
        /\ \/ op = Nothing
           \/ op.now \in {"sent", "done"} /\ (op.effect.touches \/ op.effect.drops)
        /\ writes \in 0..MaxWrites
  BY DEF TypeOK, Cached, Answer

\* Every step keeps the types.
THEOREM InvNext == IInv /\ [Next]_vars => IInv'
<1> SUFFICES ASSUME IInv, [Next]_vars PROVE IInv'
  OBVIOUS
<1>0. /\ at \in screens /\ dialog \in BOOLEAN /\ failed \in BOOLEAN
      /\ cache \in Cached \union {Nothing}
      /\ fetch \in {Nothing, Asked} \union Answer
      /\ writes \in 0..MaxWrites
      /\ OpsConcern /\ TypeOK
  BY Types DEF IInv
<1>00. ASSUME at' \in screens', dialog' \in BOOLEAN, failed' \in BOOLEAN,
              cache' \in Cached \union {Nothing},
              fetch' \in {Nothing, Asked} \union Answer,
              writes' \in 0..MaxWrites, OpsConcern'
       PROVE  IInv'
  BY <1>00 DEF IInv, TypeOK, OpsConcern, Cached, Answer
<1>1. CASE UNCHANGED vars
  BY <1>0, <1>1 DEF vars, IInv, TypeOK, OpsConcern
<1>2. ASSUME NEW n \in screens, NEW open \in BOOLEAN, Opens(n, open)
      PROVE  IInv'
  BY <1>0, <1>00, <1>2 DEF Opens, OpsConcern
<1>3. CASE Refresh \/ Poll \/ Serve \/ Receive \/ FetchFails
  <2>1. CASE Refresh \/ Poll
    BY <1>0, <1>00, <2>1 DEF Poll, Refresh, OpsConcern
  <2>2. CASE Serve
    BY <1>0, <1>00, <2>2 DEF Serve, Answered, Answer, OpsConcern
  <2>3. CASE Receive
    <3>1. fetch \in Answer
      BY <1>0, <2>3 DEF Receive, Nothing, Asked
    <3>2. cache' \in Cached
      BY <2>3, <3>1 DEF Receive, Answer, Cached
    <3> QED BY <1>0, <1>00, <2>3, <3>2 DEF Receive, OpsConcern
  <2>4. CASE FetchFails
    BY <1>0, <1>00, <2>4 DEF FetchFails, OpsConcern
  <2> QED BY <1>3, <2>1, <2>2, <2>3, <2>4
<1>4. CASE GrowsOld
  <2>1. cache \in Cached
    BY <1>0, <1>4 DEF GrowsOld, Nothing
  <2> QED BY <1>0, <1>00, <1>4, <2>1, InvalidType DEF GrowsOld, OpsConcern
<1>5. CASE OtherWrites
  <2>1. writes' \in 0..MaxWrites
    BY <1>0, <1>5, CacheConstants DEF OtherWrites
  <2> QED BY <1>0, <1>00, <1>5, <2>1, MissedType DEF OtherWrites, OpsConcern, Marks
<1>6. ASSUME NEW e \in at.ops, Press(e) PROVE IInv'
  <2>1. writes' \in 0..MaxWrites
    BY <1>0, <1>6, CacheConstants DEF Press
  <2>2. OpsConcern'
    BY <1>0, <1>6 DEF Press, OpsConcern
  <2> QED BY <1>0, <1>00, <1>6, <2>1, <2>2 DEF Press
<1>7. CASE Commit
  <2>1. op \in [now : {"sent", "done"}, effect : Effect]
    BY <1>0, <1>7 DEF Commit, OpsConcern, Nothing
  <2>2. OpsConcern'
    BY <1>0, <1>7, <2>1 DEF Commit, OpsConcern, Nothing
  <2>3. cache' \in Cached \union {Nothing} /\ fetch' \in {Nothing, Asked} \union Answer
    BY <1>0, <1>7, MissedType DEF Commit, Marks
  <2> QED BY <1>0, <1>00, <1>7, <2>2, <2>3 DEF Commit
<1>8. CASE Refuse
  BY <1>0, <1>00, <1>8 DEF Refuse, OpsConcern
<1>9. CASE LoseAnswer
  <2>1. cache' \in Cached \union {Nothing} /\ fetch' \in {Nothing, Asked} \union Answer
    BY <1>0, <1>9, MarkedCache, MarkedFetch DEF LoseAnswer, Marks
  <2> QED BY <1>0, <1>00, <1>9, <2>1 DEF LoseAnswer, OpsConcern
<1>10. CASE Succeed
  <2>1. PICK c \in Cached \union {Nothing} : /\ c = Marked(cache, Mark(op.effect))
                                             /\ cache = Nothing <=> c = Nothing
    BY <1>0, MarkedCache DEF Mark, Marks
  <2>2. Marked(fetch, "late") \in {Nothing, Asked} \union Answer
    BY <1>0, MarkedFetch DEF Marks
  <2>3. fetch' \in {Nothing, Asked} \union Answer
    BY <1>10, <2>2 DEF Succeed
  <2>4. cache' \in Cached \union {Nothing}
    <3>1. cache' = IF op.effect.drops /\ cache.now = "cached"
                   THEN [c EXCEPT !.invalid = TRUE] ELSE c
      BY <1>10, <2>1 DEF Succeed
    <3>2. cache.now = "cached" => c \in Cached
      BY <1>0, <2>1 DEF Nothing
    <3> QED BY <2>1, <3>1, <3>2, InvalidType
  <2> QED BY <1>0, <1>00, <1>10, <2>3, <2>4 DEF Succeed, OpsConcern
<1> QED
  BY <1>0, <1>1, <1>2, <1>3, <1>4, <1>5, <1>6, <1>7, <1>8, <1>9, <1>10
  DEF Next, Go, OpenDialog, CloseDialog

\* Every variable keeps its type, whatever the user, the server, the network and
\* other people do.
THEOREM TypeCorrect == Spec => []TypeOK
<1>1. IInv => TypeOK
  BY DEF IInv
<1> QED BY <1>1, InvInit, InvNext, PTL DEF Spec

-----------------------------------------------------------------------------
(* The tables. *)

\* What an operation of a screen makes out of date on the screen itself, it
\* drops, or it is known to be left to age.
DropsOwn(n, screen) ==
    \A o \in DOMAIN screen.ops, key \in screen.reads :
        Touches(screen.ops[o], key) =>
            key \in screen.ops[o].drops \/ <<<<n, o>>, key>> \in LeftToAge

\* Each of the client's screens drops its own queries, or the gap is listed.
LEMMA AllDropOwn ==
    ASSUME NEW n \in DOMAIN AppRoutes PROVE DropsOwn(n, AppRoutes[n])
<1> USE DEF DropsOwn, LeftToAge, Screen, Op, Deletion, Dashboard, Parcels, Touches, Shows
<1>1. DropsOwn("customers", CustomersPage)
  BY DEF CustomersPage
<1>2. DropsOwn("dashboard", DashboardPage)
  BY DEF DashboardPage, NoOps
<1>3. DropsOwn("categories", CategoriesPage)
  BY DEF CategoriesPage
<1>4. DropsOwn("products", ProductsPage)
  BY DEF ProductsPage
<1>5. DropsOwn("components", ComponentsPanel)
  BY DEF ComponentsPanel, RepairCatalogPanel
<1>6. DropsOwn("services", ServicesPanel)
  BY DEF ServicesPanel, RepairCatalogPanel
<1>7. DropsOwn("guarantees", GuaranteesPage)
  BY DEF GuaranteesPage
<1>8. DropsOwn("technicians", TechniciansPage)
  BY DEF TechniciansPage
<1>9. DropsOwn("repairs", RepairsPage)
  BY DEF RepairsPage
<1>10. DropsOwn("requests", PartRequestsPage)
  BY DEF PartRequestsPage
<1>11. DropsOwn("shipments", PartShipmentsPage)
  BY DEF PartShipmentsPage
<1>12. DropsOwn("finance", FinancePage)
  BY DEF FinancePage
<1>13. DropsOwn("pipeline", PipelinePage)
  BY DEF PipelinePage, NoOps
<1>14. DropsOwn("patterns", SmsTemplatesPage)
  BY DEF SmsTemplatesPage
<1>15. DropsOwn("polls", PollsPage)
  BY DEF PollsPage
<1>16. DropsOwn("poll", PollDetailPage)
  BY DEF PollDetailPage
<1>17. DropsOwn("audit", AuditLogPage)
  BY DEF AuditLogPage, NoOps
<1>18. DropsOwn("myRepairs", TechnicianDashboardPage)
  BY DEF TechnicianDashboardPage, DeliveredPartsCard, TechnicianLayout
<1>19. DropsOwn("myRequests", TechnicianPartRequestsPage)
  BY DEF TechnicianPartRequestsPage, TechnicianLayout
<1>20. DropsOwn("myShipments", TechnicianPartShipmentsPage)
  BY DEF TechnicianPartShipmentsPage, TechnicianLayout
<1>21. DropsOwn("myProfile", TechnicianProfilePage)
  BY DEF TechnicianProfilePage, TechnicianLayout, NoOps
<1>22. DropsOwn("trash", TrashPage)
  BY DEF TrashPage, Everything, Tables
<1> HIDE DEF DropsOwn, LeftToAge, Screen, Op, Deletion, Dashboard, Parcels, Touches, Shows
<1> QED
  BY <1>1, <1>2, <1>3, <1>4, <1>5, <1>6, <1>7, <1>8, <1>9, <1>10, <1>11,
     <1>12, <1>13, <1>14, <1>15, <1>16, <1>17, <1>18, <1>19, <1>20, <1>21,
     <1>22
  DEF AppRoutes, BeforeTrash

\* Nothing is listed as left to age that is not out of date.
THEOREM OnlyGapsLeft == LeftToAge \subseteq Gaps(AppRoutes)
<1> DEFINE IsGap(o, key, screen) ==
             /\ o \in DOMAIN screen.ops /\ key \in screen.reads
             /\ Touches(screen.ops[o], key) /\ key \notin screen.ops[o].drops
<1>1. ASSUME NEW n \in DOMAIN AppRoutes, NEW o, NEW key, IsGap(o, key, AppRoutes[n])
      PROVE  <<<<n, o>>, key>> \in Gaps(AppRoutes)
  <2>1. <<n, o>> \in Acts(AppRoutes)
    BY <1>1 DEF Acts
  <2>2. key \in Keys(AppRoutes)
    BY <1>1 DEF Keys
  <2> QED BY <1>1, <2>1, <2>2 DEF Gaps
<1>2. \A o \in {"create", "update", "delete", "toggle", "import"} :
          IsGap(o, "technicians-status-counts", TechniciansPage)
  BY DEF TechniciansPage, Screen, Op, Deletion, Dashboard, Touches, Shows, Parcels
<1>3. \A o \in {"adminCreate", "update"} :
          IsGap(o, "customers-list-for-filter", GuaranteesPage)
  BY DEF GuaranteesPage, Screen, Op, Deletion, Dashboard, Touches, Shows, Parcels
<1>4. IsGap("createRepair", "my-delivered-part-requests", TechnicianDashboardPage)
  BY DEF TechnicianDashboardPage, DeliveredPartsCard, TechnicianLayout, Screen, Op,
         Touches, Shows, Parcels
<1>5. /\ {"technicians", "guarantees", "myRepairs"} \subseteq DOMAIN AppRoutes
      /\ AppRoutes["technicians"] = TechniciansPage
      /\ AppRoutes["guarantees"] = GuaranteesPage
      /\ AppRoutes["myRepairs"] = TechnicianDashboardPage
  BY DEF AppRoutes, BeforeTrash
<1> HIDE DEF IsGap
<1> QED BY <1>1, <1>2, <1>3, <1>4, <1>5 DEF LeftToAge

-----------------------------------------------------------------------------
(* A screen shows what this browser knows it has written.                  *)

\* What is promised is dropped; an answer that misses a write this browser knows
\* of is marked invalid; and no answer on its way misses one.
Kept ==
    /\ \A n \in screens : \A e \in n.ops : e.promises => e.drops
    /\ op # Nothing /\ op.effect.promises => op.effect.drops
    /\ "told" \in Missing => cache.invalid
    /\ fetch.now = "answered" => "told" \notin fetch.misses

KInv == IInv /\ Kept /\ OwnWriteShows

\* What a screen promises of the query, its mutation drops.
LEMMA ViewKeepsPromises ==
    ASSUME NEW key \in Keys(AppRoutes), NEW n \in View(key), NEW e \in n.ops
    PROVE  e.promises => e.drops
<1>1. CASE n = Elsewhere
  BY <1>1 DEF Elsewhere
<1>2. ASSUME NEW m \in DOMAIN AppRoutes, n = Side(m, key), e.promises, ~e.drops
      PROVE  FALSE
  <2> DEFINE ops == AppRoutes[m].ops
  <2>1. PICK o \in DOMAIN ops :
            /\ Concerns(ops[o], key)
            /\ e = [touches |-> Touches(ops[o], key), drops |-> key \in ops[o].drops,
                    promises |-> \/ key \in ops[o].drops
                                 \/ key \in AppRoutes[m].reads
                                    /\ <<<<m, o>>, key>> \notin LeftToAge]
    BY <1>2 DEF Side
  <2>2. /\ key \notin ops[o].drops /\ Touches(ops[o], key)
        /\ key \in AppRoutes[m].reads /\ <<<<m, o>>, key>> \notin LeftToAge
    BY <1>2, <2>1 DEF Concerns
  <2> QED BY <2>2, AllDropOwn DEF DropsOwn
<1> QED BY <1>1, <1>2 DEF View

\* Nothing has been written and nothing is cached at the start.
THEOREM KeptInit == Init => KInv
<1> SUFFICES ASSUME Init PROVE KInv
  OBVIOUS
<1>1. \A n \in screens : \A e \in n.ops : e.promises => e.drops
  BY ViewKeepsPromises DEF Init
<1> QED BY <1>1, InvInit DEF Init, KInv, Kept, OwnWriteShows, Missing, Nothing

\* A step that leaves the operation alone, drops nothing and tells of no write.
LEMMA StepKeeps ==
    ASSUME KInv, screens' = screens, op' = op,
           "told" \in Missing' => "told" \in Missing /\ (cache.invalid => cache'.invalid),
           fetch'.now = "answered" =>
               "told" \notin fetch'.misses \/ (fetch.now = "answered" /\ fetch' = fetch)
    PROVE  Kept'
  BY DEF KInv, Kept

\* Every step keeps the promise.
THEOREM KeptNext == KInv /\ [Next]_vars => KInv'
<1> SUFFICES ASSUME KInv, [Next]_vars PROVE KInv'
  OBVIOUS
<1>0. /\ at \in screens /\ cache \in Cached \union {Nothing}
      /\ fetch \in {Nothing, Asked} \union Answer
      /\ OpsConcern /\ TypeOK /\ Kept /\ OwnWriteShows /\ IInv'
  BY InvNext, Types DEF KInv, IInv
<1>1. CASE UNCHANGED vars
  BY <1>0, <1>1
  DEF vars, KInv, Kept, OwnWriteShows, Missing, Shown, ReadBy
<1>2. ASSUME NEW n \in screens, NEW open \in BOOLEAN, Opens(n, open)
      PROVE  KInv'
  <2>1. Kept'
    BY <1>2, StepKeeps DEF Opens, Missing, KInv, Kept, Asked
  <2>2. OwnWriteShows'
    <3> SUFFICES ASSUME Shown', fetch' = Nothing, ~failed, "told" \in Missing
                 PROVE  FALSE
      BY <1>2 DEF Opens, OwnWriteShows, Missing
    <3>1. fetch = Nothing
      BY <1>2 DEF Opens, Asked, Nothing
    <3>2. ~Shown
      BY <1>0, <3>1 DEF OwnWriteShows
    <3>3. cache # Nothing /\ cache.invalid
      BY <1>0 DEF Kept, Missing, Nothing
    <3>4. Stale
      BY <3>3 DEF Stale
    <3>5. ReadBy(n, open)
      BY <1>2 DEF Opens, Shown, ReadBy
    <3>6. fetch' = Asked
      BY <1>2, <3>1, <3>2, <3>4, <3>5 DEF Opens
    <3> QED BY <3>6 DEF Asked, Nothing
  <2> QED BY <1>0, <2>1, <2>2 DEF KInv
<1>3. CASE Refresh \/ Poll \/ Serve
  <2>1. /\ fetch' = Asked \/ fetch' = Answered({})
        /\ UNCHANGED <<screens, op, cache>>
    BY <1>3 DEF Refresh, Poll, Serve
  <2>2. Kept'
    <3>1. fetch'.now = "answered" => "told" \notin fetch'.misses
      BY <2>1 DEF Asked, Answered
    <3> QED BY <1>0, <2>1, <3>1 DEF Kept, Missing
  <2>3. OwnWriteShows'
    BY <2>1 DEF OwnWriteShows, Asked, Answered, Nothing
  <2> QED BY <1>0, <2>2, <2>3 DEF KInv
<1>4. CASE Receive
  <2>1. /\ fetch \in Answer /\ cache'.now = "cached" /\ cache'.misses = fetch.misses
        /\ fetch' = Nothing /\ UNCHANGED <<screens, op>>
    BY <1>0, <1>4 DEF Receive, Nothing, Asked
  <2>2. "told" \notin Missing'
    BY <1>0, <1>4, <2>1 DEF Missing, Kept, Receive
  <2>3. Kept'
    BY <2>1, <2>2, StepKeeps DEF Nothing
  <2>4. OwnWriteShows'
    BY <2>2 DEF OwnWriteShows
  <2> QED BY <1>0, <2>3, <2>4 DEF KInv
<1>5. CASE FetchFails
  <2>1. Kept'
    BY <1>5, StepKeeps DEF FetchFails, Missing, Nothing
  <2>2. OwnWriteShows'
    BY <1>5 DEF FetchFails, OwnWriteShows
  <2> QED BY <1>0, <2>1, <2>2 DEF KInv
<1>6. CASE GrowsOld
  <2>1. /\ cache \in Cached /\ cache' = [cache EXCEPT !.old = TRUE]
        /\ UNCHANGED <<screens, at, dialog, fetch, failed, op>>
    BY <1>0, <1>6 DEF GrowsOld, Nothing
  <2>2. cache'.misses = cache.misses /\ cache'.invalid = cache.invalid
        /\ cache.now = "cached"
    BY <2>1, InvalidType DEF Cached
  <2>3. "told" \in Missing' => "told" \in Missing
    BY <2>2 DEF Missing
  <2>4. Kept'
    BY <1>0, <2>1, <2>2, <2>3, StepKeeps DEF Kept
  <2>5. OwnWriteShows'
    BY <1>0, <2>1, <2>3 DEF OwnWriteShows, Shown, ReadBy
  <2> QED BY <1>0, <2>4, <2>5 DEF KInv
<1>7. ASSUME NEW mark \in {"other", "own"}, Missed(mark),
             UNCHANGED <<screens, at, dialog, failed>>,
             op' # Nothing => op # Nothing /\ op'.effect = op.effect
      PROVE  KInv'
  <2>1. /\ cache = Nothing <=> cache' = Nothing
        /\ cache # Nothing => /\ cache'.misses = cache.misses \union {mark}
                              /\ cache'.invalid = cache.invalid
        /\ fetch = Nothing <=> fetch' = Nothing
        /\ fetch.now = fetch'.now
        /\ fetch.now = "answered" => fetch'.misses = fetch.misses \union {mark}
    BY <1>0, <1>7, MissedType DEF Marks
  <2>2. "told" \in Missing' => "told" \in Missing
    <3>1. cache = Nothing => cache'.now # "cached"
      BY <2>1 DEF Nothing
    <3>2. cache # Nothing => cache.now = "cached"
      BY <1>0 DEF Cached
    <3> QED BY <1>7, <2>1, <3>1, <3>2 DEF Missing
  <2>3. Kept'
    <3>1. "told" \in Missing => cache # Nothing
      BY DEF Missing, Nothing
    <3> QED BY <1>0, <1>7, <2>1, <2>2, <3>1 DEF Kept
  <2>4. OwnWriteShows'
    BY <1>0, <1>7, <2>1, <2>2 DEF OwnWriteShows, Shown, ReadBy
  <2> QED BY <1>0, <2>3, <2>4 DEF KInv
<1>8. CASE OtherWrites
  BY <1>7, <1>8 DEF OtherWrites
<1>9. ASSUME UNCHANGED <<screens, at, dialog, failed, cache, fetch>>,
             op' # Nothing /\ op'.effect.promises => op'.effect.drops
      PROVE  KInv'
  <2>1. Kept'
    BY <1>0, <1>9 DEF Kept, Missing
  <2>2. OwnWriteShows'
    BY <1>0, <1>9 DEF OwnWriteShows, Missing, Shown, ReadBy
  <2> QED BY <1>0, <2>1, <2>2 DEF KInv
<1>10. ASSUME NEW e \in at.ops, Press(e) PROVE KInv'
  <2>1. op'.effect = e /\ (e.promises => e.drops)
    BY <1>0, <1>10 DEF Press, Kept
  <2> QED BY <1>9, <1>10, <2>1 DEF Press
<1>11. CASE Commit
  <2>1. op # Nothing /\ op'.effect = op.effect
    BY <1>0, <1>11 DEF Commit, OpsConcern, Nothing
  <2>2. CASE op.effect.touches
    BY <1>7, <1>11, <2>1, <2>2 DEF Commit
  <2>3. CASE ~op.effect.touches
    BY <1>0, <1>9, <1>11, <2>1, <2>3 DEF Commit, Kept
  <2> QED BY <2>2, <2>3
<1>12. CASE Refuse
  BY <1>9, <1>12 DEF Refuse
<1>13. ASSUME NEW c \in Cached \union {Nothing}, NEW mark \in Marks, c = Marked(cache, mark),
              mark # "told"
       PROVE  (c.now = "cached" /\ "told" \in c.misses) =>
                  cache # Nothing /\ "told" \in Missing /\ c.invalid = cache.invalid
  BY <1>0, <1>13, MarkedCache DEF Missing, Nothing, Cached
<1>14. CASE LoseAnswer
  <2>1. PICK c \in Cached \union {Nothing} : c = Marked(cache, "unsure")
    BY <1>0, MarkedCache DEF Marks
  <2>2. PICK g \in {Nothing, Asked} \union Answer :
            /\ g = Marked(fetch, "unsure")
            /\ fetch = Nothing <=> g = Nothing
            /\ g.now = "answered" => /\ fetch.now = "answered"
                                     /\ g.misses \subseteq fetch.misses \union {"unsure"}
    BY <1>0, MarkedFetch DEF Marks
  <2>3. cache' = c /\ fetch' = g /\ op' = Nothing /\ UNCHANGED <<screens, at, dialog, failed>>
    BY <1>14, <2>1, <2>2 DEF LoseAnswer
  <2>4. "told" \in Missing' => "told" \in Missing /\ c.invalid = cache.invalid
    BY <1>13, <2>1, <2>3 DEF Missing, Marks
  <2>5. Kept'
    BY <1>0, <2>2, <2>3, <2>4 DEF Kept
  <2>6. OwnWriteShows'
    BY <1>0, <2>2, <2>3, <2>4 DEF OwnWriteShows, Shown, ReadBy
  <2> QED BY <1>0, <2>5, <2>6 DEF KInv
<1>15. CASE Succeed
  <2>0. /\ op # Nothing /\ (op.effect.promises => op.effect.drops)
        /\ op' = Nothing /\ UNCHANGED <<screens, at, dialog, failed>>
    BY <1>0, <1>15 DEF Succeed, Nothing, Kept
  <2>1. PICK mark \in Marks : mark = Mark(op.effect) /\ (mark = "told" => op.effect.drops)
    BY <2>0 DEF Mark, Marks
  <2>2. PICK c \in Cached \union {Nothing} : /\ c = Marked(cache, mark)
                                             /\ cache = Nothing <=> c = Nothing
    BY <1>0, MarkedCache
  <2>3. PICK g \in {Nothing, Asked} \union Answer :
            /\ g = Marked(fetch, "late")
            /\ fetch = Nothing <=> g = Nothing
            /\ g.now = "answered" => /\ fetch.now = "answered"
                                     /\ g.misses \subseteq fetch.misses \union {"late"}
    BY <1>0, MarkedFetch DEF Marks
  <2>4. cache' = IF op.effect.drops /\ cache.now = "cached"
                 THEN [c EXCEPT !.invalid = TRUE] ELSE c
    BY <1>15, <2>1, <2>2 DEF Succeed
  <2>5. fetch' = IF op.effect.drops /\ Shown /\ (fetch = Nothing \/ cache.now = "cached")
                 THEN Asked ELSE g
    BY <1>15, <2>3 DEF Succeed
  <2>6. fetch'.now = "answered" => "told" \notin fetch'.misses
    BY <1>0, <2>3, <2>5 DEF Kept, Asked
  <2>7. "told" \in Missing' => cache.now = "cached" /\ c \in Cached /\ c.now = "cached"
    BY <1>0, <2>2, <2>4 DEF Missing, Nothing, Cached
  <2>8. CASE op.effect.drops
    <3>1. "told" \in Missing' => cache'.invalid
      BY <2>4, <2>7, <2>8, InvalidType
    <3>2. Kept'
      BY <1>0, <2>0, <2>6, <3>1 DEF Kept
    <3>3. Shown' /\ "told" \in Missing' => fetch' = Asked
      BY <2>0, <2>5, <2>7, <2>8 DEF Shown, ReadBy
    <3>4. OwnWriteShows'
      BY <3>3 DEF OwnWriteShows, Asked, Nothing
    <3> QED BY <1>0, <3>2, <3>4 DEF KInv
  <2>9. CASE ~op.effect.drops
    <3>1. cache' = c /\ fetch' = g /\ mark # "told"
      BY <2>1, <2>4, <2>5, <2>9
    <3>2. "told" \in Missing' => "told" \in Missing /\ c.invalid = cache.invalid
      BY <1>13, <2>2, <3>1 DEF Missing
    <3>3. Kept'
      BY <1>0, <2>0, <2>6, <3>1, <3>2 DEF Kept
    <3>4. OwnWriteShows'
      BY <1>0, <2>0, <2>3, <3>1, <3>2 DEF OwnWriteShows, Shown, ReadBy
    <3> QED BY <1>0, <3>3, <3>4 DEF KInv
  <2> QED BY <2>8, <2>9
<1> QED
  BY <1>0, <1>1, <1>2, <1>3, <1>4, <1>5, <1>6, <1>8, <1>10, <1>11, <1>12, <1>14, <1>15
  DEF Next, Go, OpenDialog, CloseDialog

\* "onSuccess: invalidateQueries": once nothing is being fetched, a screen does
\* not show less than this browser knows it has written, unless it says the list
\* could not be loaded: on every screen, for every query and after any number of
\* writes.
THEOREM OwnWriteShowsHolds == Spec => []OwnWriteShows
<1>1. Init => KInv
  BY KeptInit
<1>2. KInv => OwnWriteShows
  BY DEF KInv
<1> QED BY <1>1, <1>2, KeptNext, PTL DEF Spec
=============================================================================
