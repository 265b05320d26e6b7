---------------------------- MODULE SessionProofs ----------------------------
(***************************************************************************)
(* What holds of Session for any number of tabs, accounts, sign-ins and    *)
(* requests under way, whatever is lost and whatever expires.              *)
(***************************************************************************)
EXTENDS Session, FiniteSetTheorems, TLAPS

Stores == [admin : Tokens, tech : Tokens]
Requests == [token : Tokens, from : Accounts \union {None}, kind : Kinds]
TabRecords == [path : Paths, admin : Staff \union {None}, tech : Techs \union {None},
               load : SUBSET {"admin", "tech"}, header : Tokens, sent : SUBSET Requests]

\* A page's tokens have been given out, and a profile is asked for with one.
TabOK(b, given) ==
    /\ b.header \in given \union {0}
    /\ \A q \in b.sent : /\ q.token \in given \union {0}
                         /\ q.kind \in {"admin", "tech"} => q.token # 0

\* Each token has one owner, and is kept where its owner's kind is kept.
OwnerOK == \E n \in Nat : n <= MaxLogins /\ owner \in [1..n -> Accounts]

StoreOK ==
    /\ store \in Stores
    /\ store.admin # 0 => store.admin \in Given /\ owner[store.admin] \in Staff
    /\ store.tech # 0 => store.tech \in Given /\ owner[store.tech] \in Techs

Shape ==
    /\ OwnerOK /\ StoreOK
    /\ expired \subseteq Given /\ shared \in BOOLEAN
    /\ tab \in [Tabs -> TabRecords]
    /\ \A t \in Tabs : TabOK(tab[t], Given)

-----------------------------------------------------------------------------
(* Pages.                                                                   *)

\* Zero, for no token, is one of the numbers.
LEMMA TokenFacts == 0 \in Tokens /\ Tokens \subseteq Nat
  BY SessionConstants DEF Tokens

\* The routes move a page to another path and touch nothing else.
LEMMA RoutedKeeps ==
    ASSUME NEW b \in TabRecords
    PROVE  /\ Routed(b) \in TabRecords
           /\ Routed(b).admin = b.admin /\ Routed(b).tech = b.tech
           /\ Routed(b).header = b.header /\ Routed(b).sent = b.sent
           /\ Routed(b).load = b.load
<1> DEFINE p == CASE b.path = "office" /\ b.admin = None /\ "admin" \notin b.load -> "login"
                  [] b.path = "portal" /\ b.tech = None /\ "tech" \notin b.load -> "techLogin"
                  [] b.path = "login" /\ b.admin # None -> "office"
                  [] OTHER -> b.path
<1>1. p \in Paths
  BY DEF Paths, TabRecords
<1>2. Routed(b) = [b EXCEPT !.path = p]
  BY DEF Routed
<1> HIDE DEF p
<1> QED BY <1>1, <1>2 DEF TabRecords

\* A page just loaded shows nobody, and has the token that is kept.
LEMMA FreshTab ==
    ASSUME NEW path \in Paths, NEW st \in Stores
    PROVE  LET b == Fresh(path, st)
           IN  /\ b \in TabRecords
               /\ b.admin = None /\ b.tech = None /\ b.header = Kept(st)
               /\ Kept(st) \in {st.admin, st.tech}
               /\ \A q \in b.sent : /\ q.token = Kept(st) /\ q.from = None
                                    /\ q.kind \in {"admin", "tech"} /\ st[q.kind] # 0
                                    /\ Kept(st) # 0
               /\ Kept(st) # 0 => b.sent # {}
<1> DEFINE load == {kind \in {"admin", "tech"} : st[kind] # 0}
           sent == {Request(Kept(st), None, kind) : kind \in load}
           b == [path |-> path, admin |-> None, tech |-> None, load |-> load,
                 header |-> Kept(st), sent |-> sent]
<1>1. Kept(st) \in Tokens /\ Kept(st) \in {st.admin, st.tech}
  BY DEF Kept, Stores
<1>2. \A kind \in load : kind \in {"admin", "tech"} /\ st[kind] # 0 /\ Kept(st) # 0
  BY DEF Kept, Stores
<1>3. Kept(st) # 0 => load # {}
  BY DEF Kept, Stores
<1>4. \A kind \in load : LET q == Request(Kept(st), None, kind)
                         IN  /\ q \in Requests /\ q.token = Kept(st)
                             /\ q.from = None /\ q.kind = kind
  BY <1>1, <1>2 DEF Request, Requests, Kinds
<1>5. Fresh(path, st) = Routed(b)
  BY DEF Fresh
<1> HIDE DEF load
<1>6. load \subseteq {"admin", "tech"}
  BY DEF load
<1>7. sent \subseteq Requests
  BY <1>4
<1>8. b \in TabRecords
  BY <1>1, <1>6, <1>7 DEF TabRecords
<1> HIDE DEF b
<1>9. b.admin = None /\ b.tech = None /\ b.header = Kept(st) /\ b.sent = sent
  BY DEF b
<1>10. \A q \in sent : /\ q.token = Kept(st) /\ q.from = None /\ q.kind \in {"admin", "tech"}
                       /\ st[q.kind] # 0 /\ Kept(st) # 0
  BY <1>2, <1>4
<1>11. Kept(st) # 0 => sent # {}
  BY <1>3
<1> HIDE DEF sent
<1> QED BY <1>1, <1>5, <1>8, <1>9, <1>10, <1>11, RoutedKeeps

-----------------------------------------------------------------------------
(* Types.                                                                   *)

\* The tokens given out are numbered without a gap.
LEMMA GivenFacts ==
    ASSUME OwnerOK
    PROVE  /\ Given = 1..Cardinality(Given) /\ Cardinality(Given) \in Nat
           /\ Cardinality(Given) <= MaxLogins /\ Given \subseteq Tokens /\ 0 \notin Given
           /\ owner \in [Given -> Accounts]
<1>1. PICK n \in Nat : n <= MaxLogins /\ owner \in [1..n -> Accounts]
  BY DEF OwnerOK
<1>2. Given = 1..n
  BY <1>1 DEF Given
<1>3. Cardinality(1..n) = n
  <2>1. Cardinality(1..n) = IF 1 > n THEN 0 ELSE n - 1 + 1
    BY FS_Interval
  <2> QED BY <2>1
<1> QED BY <1>1, <1>2, <1>3, SessionConstants DEF Tokens

\* One page changes.
LEMMA OneTab ==
    ASSUME Shape, NEW t \in Tabs, NEW b \in TabRecords, tab' = [tab EXCEPT ![t] = b],
           TabOK(b, Given'), Given \subseteq Given', OwnerOK', StoreOK',
           expired' \subseteq Given', shared' \in BOOLEAN
    PROVE  Shape'
<1>1. tab' \in [Tabs -> TabRecords]
  BY DEF Shape
<1>2. ASSUME NEW u \in Tabs PROVE TabOK(tab'[u], Given')
  <2>1. CASE u = t
    BY <2>1 DEF Shape
  <2>2. CASE u # t
    BY <2>2 DEF Shape, TabOK
  <2> QED BY <2>1, <2>2
<1> QED BY <1>1, <1>2 DEF Shape

\* One page changes, nobody signs in, and of the store at most a token is dropped.
LEMMA OneTabOfOld ==
    ASSUME Shape, NEW t \in Tabs, NEW b \in TabRecords, tab' = [tab EXCEPT ![t] = b],
           TabOK(b, Given), UNCHANGED <<owner, expired, shared>>, store' \in Stores,
           store'.admin \in {0, store.admin}, store'.tech \in {0, store.tech}
    PROVE  Shape'
<1>1. Given' = Given /\ OwnerOK' /\ StoreOK'
  BY DEF Given, OwnerOK, StoreOK, Shape
<1> QED BY <1>1, OneTab DEF Shape

\* Dropping a token, or both.
LEMMA Dropped ==
    ASSUME Shape, NEW kind \in {"admin", "tech"}
    PROVE  /\ [store EXCEPT ![kind] = 0] \in Stores
           /\ [store EXCEPT ![kind] = 0].admin = IF kind = "admin" THEN 0 ELSE store.admin
           /\ [store EXCEPT ![kind] = 0].tech = IF kind = "tech" THEN 0 ELSE store.tech
           /\ Empty \in Stores /\ Empty.admin = 0 /\ Empty.tech = 0
  BY TokenFacts DEF Shape, StoreOK, Stores, Empty

-----------------------------------------------------------------------------
(* What each operation makes of a page.                                     *)

\* Signing out drops the account shown, its token and the header.
LEMMA LogoutTab ==
    ASSUME Shape, NEW t \in Tabs, Logout(t)
    PROVE  \E b \in TabRecords :
              /\ tab' = [tab EXCEPT ![t] = b] /\ b.header = 0 /\ b.sent = tab[t].sent
              /\ \/ /\ store' = [store EXCEPT !["admin"] = 0]
                    /\ tab[t].admin # None /\ b.admin = None /\ b.tech = tab[t].tech
                 \/ /\ store' = [store EXCEPT !["tech"] = 0]
                    /\ tab[t].tech # None /\ b.tech = None /\ b.admin = tab[t].admin
<1>1. CASE tab[t].path = "office"
  <2> DEFINE c == [tab[t] EXCEPT !.admin = None, !.header = 0]
             b == Routed(c)
  <2>1. /\ c \in TabRecords /\ c.admin = None /\ c.header = 0 /\ c.tech = tab[t].tech
        /\ c.sent = tab[t].sent
    BY TokenFacts DEF Shape, TabRecords
  <2>2. /\ tab' = [tab EXCEPT ![t] = b] /\ tab[t].admin # None
        /\ store' = [store EXCEPT !["admin"] = 0]
    BY <1>1 DEF Logout
  <2> HIDE DEF c
  <2>3. /\ b \in TabRecords /\ b.admin = None /\ b.header = 0 /\ b.tech = tab[t].tech
        /\ b.sent = tab[t].sent
    BY <2>1, RoutedKeeps
  <2> HIDE DEF b
  <2> QED BY <2>2, <2>3
<1>2. CASE tab[t].path = "portal"
  <2> DEFINE c == [tab[t] EXCEPT !.tech = None, !.header = 0]
             b == Routed(c)
  <2>1. /\ c \in TabRecords /\ c.tech = None /\ c.header = 0 /\ c.admin = tab[t].admin
        /\ c.sent = tab[t].sent
    BY TokenFacts DEF Shape, TabRecords
  <2>2. /\ tab' = [tab EXCEPT ![t] = b] /\ tab[t].tech # None
        /\ store' = [store EXCEPT !["tech"] = 0]
    BY <1>2 DEF Logout
  <2> HIDE DEF c
  <2>3. /\ b \in TabRecords /\ b.tech = None /\ b.header = 0 /\ b.admin = tab[t].admin
        /\ b.sent = tab[t].sent
    BY <2>1, RoutedKeeps
  <2> HIDE DEF b
  <2> QED BY <2>2, <2>3
<1> QED BY <1>1, <1>2 DEF Logout

\* A request joins those under way, signed by the store or the header.
LEMMA SendTab ==
    ASSUME Shape, NEW t \in Tabs, NEW kind \in {"page", "save", "password"}, Send(t, kind)
    PROVE  \E b \in TabRecords, r \in Requests :
              /\ tab' = [tab EXCEPT ![t] = b]
              /\ b.admin = tab[t].admin /\ b.tech = tab[t].tech /\ b.header = tab[t].header
              /\ b.sent = tab[t].sent \union {r}
              /\ r.kind = kind /\ r.token \in {store.admin, store.tech, tab[t].header}
              /\ r.token = currentToken(t)
              /\ r.from \in {tab[t].admin, tab[t].tech} /\ r.from # None
<1> DEFINE r == Request(currentToken(t), ShownIn(tab[t]), kind)
           b == [tab[t] EXCEPT !.sent = @ \union {r}]
<1>1. currentToken(t) \in {store.admin, store.tech, tab[t].header} /\ currentToken(t) \in Tokens
  BY DEF currentToken, Kept, Shape, StoreOK, Stores, TabRecords
<1>2. ShownIn(tab[t]) \in {tab[t].admin, tab[t].tech} /\ ShownIn(tab[t]) # None
  BY DEF ShownIn, Send
<1>3. ShownIn(tab[t]) \in Accounts
  BY <1>2 DEF Shape, TabRecords, Accounts
<1>4. r \in Requests /\ r.kind = kind /\ r.token = currentToken(t) /\ r.from = ShownIn(tab[t])
  BY <1>1, <1>3 DEF Request, Requests, Kinds
<1>5. tab' = [tab EXCEPT ![t] = b]
  BY DEF Send
<1> HIDE DEF r
<1>6. /\ b \in TabRecords /\ b.admin = tab[t].admin /\ b.tech = tab[t].tech
      /\ b.header = tab[t].header /\ b.sent = tab[t].sent \union {r}
  BY <1>4 DEF Shape, TabRecords
<1> HIDE DEF b
<1> QED BY <1>1, <1>2, <1>4, <1>5, <1>6

\* A request that has been answered is no longer under way.
LEMMA AnsweredTab ==
    ASSUME Shape, NEW t \in Tabs, NEW q \in tab[t].sent
    PROVE  LET c == Without(q, tab[t])
           IN  /\ c \in TabRecords /\ c.admin = tab[t].admin /\ c.tech = tab[t].tech
               /\ c.header = tab[t].header /\ c.sent = tab[t].sent \ {q}
  BY DEF Without, Shape, TabRecords

\* What follows a request that is answered: a saved profile is asked for again.
NextAsked(t, q) ==
    IF q.kind = "save" THEN {Request(currentToken(t), q.from, "profile")} ELSE {}

\* A profile that comes back is shown, and is one of the right kind.
LEMMA SucceedTab ==
    ASSUME Shape, NEW t \in Tabs, NEW q \in tab[t].sent, Succeed(t, q)
    PROVE  \E b \in TabRecords :
              /\ tab' = [tab EXCEPT ![t] = b]
              /\ b.sent = (tab[t].sent \ {q}) \union NextAsked(t, q)
              /\ NextAsked(t, q) \subseteq Requests
              /\ b.header = tab[t].header
              /\ b.admin = IF q.kind \in {"admin", "profile"} THEN owner[q.token]
                                                              ELSE tab[t].admin
              /\ b.tech = IF q.kind = "tech" THEN owner[q.token] ELSE tab[t].tech
              /\ q.kind \in {"admin", "profile"} => owner[q.token] \in Staff
              /\ q.kind = "tech" => owner[q.token] \in Techs
              /\ q.token \in Given
<1> DEFINE c == Without(q, tab[t])
           o == owner[q.token]
           n == currentToken(t)
<1>1. /\ q.token \in Given /\ o \in Accounts
      /\ q.kind \in {"admin", "profile"} => o \in Staff
      /\ q.kind = "tech" => o \in Techs
  BY GivenFacts DEF Succeed, Valid, NotStaff, Forbidden, Shape, Accounts
<1>2. tab' = [tab EXCEPT ![t] = Routed(Told(c, q, n))]
  BY DEF Succeed
<1>3. /\ c \in TabRecords /\ c.admin = tab[t].admin /\ c.tech = tab[t].tech
      /\ c.header = tab[t].header /\ c.sent = tab[t].sent \ {q}
  BY AnsweredTab
<1>5. n \in Tokens /\ q \in Requests
  BY DEF currentToken, Kept, Shape, StoreOK, Stores, TabRecords
<1>6. Request(n, q.from, "profile") \in Requests
  BY <1>5 DEF Request, Requests, Kinds
<1>7. NextAsked(t, q) = IF q.kind = "save" THEN {Request(n, q.from, "profile")} ELSE {}
  BY DEF NextAsked
<1> HIDE DEF c, n
<1>4. /\ Told(c, q, n) \in TabRecords /\ Told(c, q, n).header = c.header
      /\ Told(c, q, n).sent = c.sent \union NextAsked(t, q)
      /\ Told(c, q, n).admin = IF q.kind \in {"admin", "profile"} THEN o ELSE c.admin
      /\ Told(c, q, n).tech = IF q.kind = "tech" THEN o ELSE c.tech
  <2>1. CASE q.kind \in {"admin", "profile"}
    <3>1. Told(c, q, n) = [c EXCEPT !.admin = o, !.load = @ \ {"admin"}]
      BY <2>1 DEF Told
    <3> HIDE DEF o
    <3> QED BY <1>1, <1>3, <1>7, <2>1, <3>1 DEF TabRecords
  <2>2. CASE q.kind = "tech"
    <3>1. Told(c, q, n) = [c EXCEPT !.tech = o, !.load = @ \ {"tech"}]
      BY <2>2 DEF Told
    <3> HIDE DEF o
    <3>2. o \in Techs /\ q.kind \notin {"admin", "profile"}
      BY <1>1, <2>2
    <3>3. /\ Told(c, q, n) \in TabRecords /\ Told(c, q, n).sent = c.sent
          /\ Told(c, q, n).header = c.header /\ Told(c, q, n).admin = c.admin
          /\ Told(c, q, n).tech = o
      BY <1>3, <3>1, <3>2 DEF TabRecords
    <3> QED BY <1>7, <2>2, <3>2, <3>3
  <2>3. CASE q.kind = "save"
    <3>1. PICK r \in Requests : r = Request(n, q.from, "profile")
      BY <1>6
    <3>2. Told(c, q, n) = [c EXCEPT !.sent = @ \union {r}]
      BY <2>3, <3>1 DEF Told
    <3> QED BY <1>3, <1>7, <2>3, <3>1, <3>2 DEF TabRecords
  <2>4. CASE q.kind \notin {"admin", "profile", "tech", "save"}
    BY <1>3, <1>7, <2>4 DEF Told
  <2> QED BY <2>1, <2>2, <2>3, <2>4
<1>8. NextAsked(t, q) \subseteq Requests
  BY <1>6, <1>7
<1> QED BY <1>1, <1>2, <1>3, <1>4, <1>8, RoutedKeeps

\* A profile that could not be loaded is dropped, and the header with it.
LEMMA FailedTab ==
    ASSUME Shape, NEW t \in Tabs, NEW q \in tab[t].sent, Failed(t, q)
    PROVE  \E b \in TabRecords :
              /\ tab' = [tab EXCEPT ![t] = b] /\ b.sent = tab[t].sent \ {q}
              /\ b.header = IF q.kind \in {"admin", "tech"} THEN 0 ELSE tab[t].header
              /\ b.admin = IF q.kind = "admin" THEN None ELSE tab[t].admin
              /\ b.tech = IF q.kind = "tech" THEN None ELSE tab[t].tech
<1> DEFINE c == Without(q, tab[t])
<1>1. tab' = [tab EXCEPT ![t] = Routed(GivenUp(c, q))]
  BY DEF Failed
<1>2. /\ c \in TabRecords /\ c.admin = tab[t].admin /\ c.tech = tab[t].tech
      /\ c.header = tab[t].header /\ c.sent = tab[t].sent \ {q}
  BY AnsweredTab
<1> HIDE DEF c
<1>3. /\ GivenUp(c, q) \in TabRecords /\ GivenUp(c, q).sent = c.sent
      /\ GivenUp(c, q).header = IF q.kind \in {"admin", "tech"} THEN 0 ELSE c.header
      /\ GivenUp(c, q).admin = IF q.kind = "admin" THEN None ELSE c.admin
      /\ GivenUp(c, q).tech = IF q.kind = "tech" THEN None ELSE c.tech
  <2>1. CASE q.kind = "admin"
    BY <1>2, <2>1, TokenFacts DEF GivenUp, TabRecords
  <2>2. CASE q.kind = "tech"
    BY <1>2, <2>2, TokenFacts DEF GivenUp, TabRecords
  <2>3. CASE q.kind \notin {"admin", "tech"}
    BY <1>2, <2>3 DEF GivenUp
  <2> QED BY <2>1, <2>2, <2>3
<1> DEFINE d == GivenUp(c, q)
<1>4. d \in TabRecords /\ tab' = [tab EXCEPT ![t] = Routed(d)]
  BY <1>1, <1>3
<1>5. /\ d.sent = c.sent /\ d.header = IF q.kind \in {"admin", "tech"} THEN 0 ELSE c.header
      /\ d.admin = IF q.kind = "admin" THEN None ELSE c.admin
      /\ d.tech = IF q.kind = "tech" THEN None ELSE c.tech
  BY <1>3
<1> HIDE DEF d
<1>6. /\ Routed(d) \in TabRecords /\ Routed(d).admin = d.admin /\ Routed(d).tech = d.tech
      /\ Routed(d).header = d.header /\ Routed(d).sent = d.sent
  BY <1>4, RoutedKeeps
<1> QED BY <1>2, <1>4, <1>5, <1>6

\* Signing in gives out a new token and shows its owner.
LEMMA LoginTab ==
    ASSUME Shape, NEW t \in Tabs, NEW who \in Accounts, Login(t, who)
    PROVE  \E n \in Tokens, b \in TabRecords :
              /\ n \notin Given /\ n # 0 /\ Given' = Given \union {n}
              /\ OwnerOK' /\ owner'[n] = who /\ \A m \in Given : owner'[m] = owner[m]
              /\ tab' = [tab EXCEPT ![t] = b]
              /\ b.sent = tab[t].sent /\ b.header = n
              /\ \/ /\ who \in Staff /\ b.admin = who /\ b.tech = tab[t].tech
                    /\ store' = [store EXCEPT !.admin = n]
                 \/ /\ who \in Techs /\ b.tech = who /\ b.admin = tab[t].admin
                    /\ store' = [store EXCEPT !.tech = n]
<1> DEFINE n == Cardinality(Given) + 1
           b == IF who \in Staff
                THEN [tab[t] EXCEPT !.admin = who, !.path = "office", !.header = n]
                ELSE [tab[t] EXCEPT !.tech = who, !.path = "portal", !.header = n]
<1>1. /\ Given = 1..Cardinality(Given) /\ Cardinality(Given) \in Nat
      /\ Cardinality(Given) < MaxLogins /\ owner \in [Given -> Accounts]
  BY GivenFacts DEF Shape, Login
<1>2. n \in Tokens /\ n \notin Given /\ n # 0 /\ n <= MaxLogins /\ n \in Nat
      /\ 1..n = Given \union {n}
  BY <1>1, SessionConstants DEF Tokens
<1>3. owner' = [m \in 1..n |-> IF m = n THEN who ELSE owner[m]]
  BY DEF Login
<1>4. tab' = [tab EXCEPT ![t] = b]
  BY DEF Login
<1>5. store' = IF who \in Staff THEN [store EXCEPT !.admin = n] ELSE [store EXCEPT !.tech = n]
  BY DEF Login
<1> HIDE DEF n
<1>6. /\ Given' = Given \union {n} /\ owner'[n] = who
      /\ \A m \in Given : owner'[m] = owner[m]
  BY <1>2, <1>3 DEF Given
<1>7. owner' \in [1..n -> Accounts]
  BY <1>1, <1>2, <1>3
<1>8. OwnerOK'
  BY <1>2, <1>7 DEF OwnerOK
<1>9. /\ b \in TabRecords /\ b.sent = tab[t].sent /\ b.header = n
      /\ who \in Staff => b.admin = who /\ b.tech = tab[t].tech
      /\ who \notin Staff => b.tech = who /\ b.admin = tab[t].admin
  BY <1>2 DEF Shape, TabRecords, Paths, Accounts
<1> HIDE DEF b
<1> QED BY <1>2, <1>4, <1>5, <1>6, <1>8, <1>9 DEF Accounts

\* A page loaded again, whether or not the store has been emptied before.
LEMMA FreshOK ==
    ASSUME Shape, NEW path \in Paths, NEW st \in {store, Empty}
    PROVE  /\ st \in Stores /\ st.admin \in {0, store.admin} /\ st.tech \in {0, store.tech}
           /\ Fresh(path, st) \in TabRecords /\ TabOK(Fresh(path, st), Given)
<1>1. st \in Stores /\ st.admin \in {0, store.admin} /\ st.tech \in {0, store.tech}
  BY Dropped DEF Shape, StoreOK
<1>2. Kept(st) \in Given \union {0}
  BY <1>1 DEF Kept, Shape, StoreOK
<1> QED BY <1>1, <1>2, FreshTab DEF TabOK

\* The server starts without tokens, and every page on the staff's sign-in page.
THEOREM ShapeInit == Init => Shape
<1> SUFFICES ASSUME Init PROVE Shape
  OBVIOUS
<1>1. owner \in [1..0 -> Accounts] /\ Given = {}
  BY DEF Init, Given
<1>2. OwnerOK
  BY <1>1, SessionConstants DEF OwnerOK
<1>3. Empty \in Stores /\ Empty.admin = 0 /\ Empty.tech = 0 /\ Kept(Empty) = 0
  BY TokenFacts DEF Empty, Stores, Kept
<1>4. StoreOK
  BY <1>3 DEF Init, StoreOK
<1>5. Fresh("login", Empty) \in TabRecords /\ TabOK(Fresh("login", Empty), Given)
  BY <1>3, FreshTab DEF Paths, TabOK
<1> QED BY <1>1, <1>2, <1>4, <1>5 DEF Init, Shape

\* Whatever is sent, answered, refused or lost, tokens, pages and requests keep
\* their form.
THEOREM ShapeNext == Shape /\ [Next]_vars => Shape'
<1> SUFFICES ASSUME Shape, [Next]_vars PROVE Shape'
  OBVIOUS
<1>1. ASSUME NEW t \in Tabs, NEW path \in Paths, Open(t, path) PROVE Shape'
  <2>1. tab' = [tab EXCEPT ![t] = Fresh(path, store)]
    BY <1>1 DEF Open
  <2> QED BY <1>1, <2>1, FreshOK, OneTabOfOld DEF Open
<1>2. ASSUME NEW t \in Tabs, Follow(t) PROVE Shape'
  <2> DEFINE p == IF tab[t].path = "login" THEN "techLogin" ELSE "login"
             c == [tab[t] EXCEPT !.path = p]
  <2>1. c \in TabRecords /\ c.header = tab[t].header /\ c.sent = tab[t].sent
    BY DEF Shape, TabRecords, Paths
  <2>2. tab' = [tab EXCEPT ![t] = Routed(c)]
    BY <1>2 DEF Follow
  <2> HIDE DEF c
  <2>3. Routed(c) \in TabRecords /\ TabOK(Routed(c), Given)
    BY <2>1, RoutedKeeps DEF TabOK, Shape
  <2> QED BY <1>2, <2>2, <2>3, OneTabOfOld DEF Follow, Shape, StoreOK
<1>3. ASSUME NEW t \in Tabs, Logout(t) PROVE Shape'
  <2>1. PICK b \in TabRecords :
            /\ tab' = [tab EXCEPT ![t] = b] /\ b.header = 0 /\ b.sent = tab[t].sent
            /\ store' \in {[store EXCEPT !["admin"] = 0], [store EXCEPT !["tech"] = 0]}
    BY <1>3, LogoutTab
  <2>2. /\ store' \in Stores
        /\ store'.admin \in {0, store.admin} /\ store'.tech \in {0, store.tech}
    BY <2>1, Dropped
  <2>3. TabOK(b, Given)
    BY <2>1 DEF TabOK, Shape
  <2> QED BY <1>3, <2>1, <2>2, <2>3, OneTabOfOld DEF Logout
<1>4. ASSUME NEW t \in Tabs, NEW kind \in {"page", "save", "password"}, Send(t, kind)
      PROVE  Shape'
  <2>1. PICK b \in TabRecords, r \in Requests :
            /\ tab' = [tab EXCEPT ![t] = b] /\ b.header = tab[t].header
            /\ b.sent = tab[t].sent \union {r}
            /\ r.kind = kind /\ r.token \in {store.admin, store.tech, tab[t].header}
    BY <1>4, SendTab
  <2>2. r.token \in Given \union {0}
    BY <2>1 DEF Shape, StoreOK, TabOK
  <2>3. TabOK(b, Given)
    BY <2>1, <2>2 DEF TabOK, Shape
  <2> QED BY <1>4, <2>1, <2>3, OneTabOfOld DEF Send, Shape, StoreOK
<1>5. ASSUME NEW t \in Tabs, NEW who \in Accounts, Login(t, who) PROVE Shape'
  <2>1. PICK n \in Tokens, b \in TabRecords :
            /\ n \notin Given /\ n # 0 /\ Given' = Given \union {n}
            /\ OwnerOK' /\ owner'[n] = who /\ \A m \in Given : owner'[m] = owner[m]
            /\ tab' = [tab EXCEPT ![t] = b]
            /\ b.sent = tab[t].sent /\ b.header = n
            /\ \/ who \in Staff /\ store' = [store EXCEPT !.admin = n]
               \/ who \in Techs /\ store' = [store EXCEPT !.tech = n]
    BY <1>5, LoginTab
  <2>2. StoreOK'
    BY <2>1 DEF Shape, StoreOK, Stores
  <2>3. TabOK(b, Given')
    BY <2>1 DEF Shape, TabOK
  <2>4. shared' \in BOOLEAN /\ expired' = expired
    BY <1>5 DEF Login
  <2> QED BY <2>1, <2>2, <2>3, <2>4, OneTab DEF Shape
<1>6. ASSUME NEW t \in Tabs, NEW q \in tab[t].sent, Succeed(t, q) PROVE Shape'
  <2>1. PICK b \in TabRecords :
            /\ tab' = [tab EXCEPT ![t] = b] /\ b.header = tab[t].header
            /\ b.sent = (tab[t].sent \ {q}) \union NextAsked(t, q)
    BY <1>6, SucceedTab
  <2>3. currentToken(t) \in Given \union {0}
    BY DEF currentToken, Kept, Shape, StoreOK, TabOK
  <2>4. \A r \in NextAsked(t, q) : r.token \in Given \union {0} /\ r.kind = "profile"
    BY <2>3 DEF NextAsked, Request
  <2>2. TabOK(b, Given)
    BY <2>1, <2>4 DEF Shape, TabOK
  <2> QED BY <1>6, <2>1, <2>2, OneTabOfOld DEF Succeed, Shape, StoreOK
<1>7. ASSUME NEW t \in Tabs, NEW q \in tab[t].sent, Failed(t, q),
             UNCHANGED <<owner, expired, shared>>
      PROVE  Shape'
  <2>1. PICK b \in TabRecords :
            /\ tab' = [tab EXCEPT ![t] = b] /\ b.sent = tab[t].sent \ {q}
            /\ b.header \in {0, tab[t].header}
    BY <1>7, FailedTab
  <2>2. /\ store' \in Stores
        /\ store'.admin \in {0, store.admin} /\ store'.tech \in {0, store.tech}
    BY <1>7, Dropped DEF Failed, Shape, StoreOK
  <2>3. TabOK(b, Given)
    BY <2>1 DEF Shape, TabOK
  <2> QED BY <1>7, <2>1, <2>2, <2>3, OneTabOfOld
<1>8. ASSUME NEW t \in Tabs, NEW q \in tab[t].sent, Unauthorized(t, q) PROVE Shape'
  <2>1. CASE Failed(t, q)
    BY <1>7, <1>8, <2>1 DEF Unauthorized
  <2>2. CASE /\ store' = Empty
             /\ \E path \in {"techLogin", "login"} : tab' = [tab EXCEPT ![t] = Fresh(path, Empty)]
    <3>1. PICK path \in Paths : tab' = [tab EXCEPT ![t] = Fresh(path, Empty)]
      BY <2>2 DEF Paths
    <3> QED BY <1>8, <2>2, <3>1, FreshOK, OneTabOfOld DEF Unauthorized
  <2> QED BY <1>8, <2>1, <2>2 DEF Unauthorized
<1>9. ASSUME NEW n \in Given, Expire(n) PROVE Shape'
  BY <1>9 DEF Expire, Shape, OwnerOK, StoreOK, Given
<1>10. CASE UNCHANGED vars
  BY <1>10 DEF vars, Shape, OwnerOK, StoreOK, Given
<1> QED
  BY <1>1, <1>2, <1>3, <1>4, <1>5, <1>6, <1>7, <1>8, <1>9, <1>10 DEF Next, Poll, Fail

\* Tokens, pages and requests have their form in every reachable state.
THEOREM ShapeHolds == Spec => []Shape
  BY ShapeInit, ShapeNext, PTL DEF Spec

\* In particular a staff token is only ever kept as one, a technician's likewise.
THEOREM TypeCorrect == Spec => []TypeOK
<1>1. Shape => TypeOK
  BY GivenFacts DEF Shape, StoreOK, Stores, TypeOK, TabRecords, Requests
<1> QED BY <1>1, ShapeHolds, PTL

-----------------------------------------------------------------------------
(* As long as nobody signs in while somebody else is, everything that is    *)
(* kept, shown or asked for belongs to one account.                         *)

\* Somebody is shown, or about to be because the page has just been loaded.
Occupied(b) == b.admin # None \/ b.tech # None \/ \E q \in b.sent : q.kind \in {"admin", "tech"}

\* A page of account x, whose header is dropped when its account leaves, and whose
\* older requests are signed by who sent them.
PageOf(x, b, owners) ==
    /\ b.admin \in {None, x} /\ b.tech \in {None, x}
    /\ b.header # 0 => Occupied(b) /\ owners[b.header] = x
    /\ \A q \in b.sent :
          /\ q.token # 0 /\ q.kind \in {"admin", "tech", "profile"} => owners[q.token] = x
          /\ q.kind = "admin" => owners[q.token] \in Staff
          /\ q.kind = "tech" => owners[q.token] \in Techs
          /\ q.kind = "save" => q.from = x
          /\ q.from # None /\ q.token # 0 => owners[q.token] = q.from

KeptFor(x) ==
    /\ store.admin # 0 => owner[store.admin] = x
    /\ store.tech # 0 => owner[store.tech] = x

\* The store holds a token only while some page is occupied.
SessionOf(x) ==
    /\ KeptFor(x)
    /\ \A t \in Tabs : PageOf(x, tab[t], owner)
    /\ store.admin # 0 \/ store.tech # 0 => \E t \in Tabs : Occupied(tab[t])

OneSession == ~shared => \E x \in Accounts \union {None} : SessionOf(x)

\* Only one of the two tokens is kept.
LEMMA OneKept ==
    ASSUME Shape, NEW x, KeptFor(x)
    PROVE  /\ store.admin = 0 \/ store.tech = 0
           /\ store.admin # 0 => Kept(store) = store.admin /\ x \in Staff
           /\ store.tech # 0 => Kept(store) = store.tech /\ x \in Techs
           /\ Kept(store) # 0 <=> store.admin # 0 \/ store.tech # 0
           /\ Kept(store) # 0 => owner[Kept(store)] = x
  BY SessionConstants DEF Shape, StoreOK, KeptFor, Kept, Stores, Tokens

\* One page changes, nobody signs in, and the store is emptied when it leaves the
\* last page of the session.
LEMMA OnePage ==
    ASSUME Shape, NEW x, SessionOf(x), NEW t \in Tabs, NEW b, tab' = [tab EXCEPT ![t] = b],
           owner' = owner, PageOf(x, b, owner),
           store'.admin \in {0, store.admin}, store'.tech \in {0, store.tech},
           (store'.admin # 0 \/ store'.tech # 0) => Occupied(b) \/ ~Occupied(tab[t])
    PROVE  SessionOf(x)'
<1>1. KeptFor(x)'
  BY DEF SessionOf, KeptFor
<1>2. ASSUME NEW u \in Tabs PROVE PageOf(x, tab'[u], owner')
  BY DEF SessionOf, Shape
<1>3. ASSUME store'.admin # 0 \/ store'.tech # 0 PROVE \E u \in Tabs : Occupied(tab'[u])
  <2>1. PICK u \in Tabs : Occupied(tab[u])
    BY <1>3 DEF SessionOf
  <2>2. CASE u = t
    BY <1>3, <2>1, <2>2 DEF Shape
  <2>3. CASE u # t
    BY <2>1, <2>3 DEF Shape
  <2> QED BY <2>2, <2>3
<1>4. \A u \in Tabs : PageOf(x, tab[u], owner)'
  BY <1>2 DEF PageOf, Occupied
<1>5. (store.admin # 0 \/ store.tech # 0 => \E u \in Tabs : Occupied(tab[u]))'
  BY <1>3 DEF Occupied
<1> QED BY <1>1, <1>4, <1>5 DEF SessionOf

\* A page that shows the same accounts and has sent nothing else.
LEMMA SamePage ==
    ASSUME NEW b, NEW c, c.admin = b.admin, c.tech = b.tech, c.header = b.header,
           c.sent = b.sent, NEW x, NEW owners
    PROVE  (PageOf(x, b, owners) => PageOf(x, c, owners)) /\ (Occupied(b) <=> Occupied(c))
  BY DEF PageOf, Occupied

\* A page just loaded asks for the account whose token is kept.
LEMMA FreshPage ==
    ASSUME Shape, NEW x, KeptFor(x), NEW path \in Paths
    PROVE  /\ PageOf(x, Fresh(path, store), owner)
           /\ store.admin # 0 \/ store.tech # 0 => Occupied(Fresh(path, store))
           /\ PageOf(x, Fresh(path, Empty), owner)
<1> DEFINE b == Fresh(path, store)
           c == Fresh(path, Empty)
<1>1. /\ b.admin = None /\ b.tech = None /\ b.header = Kept(store)
      /\ \A q \in b.sent : /\ q.token = Kept(store) /\ q.from = None
                           /\ q.kind \in {"admin", "tech"} /\ store[q.kind] # 0
      /\ Kept(store) # 0 => b.sent # {}
  BY FreshTab DEF Shape, StoreOK
<1>2. Kept(Empty) = 0 /\ Empty \in Stores
  BY TokenFacts DEF Kept, Empty, Stores
<1>3. c.admin = None /\ c.tech = None /\ c.header = 0 /\ c.sent = {}
  BY <1>2, FreshTab
<1> HIDE DEF b, c
<1>4. Kept(store) # 0 => Occupied(b)
  BY <1>1 DEF Occupied
<1>5. ASSUME NEW q \in b.sent
      PROVE  /\ owner[q.token] = x
             /\ q.kind = "admin" => owner[q.token] \in Staff
             /\ q.kind = "tech" => owner[q.token] \in Techs
  <2>1. q.kind = "admin" => store.admin # 0
    BY <1>1, <1>5
  <2>2. q.kind = "tech" => store.tech # 0
    BY <1>1, <1>5
  <2> QED BY <1>1, <1>5, <2>1, <2>2, OneKept
<1>6. PageOf(x, b, owner)
  BY <1>1, <1>4, <1>5, OneKept DEF PageOf
<1>7. PageOf(x, c, owner)
  BY <1>3 DEF PageOf
<1> QED BY <1>4, <1>6, <1>7, OneKept DEF b, c

\* Nobody is signed in at the start.
THEOREM OneSessionInit == Init => OneSession
<1> SUFFICES ASSUME Init PROVE SessionOf(None)
  BY DEF OneSession
<1>1. Kept(Empty) = 0 /\ Empty \in Stores /\ Empty.admin = 0 /\ Empty.tech = 0
  BY TokenFacts DEF Kept, Empty, Stores
<1>2. LET c == Fresh("login", Empty)
      IN  c.admin = None /\ c.tech = None /\ c.header = 0 /\ c.sent = {}
  BY <1>1, FreshTab DEF Paths
<1> QED BY <1>1, <1>2 DEF Init, SessionOf, KeptFor, PageOf

\* What the session's steps make of it.
LEMMA SessionStep ==
    ASSUME Shape, NEW x \in Accounts \union {None}, SessionOf(x), [Next]_vars,
           \A t \in Tabs, who \in Accounts : ~Login(t, who)
    PROVE  SessionOf(x)'
<1> USE DEF SessionOf
<1>1. ASSUME NEW t \in Tabs, NEW path \in Paths, Open(t, path) PROVE SessionOf(x)'
  <2>1. tab' = [tab EXCEPT ![t] = Fresh(path, store)] /\ UNCHANGED <<store, owner>>
    BY <1>1 DEF Open
  <2> QED BY <2>1, FreshPage, OnePage
<1>2. ASSUME NEW t \in Tabs, Follow(t) PROVE SessionOf(x)'
  <2> DEFINE p == IF tab[t].path = "login" THEN "techLogin" ELSE "login"
             c == [tab[t] EXCEPT !.path = p]
  <2>1. /\ c \in TabRecords /\ c.header = tab[t].header /\ c.sent = tab[t].sent
        /\ c.admin = tab[t].admin /\ c.tech = tab[t].tech
    BY DEF Shape, TabRecords, Paths
  <2>2. tab' = [tab EXCEPT ![t] = Routed(c)] /\ UNCHANGED <<store, owner>>
    BY <1>2 DEF Follow
  <2> HIDE DEF c
  <2>3. PageOf(x, Routed(c), owner) /\ (Occupied(Routed(c)) <=> Occupied(tab[t]))
    BY <2>1, RoutedKeeps, SamePage
  <2> QED BY <2>2, <2>3, OnePage
<1>3. ASSUME NEW t \in Tabs, Logout(t) PROVE SessionOf(x)'
  <2>1. PICK b \in TabRecords :
            /\ tab' = [tab EXCEPT ![t] = b] /\ b.header = 0 /\ b.sent = tab[t].sent
            /\ \/ /\ store' = [store EXCEPT !["admin"] = 0]
                  /\ tab[t].admin # None /\ b.admin = None /\ b.tech = tab[t].tech
               \/ /\ store' = [store EXCEPT !["tech"] = 0]
                  /\ tab[t].tech # None /\ b.tech = None /\ b.admin = tab[t].admin
    BY <1>3, LogoutTab
  <2>2. PageOf(x, tab[t], owner)
    OBVIOUS
  <2>3. PageOf(x, b, owner)
    BY <2>1, <2>2 DEF PageOf
  <2>4. CASE store' = [store EXCEPT !["admin"] = 0] /\ tab[t].admin # None
    <3>1. x \in Staff
      BY <2>2, <2>4 DEF PageOf, Shape, TabRecords
    <3>2. store'.admin = 0 /\ store'.tech = store.tech /\ store.tech = 0
      BY <2>4, <3>1, Dropped, OneKept, SessionConstants
    <3> QED BY <1>3, <2>1, <2>3, <3>2, OnePage DEF Logout
  <2>5. CASE store' = [store EXCEPT !["tech"] = 0] /\ tab[t].tech # None
    <3>1. x \in Techs
      BY <2>2, <2>5 DEF PageOf, Shape, TabRecords
    <3>2. store'.tech = 0 /\ store'.admin = store.admin /\ store.admin = 0
      BY <2>5, <3>1, Dropped, OneKept, SessionConstants
    <3> QED BY <1>3, <2>1, <2>3, <3>2, OnePage DEF Logout
  <2> QED BY <2>1, <2>4, <2>5
<1>4. ASSUME NEW t \in Tabs, NEW kind \in {"page", "save", "password"}, Send(t, kind)
      PROVE  SessionOf(x)'
  <2>1. PICK b \in TabRecords, r \in Requests :
            /\ tab' = [tab EXCEPT ![t] = b]
            /\ b.admin = tab[t].admin /\ b.tech = tab[t].tech /\ b.header = tab[t].header
            /\ b.sent = tab[t].sent \union {r}
            /\ r.kind = kind /\ r.token \in {store.admin, store.tech, tab[t].header}
            /\ r.from \in {tab[t].admin, tab[t].tech} /\ r.from # None
    BY <1>4, SendTab
  <2>2. PageOf(x, tab[t], owner)
    OBVIOUS
  <2>3. r.from = x /\ (r.token # 0 => owner[r.token] = x)
    BY <2>1, <2>2 DEF PageOf, KeptFor
  <2>4. Occupied(b) <=> Occupied(tab[t])
    BY <2>1 DEF Occupied
  <2>5. PageOf(x, b, owner)
    BY <2>1, <2>2, <2>3, <2>4 DEF PageOf
  <2> QED BY <1>4, <2>1, <2>4, <2>5, OnePage DEF Send
<1>5. ASSUME NEW t \in Tabs, NEW q \in tab[t].sent, Succeed(t, q) PROVE SessionOf(x)'
  <2>1. PICK b \in TabRecords :
            /\ tab' = [tab EXCEPT ![t] = b] /\ b.header = tab[t].header
            /\ b.sent = (tab[t].sent \ {q}) \union NextAsked(t, q)
            /\ b.admin = IF q.kind \in {"admin", "profile"} THEN owner[q.token]
                                                            ELSE tab[t].admin
            /\ b.tech = IF q.kind = "tech" THEN owner[q.token] ELSE tab[t].tech
            /\ q.kind \in {"admin", "profile"} => owner[q.token] \in Staff
            /\ q.kind = "tech" => owner[q.token] \in Techs
            /\ q.token \in Given
    BY <1>5, SucceedTab
  <2>2. PageOf(x, tab[t], owner) /\ q.token # 0
    BY <2>1, GivenFacts DEF Shape
  <2>3. q.kind \in {"admin", "profile", "tech"} => owner[q.token] = x /\ x # None
    BY <2>1, <2>2, SessionConstants DEF PageOf
  <2>4. Occupied(tab[t]) => Occupied(b)
    BY <2>1, <2>3 DEF Occupied
  <2>5. b.admin \in {None, x} /\ b.tech \in {None, x}
    BY <2>1, <2>2, <2>3 DEF PageOf
  <2>7. currentToken(t) # 0 => owner[currentToken(t)] = x
    BY <2>2, OneKept DEF currentToken, PageOf
  <2>8. \A r \in NextAsked(t, q) :
            r.kind = "profile" /\ r.from = x /\ (r.token # 0 => owner[r.token] = x)
    BY <2>2, <2>7 DEF NextAsked, Request, PageOf
  <2>6. PageOf(x, b, owner)
    BY <2>1, <2>2, <2>4, <2>5, <2>8 DEF PageOf
  <2> QED BY <1>5, <2>1, <2>4, <2>6, OnePage DEF Succeed
<1>6. ASSUME NEW t \in Tabs, NEW q \in tab[t].sent, Failed(t, q), owner' = owner
      PROVE  SessionOf(x)'
  <2>1. PICK b \in TabRecords :
            /\ tab' = [tab EXCEPT ![t] = b] /\ b.sent = tab[t].sent \ {q}
            /\ b.header = IF q.kind \in {"admin", "tech"} THEN 0 ELSE tab[t].header
            /\ b.admin = IF q.kind = "admin" THEN None ELSE tab[t].admin
            /\ b.tech = IF q.kind = "tech" THEN None ELSE tab[t].tech
    BY <1>6, FailedTab
  <2>2. PageOf(x, tab[t], owner) /\ TabOK(tab[t], Given)
    BY DEF Shape
  <2>3. CASE q.kind \notin {"admin", "tech"}
    <3>1. Occupied(tab[t]) => Occupied(b)
      BY <2>1, <2>3 DEF Occupied
    <3>2. PageOf(x, b, owner)
      BY <2>1, <2>2, <2>3, <3>1 DEF PageOf
    <3>3. store' = store
      BY <1>6, <2>3 DEF Failed
    <3> QED BY <1>6, <2>1, <3>1, <3>2, <3>3, OnePage
  <2>4. CASE q.kind \in {"admin", "tech"}
    <3>1. /\ store' = [store EXCEPT ![q.kind] = 0]
          /\ owner[q.token] = x /\ (q.kind = "admin" => x \in Staff)
          /\ (q.kind = "tech" => x \in Techs)
      BY <1>6, <2>2, <2>4 DEF Failed, PageOf, TabOK
    <3>2. store'.admin = 0 /\ store'.tech = 0
      BY <2>4, <3>1, Dropped, OneKept, SessionConstants
    <3>3. PageOf(x, b, owner)
      BY <2>1, <2>2, <2>4 DEF PageOf
    <3> QED BY <1>6, <2>1, <3>2, <3>3, OnePage
  <2> QED BY <2>3, <2>4
<1>7. ASSUME NEW t \in Tabs, NEW q \in tab[t].sent, Unauthorized(t, q) PROVE SessionOf(x)'
  <2>1. CASE Failed(t, q)
    BY <1>6, <1>7, <2>1 DEF Unauthorized
  <2>2. CASE /\ store' = Empty
             /\ \E path \in {"techLogin", "login"} : tab' = [tab EXCEPT ![t] = Fresh(path, Empty)]
    <3>1. PICK path \in Paths : tab' = [tab EXCEPT ![t] = Fresh(path, Empty)]
      BY <2>2 DEF Paths
    <3>2. store'.admin = 0 /\ store'.tech = 0
      BY <2>2 DEF Empty
    <3> QED BY <1>7, <3>1, <3>2, FreshPage, OnePage DEF Unauthorized
  <2> QED BY <1>7, <2>1, <2>2 DEF Unauthorized
<1>8. CASE UNCHANGED <<store, owner, tab>>
  BY <1>8 DEF KeptFor, PageOf, Occupied
<1> QED
  BY <1>1, <1>2, <1>3, <1>4, <1>5, <1>6, <1>7, <1>8 DEF Next, Poll, Fail, Expire, vars

\* Whoever signs in where nobody was finds no token, no header and no profile on
\* its way that belongs to somebody else.
LEMMA SignedInAlone ==
    ASSUME Shape, NEW x, SessionOf(x), NEW t \in Tabs, NEW who \in Accounts, Login(t, who),
           \A u \in Tabs : ~SomebodyIn(tab[u])
    PROVE  SessionOf(who)'
<1>1. \A u \in Tabs : ~Occupied(tab[u])
  BY DEF SomebodyIn, Occupied
<1>2. store.admin = 0 /\ store.tech = 0 /\ \A u \in Tabs : tab[u].header = 0
  BY <1>1 DEF SessionOf, PageOf
<1>3. PICK n \in Tokens, b \in TabRecords :
          /\ n \notin Given /\ n # 0 /\ owner'[n] = who
          /\ \A m \in Given : owner'[m] = owner[m]
          /\ tab' = [tab EXCEPT ![t] = b] /\ b.sent = tab[t].sent /\ b.header = n
          /\ \/ /\ who \in Staff /\ b.admin = who /\ b.tech = tab[t].tech
                /\ store' = [store EXCEPT !.admin = n]
             \/ /\ who \in Techs /\ b.tech = who /\ b.admin = tab[t].admin
                /\ store' = [store EXCEPT !.tech = n]
  BY LoginTab
<1>4. KeptFor(who)'
  BY <1>2, <1>3 DEF KeptFor, Shape, StoreOK, Stores
<1>5. who # None
  BY SessionConstants DEF Accounts
<1>6. Occupied(b)
  BY <1>3, <1>5 DEF Occupied
<1>7. ASSUME NEW u \in Tabs, NEW q \in tab[u].sent
      PROVE  /\ q.kind \notin {"admin", "tech", "save", "profile"}
             /\ q.from # None /\ q.token # 0 => owner'[q.token] = q.from
  <2>1. q.kind \notin {"admin", "tech", "save", "profile"}
    BY DEF SomebodyIn
  <2>2. PageOf(x, tab[u], owner) /\ TabOK(tab[u], Given)
    BY DEF SessionOf, Shape
  <2> QED BY <1>3, <2>1, <2>2 DEF PageOf, TabOK
<1>8. ASSUME NEW u \in Tabs PROVE PageOf(who, tab'[u], owner')
  <2>1. tab[u].admin = None /\ tab[u].tech = None
    BY <1>1 DEF Occupied
  <2>2. CASE u = t
    <3>1. tab'[u] = b
      BY <1>3, <2>2 DEF Shape
    <3>2. PageOf(who, b, owner')
      BY <1>3, <1>6, <1>7, <2>1, <2>2 DEF PageOf
    <3> QED BY <3>1, <3>2
  <2>3. CASE u # t
    <3>1. tab'[u] = tab[u]
      BY <1>3, <2>3 DEF Shape
    <3> QED BY <1>2, <1>7, <2>1, <3>1 DEF PageOf
  <2> QED BY <2>2, <2>3
<1>9. \E u \in Tabs : Occupied(tab'[u])
  BY <1>3, <1>6 DEF Shape
<1>10. \A u \in Tabs : PageOf(who, tab[u], owner)'
  BY <1>8 DEF PageOf, Occupied
<1>11. (\E u \in Tabs : Occupied(tab[u]))'
  BY <1>9 DEF Occupied
<1> QED BY <1>4, <1>10, <1>11 DEF SessionOf

\* Every step keeps one session, or shares the browser.
THEOREM OneSessionNext == Shape /\ OneSession /\ [Next]_vars => OneSession'
<1> SUFFICES ASSUME Shape, OneSession, [Next]_vars, ~shared'
             PROVE  \E x \in Accounts \union {None} : SessionOf(x)'
  BY DEF OneSession
<1>1. ~shared
  BY DEF Next, Open, Follow, Logout, Poll, Send, Login, Succeed, Fail, Unauthorized, Expire,
         vars, Shape
<1>2. PICK x \in Accounts \union {None} : SessionOf(x)
  BY <1>1 DEF OneSession
<1>3. CASE \A t \in Tabs, who \in Accounts : ~Login(t, who)
  BY <1>2, <1>3, SessionStep
<1>4. ASSUME NEW t \in Tabs, NEW who \in Accounts, Login(t, who)
      PROVE  SessionOf(who)'
  BY <1>2, <1>4, SignedInAlone DEF Login
<1> QED BY <1>3, <1>4

\* "Technicians and admins never share a browser session, so whichever token is
\* present is the active one": as long as they do not, every request is signed by
\* the account its page shows, or by nobody, in any number of tabs.
THEOREM SentAsShownHolds == Spec => []SentAsShown
<1>1. Shape /\ OneSession => SentAsShown
  BY DEF Shape, OneSession, SessionOf, PageOf, SentAsShown
<1> QED BY <1>1, ShapeHolds, OneSessionInit, OneSessionNext, PTL DEF Spec
=============================================================================
