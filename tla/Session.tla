-------------------------------- MODULE Session --------------------------------
(***************************************************************************)
(* Who is signed in in a browser.  The tokens of staff and of technicians  *)
(* are kept in one store that all tabs share; each tab shows the account   *)
(* its two providers loaded when the page did, signs each request with     *)
(* whatever token the store holds at that moment, or if it holds none, with *)
(* the one the page was last given; and any refusal for want of a valid    *)
(* token empties the store and leaves for a sign-in page.                  *)
(*                                                                         *)
(* Tokens are numbered in the order they are given out, 0 for none.  The   *)
(* pages of the office are one path, those of the technicians' portal      *)
(* another; a page that leaves is gone with all its requests.              *)
(***************************************************************************)
EXTENDS Naturals, FiniteSets

CONSTANTS
    Tabs,
    Staff,      \* staff accounts
    Techs,      \* technicians' accounts
    MaxLogins,  \* sign-ins the model makes (bound)
    MaxSent,    \* requests a page has under way when it sends another (bound)
    None

ASSUME SessionConstants ==
    /\ MaxLogins \in Nat \ {0} /\ MaxSent \in Nat \ {0}
    /\ Staff \intersect Techs = {}
    /\ None \notin Staff \union Techs

VARIABLES
    store,    \* localStorage: the token of staff and that of a technician
    owner,    \* whose each token is, in the order they were given out
    expired,  \* tokens the server no longer takes
    tab,      \* what each tab shows and has asked for
    shared    \* somebody signed in while somebody else was (history)

vars == <<store, owner, expired, tab, shared>>

Accounts == Staff \union Techs
Tokens == 0..MaxLogins
Given == DOMAIN owner
Paths == {"login", "techLogin", "office", "portal"}
SignInPages == {"login", "techLogin"}

Valid(n) == n \in Given /\ n \notin expired

\* A staff token goes before a technician's.
Kept(st) == IF st.admin # 0 THEN st.admin ELSE st.tech

\* currentToken: what is kept, or else the page's default header.
currentToken(t) == IF Kept(store) # 0 THEN Kept(store) ELSE tab[t].header

Request(token, from, kind) == [token |-> token, from |-> from, kind |-> kind]

\* The routes: what is protected leads to its sign-in page once nobody is being
\* loaded, and the staff's sign-in page leads on who is signed in already.
Routed(b) ==
    [b EXCEPT !.path =
        CASE b.path = "office" /\ b.admin = None /\ "admin" \notin b.load -> "login"
          [] b.path = "portal" /\ b.tech = None /\ "tech" \notin b.load -> "techLogin"
          [] b.path = "login" /\ b.admin # None -> "office"
          [] OTHER -> b.path]

\* A page that has just been loaded: each provider asks for its profile if the
\* store holds its token.
Fresh(path, kept) ==
    LET load == {kind \in {"admin", "tech"} : kept[kind] # 0}
    IN  Routed([path |-> path, admin |-> None, tech |-> None, load |-> load,
                header |-> Kept(kept),
                sent |-> {Request(Kept(kept), None, kind) : kind \in load}])

Empty == [admin |-> 0, tech |-> 0]

Init ==
    /\ store = Empty
    /\ owner = <<>>
    /\ expired = {}
    /\ tab = [t \in Tabs |-> Fresh("login", Empty)]
    /\ shared = FALSE

-----------------------------------------------------------------------------
\* An address is typed, or the page loaded again.
Open(t, path) ==
    /\ tab' = [tab EXCEPT ![t] = Fresh(path, store)]
    /\ tab' # tab
    /\ UNCHANGED <<store, owner, expired, shared>>

\* The links between the two sign-in pages.
Follow(t) ==
    /\ tab[t].path \in SignInPages
    /\ tab' = [tab EXCEPT ![t] =
                  Routed([@ EXCEPT !.path = IF tab[t].path = "login" THEN "techLogin"
                                                                     ELSE "login"])]
    /\ UNCHANGED <<store, owner, expired, shared>>

\* Somebody is shown, or a profile is still on its way, be it to be saved or read: a
\* late one is taken over even if its owner has signed out meanwhile.
SomebodyIn(b) ==
    \/ b.admin # None \/ b.tech # None
    \/ \E q \in b.sent : q.kind \in {"admin", "tech", "save", "profile"}

\* Mutant: whoever signs in on the staff's page gets the staff's key.
LoginUnderOneKey(t, who) ==
    /\ Cardinality(Given) < MaxLogins
    /\ tab[t].path = "login" /\ "admin" \notin tab[t].load
    /\ LET n == Cardinality(Given) + 1
       IN  /\ owner' = [m \in 1..n |-> IF m = n THEN who ELSE owner[m]]
           /\ store' = [store EXCEPT !.admin = n]
           /\ tab' = [tab EXCEPT ![t].admin = who, ![t].path = "office", ![t].header = n]
    /\ UNCHANGED <<expired, shared>>

\* The server takes the name and password: staff first, then technicians, on the
\* staff's page, which waits until nobody is being loaded; technicians only on
\* theirs, whoever else is signed in.
Login(t, who) ==
    /\ Cardinality(Given) < MaxLogins
    /\ tab[t].path \in SignInPages
    /\ tab[t].path = "login" => "admin" \notin tab[t].load
    /\ tab[t].path = "techLogin" => who \in Techs
    /\ LET n == Cardinality(Given) + 1
       IN  /\ owner' = [m \in 1..n |-> IF m = n THEN who ELSE owner[m]]
           /\ IF who \in Staff
              THEN /\ store' = [store EXCEPT !.admin = n]
                   /\ tab' = [tab EXCEPT ![t].admin = who, ![t].path = "office",
                                         ![t].header = n]
              ELSE /\ store' = [store EXCEPT !.tech = n]
                   /\ tab' = [tab EXCEPT ![t].tech = who, ![t].path = "portal",
                                         ![t].header = n]
    /\ shared' = (shared \/ \E u \in Tabs : SomebodyIn(tab[u]))
    /\ UNCHANGED expired

\* Mutant: signing out forgets the account but not its token.
LogoutKeepingToken(t) ==
    /\ \/ /\ tab[t].path = "office" /\ tab[t].admin # None
          /\ tab' = [tab EXCEPT ![t] = Routed([@ EXCEPT !.admin = None, !.header = 0])]
       \/ /\ tab[t].path = "portal" /\ tab[t].tech # None
          /\ tab' = [tab EXCEPT ![t] = Routed([@ EXCEPT !.tech = None, !.header = 0])]
    /\ UNCHANGED <<store, owner, expired, shared>>

\* Signing out of the office, or of the portal: its own token, its own account.
Logout(t) ==
    /\ \/ /\ tab[t].path = "office" /\ tab[t].admin # None
          /\ store' = [store EXCEPT !.admin = 0]
          /\ tab' = [tab EXCEPT ![t] = Routed([@ EXCEPT !.admin = None, !.header = 0])]
       \/ /\ tab[t].path = "portal" /\ tab[t].tech # None
          /\ store' = [store EXCEPT !.tech = 0]
          /\ tab' = [tab EXCEPT ![t] = Routed([@ EXCEPT !.tech = None, !.header = 0])]
    /\ UNCHANGED <<owner, expired, shared>>

Expire(n) ==
    /\ Valid(n)
    /\ expired' = expired \union {n}
    /\ UNCHANGED <<store, owner, tab, shared>>

-----------------------------------------------------------------------------
(* Requests.                                                               *)

ShownIn(b) == IF b.path = "office" THEN b.admin ELSE b.tech

\* A page asks for something, saves the profile, or changes the password.
Send(t, kind) ==
    /\ tab[t].path \in {"office", "portal"}
    /\ ShownIn(tab[t]) # None
    /\ kind = "save" => tab[t].path = "office"
    /\ tab' = [tab EXCEPT ![t].sent =
                  @ \union {Request(currentToken(t), ShownIn(tab[t]), kind)}]
    /\ tab' # tab
    /\ UNCHANGED <<store, owner, expired, shared>>

\* The portal's layout asks for the parcels' summary every minute.
Poll(t) == tab[t].path = "portal" /\ Send(t, "page")

\* The providers take over the profile that comes back; one that has been saved is
\* asked for again, signed with the token there is by then.
Told(b, q, token) ==
    CASE q.kind \in {"admin", "profile"} ->
            [b EXCEPT !.admin = owner[q.token], !.load = @ \ {"admin"}]
      [] q.kind = "tech" -> [b EXCEPT !.tech = owner[q.token], !.load = @ \ {"tech"}]
      [] q.kind = "save" ->
            [b EXCEPT !.sent = @ \union {Request(token, q.from, "profile")}]
      [] OTHER -> b

\* A technician's request signed by staff is forbidden: what a page asks for in
\* the portal, and the technician's profile.  So is saving the staff's profile,
\* signed by a technician.
Forbidden(q) ==
    \/ /\ owner[q.token] \in Staff
       /\ q.kind = "tech" \/ q.from \in Techs
    \/ owner[q.token] \in Techs /\ q.kind = "save"

\* Reading the staff's profile, or their password, signed by a technician: nobody
\* of that number among staff, which counts as not being signed in.
NotStaff(q) ==
    /\ owner[q.token] \in Techs
    /\ q.kind \in {"admin", "profile"} \/ (q.kind = "password" /\ q.from \in Staff)

Without(q, b) == [b EXCEPT !.sent = @ \ {q}]

Succeed(t, q) ==
    /\ Valid(q.token) /\ ~Forbidden(q) /\ ~NotStaff(q)
    /\ tab' = [tab EXCEPT ![t] = Routed(Told(Without(q, tab[t]), q, currentToken(t)))]
    /\ UNCHANGED <<store, owner, expired, shared>>

\* A profile that could not be loaded, for whatever reason, drops its token
\* and the header.
GivenUp(b, q) ==
    CASE q.kind = "admin" ->
            [b EXCEPT !.admin = None, !.load = @ \ {"admin"}, !.header = 0]
      [] q.kind = "tech" -> [b EXCEPT !.tech = None, !.load = @ \ {"tech"}, !.header = 0]
      [] OTHER -> b

Failed(t, q) ==
    /\ tab' = [tab EXCEPT ![t] = Routed(GivenUp(Without(q, tab[t]), q))]
    /\ store' = IF q.kind \in {"admin", "tech"} THEN [store EXCEPT ![q.kind] = 0] ELSE store

\* Forbidden, a server error, no connection.
Fail(t, q) ==
    /\ Failed(t, q)
    /\ UNCHANGED <<owner, expired, shared>>

\* Mutant: every address below /technician counts as a sign-in page.
onTechnicianScreen(t) == tab[t].path # "office"

onLoginScreen(t) == tab[t].path \in SignInPages

\* The current password given with a new one is wrong.
Mistyped(q) == Valid(q.token) /\ ~NotStaff(q) /\ ~Forbidden(q) /\ q.kind = "password"

\* No token, an expired one, or a wrong current password: the interceptor empties
\* the store and the page leaves, except on a sign-in page.
Unauthorized(t, q) ==
    /\ IF Valid(q.token) THEN NotStaff(q) \/ Mistyped(q) ELSE TRUE
    /\ IF onLoginScreen(t) THEN Failed(t, q)
       ELSE /\ store' = Empty
            /\ tab' = [tab EXCEPT ![t] =
                  Fresh(IF store.tech # 0 THEN "techLogin" ELSE "login", Empty)]
    /\ UNCHANGED <<owner, expired, shared>>

Answered(t) ==
    \E q \in tab[t].sent :
        q.kind \in {"page", "tech"} /\ (Succeed(t, q) \/ Unauthorized(t, q))

Next ==
    \/ \E t \in Tabs :
          \/ \E path \in Paths : Open(t, path)
          \/ Follow(t) \/ Logout(t) \/ Poll(t)
          \/ \E who \in Accounts : Login(t, who)
          \/ /\ Cardinality(tab[t].sent) < MaxSent
             /\ \E kind \in {"page", "save", "password"} : Send(t, kind)
          \/ \E q \in tab[t].sent : Succeed(t, q) \/ Unauthorized(t, q) \/ Fail(t, q)
    \/ \E n \in Given : Expire(n)

(* The timer of the portal's layout fires, and of the answers that may be    *)
(* lost again and again one arrives.                                         *)
Fairness == \A t \in Tabs : WF_vars(Poll(t)) /\ SF_vars(Answered(t))

Spec == Init /\ [][Next]_vars /\ Fairness

-----------------------------------------------------------------------------
Kinds == {"admin", "tech", "page", "save", "profile", "password"}

\* A staff token is only ever kept as one, and so is a technician's.
TypeOK ==
    /\ store \in [admin : Tokens, tech : Tokens]
    /\ store.admin # 0 => owner[store.admin] \in Staff
    /\ store.tech # 0 => owner[store.tech] \in Techs
    /\ expired \subseteq Given /\ Given = 1..Cardinality(Given)
    /\ shared \in BOOLEAN
    /\ \A t \in Tabs :
          /\ tab[t].path \in Paths
          /\ tab[t].admin \in Staff \union {None} /\ tab[t].tech \in Techs \union {None}
          /\ tab[t].load \subseteq {"admin", "tech"} /\ tab[t].header \in Tokens
          /\ tab[t].sent \subseteq [token : Tokens, from : Accounts \union {None}, kind : Kinds]

\* "Technicians and admins never share a browser session, so whichever token is
\* present is the active one": as long as people sign out before others sign in,
\* what a page sends is signed by the account it shows, or not at all.
SentAsShown ==
    \A t \in Tabs : \A q \in tab[t].sent :
        (q.from # None /\ q.token # 0 /\ ~shared) => owner[q.token] = q.from

\* A technician whose session has ended does not stay on the portal: the next
\* poll that is answered leads to a sign-in page.
EndedLeaves ==
    \A t \in Tabs :
        (tab[t].path = "portal" /\ tab[t].tech # None /\ ~Valid(currentToken(t)))
            ~> (tab[t].path # "portal" \/ Valid(currentToken(t)))
=============================================================================
