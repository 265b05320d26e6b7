---------------------------- MODULE GuaranteeForms ----------------------------
(***************************************************************************)
(* The three forms a guarantee is entered on: the public registration page, *)
(* the office's dialog for a new guarantee and the one that corrects a     *)
(* guarantee waiting for review.  Each looks the product of a code up half *)
(* a second after the typing stops, uploads a document as soon as it is    *)
(* picked, and sends what its boxes hold when it is saved.  Look-ups and   *)
(* uploads are not withdrawn: an answer goes into the form whatever it     *)
(* shows by then, the next registration or another guarantee included.     *)
(*                                                                         *)
(* A guarantee put on the form is an entry, and entries are numbered.  A   *)
(* code is what the form looks up, three characters or more; NoCode stands *)
(* for less.  The fields that are only copied (the customer's details, the *)
(* notes, the status) are left out.                                        *)
(***************************************************************************)
EXTENDS Naturals, Sequences

CONSTANTS
    Codes,
    ProductOf,   \* the product the server has for each code
    Rows,        \* guarantees waiting for review
    RowCode,     \* the code each was registered with
    Slots,       \* the documents of a guarantee: the invoice and the card
    MaxEntries,  \* guarantees put on the form (bound)
    MaxTyped,    \* codes typed (bound)
    MaxFiles,    \* documents picked (bound)
    None

Forms == {"public", "admin", "edit"}
Products == {ProductOf[c] : c \in Codes}
NoDate == 0
Dates == 1..2
Files == 1..MaxFiles   \* 0 for no file, or the one the guarantee has already

ASSUME FormConstants ==
    /\ None \notin Codes \union Products \union Rows
    /\ RowCode \in [Rows -> Codes]
    /\ {MaxEntries, MaxTyped, MaxFiles} \subseteq Nat \ {0}

VARIABLES
    form,     \* which of the three it is
    page,     \* entry and guarantee shown, if it is open, the entry being saved
    box,      \* what the boxes hold
    look,     \* the code the form looks up and what came of it
    touched,  \* touchedRef: the loaded expiry may be recomputed
    upload,   \* documents: where picked, under way, shown, and the busy flag
    seen      \* history: codes typed, what was edited, the entry each file came to

vars == <<form, page, box, look, touched, upload, seen>>

NoCover == [by |-> "nothing", of |-> None, from |-> NoDate]
Typed == [by |-> "hand", of |-> None, from |-> NoDate]
Filed == [by |-> "file", of |-> None, from |-> NoDate]
Cover(p, d) == [by |-> "cover", of |-> p, from |-> d]

NoFiles == [s \in Slots |-> 0]
Blank == [code |-> None, purchase |-> NoDate, expiry |-> NoCover, docs |-> NoFiles]
Loaded(r) == [code |-> RowCode[r], purchase |-> 1, expiry |-> Filed, docs |-> NoFiles]

\* The product a look-up has shown: on the edit form, what is cached for its code.
Product(l) ==
    CASE form # "edit" -> l.match
      [] form = "edit" /\ l.settled \in l.cached -> ProductOf[l.settled]
      [] OTHER -> None

\* applyPeriod, and the new form's effect: the cover of p from the purchase date.
Covered(b, p) ==
    IF p # None /\ b.purchase # NoDate THEN [b EXCEPT !.expiry = Cover(p, b.purchase)]
                                       ELSE b

\* The product shown turns from l's to that of m: the new form fills the expiry
\* with every match, the edit form only for another product and once touched.
Shown(b, l, m) ==
    CASE form = "public" -> b
      [] form = "admin" -> Covered(b, Product(m))
      [] form = "edit" /\ touched /\ Product(m) # Product(l) -> Covered(b, Product(m))
      [] OTHER -> b

NoLook == [settled |-> None, asked |-> [c \in Codes |-> 0], match |-> None,
           cached |-> {}, crossed |-> FALSE]
Asking(l) == \E c \in Codes : l.asked[c] # 0
-----------------------------------------------------------------------------
(* The code and the dates. *)

TypeCode(c) ==
    /\ page.open /\ c # box.code /\ seen.typed < MaxTyped
    /\ box' = [box EXCEPT !.code = c]
    /\ touched' = (form = "edit" \/ touched)
    /\ seen' = [seen EXCEPT !.typed = @ + 1, !.edited = TRUE]
    /\ UNCHANGED <<form, page, look, upload>>

\* A code the edit form has neither cached nor asked for is asked once; the
\* other two ask again each time.
Ask(l, c) ==
    IF c = None \/ (form = "edit" /\ (~page.open \/ c \in l.cached \/ l.asked[c] # 0))
    THEN l ELSE [l EXCEPT !.asked[c] = @ + 1]
\* Mutant: the product matched before stays until the answer comes.
SettledKeepingMatch(c) == [Ask(look, c) EXCEPT !.settled = c, !.crossed = Asking(look)]

\* The debounced value: also while the dialog is closed, or a registration done.
SettledOn(c) ==
    [Ask(look, c) EXCEPT !.settled = c, !.match = None, !.crossed = Asking(look)]
Settle ==
    /\ look.settled # box.code
    /\ look' = SettledOn(box.code)
    /\ box' = Shown(box, look, look')
    /\ UNCHANGED <<form, page, touched, upload, seen>>

\* lookupProduct, answered: nothing compares the code with the one shown.
Answered(c) == [look EXCEPT !.asked[c] = @ - 1, !.match = ProductOf[c],
                            !.cached = @ \union {c}]
Answer(c) ==
    /\ look.asked[c] # 0
    /\ look' = Answered(c)
    /\ box' = Shown(box, look, look')
    /\ UNCHANGED <<form, page, touched, upload, seen>>

LookupFails(c) ==
    /\ look.asked[c] # 0
    /\ look' = [look EXCEPT !.asked[c] = @ - 1, !.match = None]
    /\ UNCHANGED <<form, page, box, touched, upload, seen>>

PickDate(d) ==
    /\ page.open /\ d # box.purchase
    /\ LET b == [box EXCEPT !.purchase = d]
       IN  box' = IF form = "public" THEN b ELSE Covered(b, Product(look))
    /\ touched' = (form = "edit" \/ touched)
    /\ seen' = [seen EXCEPT !.edited = TRUE]
    /\ UNCHANGED <<form, page, look, upload>>

PickExpiry ==
    /\ page.open /\ form # "public" /\ box.expiry # Typed
    /\ box' = [box EXCEPT !.expiry = Typed]
    /\ UNCHANGED <<form, page, look, touched, upload, seen>>
-----------------------------------------------------------------------------
(* Documents. *)
\* Only a slot that shows no picture offers to pick one, but on the edit form.
PickFile(s) ==
    LET f == Len(upload.picked) + 1 IN
    /\ page.open /\ f \in Files /\ (form # "edit" => upload.picture[s] = 0)
    /\ upload' = [upload EXCEPT !.picked = Append(@, s), !.under = @ \union {f}, !.busy = TRUE,
                                !.picture[s] = IF form = "edit" THEN 0 ELSE f]
    /\ UNCHANGED <<form, page, box, look, touched, seen>>

\* The X stands beside the picture; on the edit form, beside what the form holds.
RemoveFile(s) ==
    /\ page.open /\ IF form = "edit" THEN box.docs[s] # 0 ELSE upload.picture[s] # 0
    /\ upload' = [upload EXCEPT !.picture[s] = 0]
    /\ box' = [box EXCEPT !.docs[s] = 0]
    /\ UNCHANGED <<form, page, look, touched, seen>>

\* One flag tells of every upload: the first to end clears it.
Ended(f) == [upload EXCEPT !.under = @ \ {f}, !.busy = FALSE]
Uploaded(f) ==
    /\ f \in upload.under
    /\ box' = [box EXCEPT !.docs[upload.picked[f]] = f]
    /\ upload' = Ended(f)
    /\ seen' = [seen EXCEPT !.landed[f] = IF page.open THEN page.entry ELSE page.entry + 1]
    /\ UNCHANGED <<form, page, look, touched>>

UploadFails(f) ==
    /\ f \in upload.under
    /\ upload' = Ended(f)
    /\ UNCHANGED <<form, page, box, look, touched, seen>>
-----------------------------------------------------------------------------
(* Saving, and what is on the form next. *)

\* The button and the schema of each form, and its own check of the product.
CanSubmit ==
    /\ page.open /\ page.sending = 0 /\ ~upload.busy /\ box.code # None
    /\ CASE form = "public" -> box.purchase # NoDate /\ look.match # None
         [] form = "admin" -> look.match # None
         [] form = "edit" -> /\ box.purchase # NoDate /\ box.expiry # NoCover
                             /\ (box.code # RowCode[page.row] => Product(look) # None)

Submit ==
    /\ CanSubmit
    /\ page' = [page EXCEPT !.sending = page.entry]
    /\ UNCHANGED <<form, box, look, touched, upload, seen>>

Untouched == [seen EXCEPT !.edited = FALSE]
NoPictures == [upload EXCEPT !.picture = NoFiles]

\* Mutant: the documents, which no box of the form shows, are not reset.
WipeKeepingDocs ==
    /\ box' = [Blank EXCEPT !.docs = box.docs]
    /\ look' = [look EXCEPT !.match = None]
    /\ upload' = NoPictures

\* form.reset, resetUploads and setLookupResult(null); the busy flag, the look-ups
\* and the uploads under way are left alone.
Wipe ==
    /\ box' = Blank
    /\ look' = [look EXCEPT !.match = None]
    /\ upload' = NoPictures

\* A save that succeeds closes the form, whatever is on it by then.
Succeed ==
    /\ page.sending # 0
    /\ page' = [page EXCEPT !.sending = 0, !.open = FALSE]
    /\ IF form = "edit" THEN UNCHANGED <<box, look, upload>> ELSE Wipe
    /\ UNCHANGED <<form, touched, seen>>

SaveFails ==
    /\ page.sending # 0
    /\ page' = [page EXCEPT !.sending = 0]
    /\ UNCHANGED <<form, box, look, touched, upload, seen>>

\* "Register another", which resets the form again.
Another ==
    /\ form = "public" /\ ~page.open /\ page.entry < MaxEntries
    /\ page' = [page EXCEPT !.open = TRUE, !.entry = @ + 1]
    /\ box' = Blank
    /\ look' = [look EXCEPT !.match = None]
    /\ seen' = Untouched
    /\ UNCHANGED <<form, touched, upload>>

OpenNew ==
    /\ form = "admin" /\ ~page.open /\ page.entry < MaxEntries
    /\ page' = [page EXCEPT !.open = TRUE, !.entry = @ + 1]
    /\ seen' = Untouched
    /\ UNCHANGED <<form, box, look, touched, upload>>

\* Mutant: touchedRef stays set from the guarantee edited before.
OpenEditTouched(r) ==
    /\ form = "edit" /\ ~page.open /\ page.entry < MaxEntries
    /\ page' = [page EXCEPT !.open = TRUE, !.entry = @ + 1, !.row = r]
    /\ box' = Loaded(r)
    /\ seen' = Untouched
    /\ UNCHANGED <<form, look, touched, upload>>

\* The edit dialog is drawn once the customer has come, and filled then.
OpenEdit(r) ==
    /\ form = "edit" /\ ~page.open /\ page.entry < MaxEntries
    /\ page' = [page EXCEPT !.open = TRUE, !.entry = @ + 1, !.row = r]
    /\ box' = Loaded(r)
    /\ touched' = FALSE
    /\ look' = IF look.settled = None \/ look.settled \in look.cached \/ look.asked[look.settled] # 0
               THEN look ELSE [look EXCEPT !.asked[look.settled] = 1]
    /\ seen' = Untouched
    /\ UNCHANGED <<form, upload>>

\* Closed by hand: only the office's new form forgets what it holds.
Close ==
    /\ form # "public" /\ page.open
    /\ page' = [page EXCEPT !.open = FALSE]
    /\ IF form = "admin" THEN Wipe ELSE UNCHANGED <<box, look, upload>>
    /\ UNCHANGED <<form, touched, seen>>

\* The page is left: whatever is answered later finds no form, though the query
\* cache of the edit form keeps what it has and what it waits for.
Leave ==
    /\ form = "public" => page.entry < MaxEntries
    /\ page' = [open |-> form = "public", row |-> None, sending |-> 0,
                entry |-> IF form = "public" THEN page.entry + 1 ELSE page.entry]
    /\ box' = Blank /\ touched' = FALSE
    /\ look' = IF form = "edit" THEN [NoLook EXCEPT !.cached = look.cached, !.asked = look.asked]
                                ELSE NoLook
    /\ upload' = [upload EXCEPT !.under = {}, !.picture = NoFiles, !.busy = FALSE]
    /\ seen' = Untouched
    /\ UNCHANGED form
-----------------------------------------------------------------------------
Init ==
    /\ form \in Forms
    /\ page = [open |-> form = "public", row |-> None, sending |-> 0,
               entry |-> IF form = "public" THEN 1 ELSE 0]
    /\ box = Blank /\ look = NoLook /\ touched = FALSE
    /\ upload = [picked |-> << >>, under |-> {}, picture |-> NoFiles, busy |-> FALSE]
    /\ seen = [typed |-> 0, edited |-> FALSE, landed |-> [f \in Files |-> 0]]

Next ==
    \/ \E c \in Codes \union {None} : TypeCode(c)
    \/ Settle
    \/ \E c \in Codes : Answer(c) \/ LookupFails(c)
    \/ \E d \in Dates \union {NoDate} : PickDate(d)
    \/ PickExpiry
    \/ \E s \in Slots : PickFile(s) \/ RemoveFile(s)
    \/ \E f \in Files : Uploaded(f) \/ UploadFails(f)
    \/ Submit \/ Succeed \/ SaveFails
    \/ Another \/ OpenNew \/ \E r \in Rows : OpenEdit(r)
    \/ Close \/ Leave

Spec == Init /\ [][Next]_vars
-----------------------------------------------------------------------------
Sends == page.sending = 0 /\ page'.sending # 0

\* "The cover period follows the product and the purchase date": what is saved
\* half a second after the last typing, and after look-ups none of which crossed,
\* is of the product shown, the one of the code, and if the form worked the expiry
\* out, it is that product's cover from the purchase date.
CoverFollowsCode ==
    [][ (Sends /\ look.settled = box.code /\ ~look.crossed /\ Product(look) # None) =>
            /\ Product(look) = ProductOf[box.code]
            /\ (box.expiry.by = "cover" /\ box.purchase # NoDate) =>
                    box.expiry = Cover(Product(look), box.purchase) ]_vars

\* A document is saved in the slot it was picked for, and none is left over from an
\* entry before: what reached the form goes with the entry on it at that moment, or
\* the next if it was closed, and with no later one.  A document picked for one entry
\* but answered after it was closed does go with the next: seen.landed counts it so.
DocumentsOfThisEntry ==
    [][ Sends => \A s \in Slots :
            box.docs[s] # 0 => /\ upload.picked[box.docs[s]] = s
                               /\ seen.landed[box.docs[s]] = page.entry ]_vars

\* "so the loaded expiry is not recomputed out from under them just by opening the
\* dialog": where neither code nor purchase date was edited since the guarantee was
\* put on the form, its own expiry is saved, or one picked by hand.
ExpiryLeftAlone ==
    [][ (Sends /\ form = "edit" /\ ~seen.edited) => box.expiry \in {Filed, Typed} ]_vars
=============================================================================
