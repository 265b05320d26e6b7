------------------------- MODULE GuaranteeFormsProofs -------------------------
(***************************************************************************)
(* What the three forms save, for any codes, products, guarantees and      *)
(* documents, and however look-ups, uploads and saves are answered.        *)
(***************************************************************************)
EXTENDS GuaranteeForms, TLAPS

Expiries == [by : {"nothing", "hand", "file", "cover"}, of : Products \union {None},
             from : Dates \union {NoDate}]
Boxes == [code : Codes \union {None}, purchase : Dates \union {NoDate},
          expiry : Expiries, docs : [Slots -> Files \union {0}]]
Looks == [settled : Codes \union {None}, asked : [Codes -> Nat],
          match : Products \union {None}, cached : SUBSET Codes, crossed : BOOLEAN]
PageRecords == [open : BOOLEAN, row : Rows \union {None}, sending : Nat, entry : Nat]
Uploads == [picked : Seq(Slots), under : SUBSET Files, picture : [Slots -> Files \union {0}],
            busy : BOOLEAN]
Histories == [typed : Nat, edited : BOOLEAN, landed : [Files -> Nat]]

\* What the boxes, the look-up and the uploads hold.
Shape ==
    /\ form \in Forms /\ touched \in BOOLEAN
    /\ page \in PageRecords /\ box \in Boxes /\ look \in Looks
    /\ upload \in Uploads /\ seen \in Histories

-----------------------------------------------------------------------------
(* Parts of a record from one step to the next.                             *)

\* An empty form.
LEMMA BlankBox == Blank \in Boxes /\ Blank.docs = NoFiles /\ Blank.expiry = NoCover
                  /\ NoFiles \in [Slots -> Files \union {0}] /\ \A s \in Slots : NoFiles[s] = 0
  BY DEF Blank, Boxes, NoFiles, NoCover, Expiries

\* A form that has been filled with a guarantee.
LEMMA LoadedBox ==
    ASSUME NEW r \in Rows
    PROVE  Loaded(r) \in Boxes /\ Loaded(r).docs = NoFiles /\ Loaded(r).expiry = Filed
  BY FormConstants DEF Loaded, Boxes, NoFiles, Filed, Expiries, Dates

\* Nothing has been looked up.
LEMMA FreshLook == NoLook \in Looks
  BY DEF NoLook, Looks

\* The product shown is one of the products, or none.
LEMMA ProductType ==
    ASSUME NEW l \in Looks
    PROVE  Product(l) \in Products \union {None}
  BY FormConstants DEF Product, Looks, Products

\* Working the expiry out changes nothing else on the form.
LEMMA CoveredType ==
    ASSUME NEW b \in Boxes, NEW p \in Products \union {None}
    PROVE  /\ Covered(b, p) \in Boxes
           /\ Covered(b, p).docs = b.docs /\ Covered(b, p).code = b.code
           /\ Covered(b, p).purchase = b.purchase
           /\ p # None /\ b.purchase # NoDate => Covered(b, p).expiry = Cover(p, b.purchase)
           /\ p = None \/ b.purchase = NoDate => Covered(b, p) = b
  BY DEF Covered, Cover, Boxes, Expiries

\* A match leaves the boxes, or fills the expiry.
LEMMA ShownType ==
    ASSUME NEW b \in Boxes, NEW l \in Looks, NEW m \in Looks
    PROVE  Shown(b, l, m) \in {b, Covered(b, Product(m))}
  BY DEF Shown
\* One more of a kind, and a history that starts afresh.
LEMMA Counts ==
    ASSUME Shape
    PROVE  seen.typed + 1 \in Nat /\ page.entry + 1 \in Nat /\ Untouched \in Histories
<1>1. seen.typed + 1 \in Nat
  BY DEF Shape, Histories
<1>2. page.entry + 1 \in Nat
  BY DEF Shape, PageRecords
<1>3. Untouched \in Histories
  BY DEF Shape, Histories, Untouched
<1> QED BY <1>1, <1>2, <1>3

\* A look-up sets out, or is answered.
LEMMA AskedType ==
    ASSUME NEW l \in Looks, NEW c \in Codes
    PROVE  /\ [l EXCEPT !.asked[c] = @ + 1] \in Looks
           /\ l.asked[c] # 0 => [l EXCEPT !.asked[c] = @ - 1] \in Looks
<1>1. l.asked[c] + 1 \in Nat /\ (l.asked[c] # 0 => l.asked[c] - 1 \in Nat)
  BY DEF Looks
<1> QED BY <1>1 DEF Looks

\* The form shows no picture and holds no document.
LEMMA Wiped ==
    ASSUME Shape, Wipe
    PROVE  box' = Blank /\ look' \in Looks /\ upload' \in Uploads
  BY BlankBox DEF Shape, Wipe, NoPictures, Looks, Uploads


\* No page has been opened but the public one.
THEOREM ShapeInit == Init => Shape
<1> SUFFICES ASSUME Init PROVE Shape
  OBVIOUS
<1>1. page \in PageRecords
  BY DEF Init, PageRecords
<1>2. upload \in Uploads
  BY BlankBox DEF Init, Uploads
<1>3. seen \in Histories
  BY DEF Init, Histories
<1> QED BY <1>1, <1>2, <1>3, BlankBox, FreshLook DEF Init, Shape

\* Whatever is typed, picked or answered, boxes and look-ups keep their form.
THEOREM ShapeNext == Shape /\ [Next]_vars => Shape'
<1> SUFFICES ASSUME Shape, [Next]_vars PROVE Shape'
    OBVIOUS
<1>1. ASSUME NEW c \in Codes \union {None}, TypeCode(c) PROVE Shape'
  <2>1. box' \in Boxes
    BY <1>1 DEF TypeCode, Shape, Boxes
  <2>2. seen' \in Histories
    BY <1>1, Counts DEF TypeCode, Shape, Histories
  <2>3. touched' \in BOOLEAN
    BY <1>1 DEF TypeCode
  <2> QED BY <1>1, <2>1, <2>2, <2>3 DEF TypeCode, Shape
<1>2. ASSUME Settle PROVE Shape'
  <2>1. look' = [Ask(look, box.code) EXCEPT !.settled = box.code, !.match = None,
                                            !.crossed = Asking(look)]
    BY <1>2 DEF Settle, SettledOn
  <2>2. Ask(look, box.code) \in Looks /\ Asking(look) \in BOOLEAN
    BY AskedType DEF Ask, Shape, Asking, Boxes
  <2>3. box.code \in Codes \union {None}
    BY DEF Shape, Boxes
  <2>4. look' \in Looks
    BY <2>1, <2>2, <2>3 DEF Looks
  <2>5. box' \in Boxes
    BY <1>2, <2>4, ProductType, CoveredType, ShownType DEF Settle, Shape
  <2> QED BY <1>2, <2>4, <2>5 DEF Settle, Shape
<1>3. ASSUME NEW c \in Codes, Answer(c) PROVE Shape'
  <2>1. /\ look.asked[c] # 0
        /\ look' = [look EXCEPT !.asked[c] = @ - 1, !.match = ProductOf[c],
                                !.cached = @ \union {c}]
    BY <1>3 DEF Answer, Answered
  <2>2. [look EXCEPT !.asked[c] = @ - 1] \in Looks
    BY <2>1, AskedType DEF Shape
  <2>3. look' \in Looks
    BY <2>1, <2>2 DEF Looks, Shape, Products
  <2>4. box' \in Boxes
    BY <1>3, <2>3, ProductType, CoveredType, ShownType DEF Answer, Shape
  <2> QED BY <1>3, <2>3, <2>4 DEF Answer, Shape
<1>4. ASSUME NEW c \in Codes, LookupFails(c) PROVE Shape'
  <2>1. [look EXCEPT !.asked[c] = @ - 1] \in Looks
    BY <1>4, AskedType DEF LookupFails, Shape
  <2>2. look' \in Looks
    BY <1>4, <2>1 DEF LookupFails, Looks, Shape
  <2> QED BY <1>4, <2>2 DEF LookupFails, Shape
<1>5. ASSUME NEW d \in Dates \union {NoDate}, PickDate(d) PROVE Shape'
  <2> DEFINE b == [box EXCEPT !.purchase = d]
  <2>1. b \in Boxes /\ seen' \in Histories
    BY <1>5 DEF PickDate, Shape, Boxes, Histories
  <2>2. box' \in {b, Covered(b, Product(look))}
    BY <1>5 DEF PickDate
  <2> HIDE DEF b
  <2>3. box' \in Boxes
    BY <2>1, <2>2, ProductType, CoveredType DEF Shape
  <2> QED BY <1>5, <2>1, <2>3 DEF PickDate, Shape
<1>6. ASSUME PickExpiry PROVE Shape'
  BY <1>6 DEF PickExpiry, Shape, Boxes, Typed, Expiries
<1>7. ASSUME NEW s \in Slots, PickFile(s) PROVE Shape'
  <2> DEFINE f == Len(upload.picked) + 1
  <2>1. f \in Files /\ Append(upload.picked, s) \in Seq(Slots)
    BY <1>7 DEF PickFile, Shape, Uploads
  <2> HIDE DEF f
  <2>2. upload' \in Uploads
    BY <1>7, <2>1 DEF PickFile, f, Shape, Uploads
  <2> QED BY <1>7, <2>2 DEF PickFile, Shape
<1>8. ASSUME NEW s \in Slots, RemoveFile(s) PROVE Shape'
  BY <1>8 DEF RemoveFile, Shape, Uploads, Boxes
<1>9. ASSUME NEW f \in Files, Uploaded(f) PROVE Shape'
  <2>1. box' \in Boxes
    BY <1>9 DEF Uploaded, Shape, Boxes, Uploads
  <2>2. upload' \in Uploads
    BY <1>9 DEF Uploaded, Ended, Shape, Uploads
  <2>3. (IF page.open THEN page.entry ELSE page.entry + 1) \in Nat
    BY Counts DEF Shape, PageRecords
  <2>4. seen' \in Histories
    BY <1>9, <2>3 DEF Uploaded, Shape, Histories
  <2> QED BY <1>9, <2>1, <2>2, <2>4 DEF Uploaded, Shape
<1>10. ASSUME NEW f \in Files, UploadFails(f) PROVE Shape'
  BY <1>10 DEF UploadFails, Shape, Ended, Uploads
<1>11. ASSUME Submit PROVE Shape'
  BY <1>11 DEF Submit, Shape, PageRecords
<1>12. ASSUME Succeed PROVE Shape'
  <2>1. page' \in PageRecords
    BY <1>12 DEF Succeed, Shape, PageRecords
  <2> QED BY <1>12, <2>1, Wiped, BlankBox DEF Succeed, Shape
<1>13. ASSUME SaveFails PROVE Shape'
  BY <1>13 DEF SaveFails, Shape, PageRecords
<1>14. ASSUME Another PROVE Shape'
  <2>1. page' \in PageRecords
    BY <1>14, Counts DEF Another, Shape, PageRecords
  <2>2. look' \in Looks
    BY <1>14 DEF Another, Shape, Looks
  <2> QED BY <1>14, <2>1, <2>2, Counts, BlankBox DEF Another, Shape
<1>15. ASSUME OpenNew PROVE Shape'
  <2>1. page' \in PageRecords
    BY <1>15, Counts DEF OpenNew, Shape, PageRecords
  <2> QED BY <1>15, <2>1, Counts DEF OpenNew, Shape
<1>16. ASSUME NEW r \in Rows, OpenEdit(r) PROVE Shape'
  <2>1. page' \in PageRecords
    BY <1>16, Counts DEF OpenEdit, Shape, PageRecords
  <2>2. look' \in Looks
    BY <1>16 DEF OpenEdit, Shape, Looks
  <2> QED BY <1>16, <2>1, <2>2, Counts, LoadedBox DEF OpenEdit, Shape
<1>17. ASSUME Close PROVE Shape'
  <2>1. page' \in PageRecords
    BY <1>17 DEF Close, Shape, PageRecords
  <2> QED BY <1>17, <2>1, Wiped, BlankBox DEF Close, Shape
<1>18. ASSUME Leave PROVE Shape'
  <2>1. page' \in PageRecords
    BY <1>18, Counts DEF Leave, Shape, PageRecords
  <2>2. look' \in Looks
    BY <1>18, FreshLook DEF Leave, Shape, Looks
  <2>3. upload' \in Uploads
    BY <1>18, BlankBox DEF Leave, Shape, Uploads
  <2> QED BY <1>18, <2>1, <2>2, <2>3, Counts, BlankBox DEF Leave, Shape
<1>19. CASE UNCHANGED vars
  BY <1>19 DEF vars, Shape
<1> QED
  BY <1>1, <1>2, <1>3, <1>4, <1>5, <1>6, <1>7, <1>8, <1>9, <1>10, <1>11, <1>12, <1>13, <1>14, <1>15, <1>16, <1>17, <1>18, <1>19 DEF Next

\* Boxes, look-ups, uploads and history keep their form in every reachable state.

\* Boxes, look-ups, uploads and history keep their form in every reachable state.

\* Boxes, look-ups, uploads and history keep their form in every reachable state.

\* Boxes, look-ups, uploads and history keep their form in every reachable state.
THEOREM ShapeHolds == Spec => []Shape
  BY ShapeInit, ShapeNext, PTL DEF Spec

\* Nothing but the button sends a form.
LEMMA OnlySubmitSends ==
    ASSUME Shape, [Next]_vars, Sends
    PROVE  Submit
<1>1. ASSUME NEW c \in Codes \union {None}, TypeCode(c) PROVE FALSE
  BY <1>1 DEF TypeCode, Sends
<1>2. CASE Settle
  BY <1>2 DEF Settle, Sends
<1>3. ASSUME NEW c \in Codes, Answer(c) \/ LookupFails(c) PROVE FALSE
  BY <1>3 DEF Answer, LookupFails, Sends
<1>4. ASSUME NEW d \in Dates \union {NoDate}, PickDate(d) PROVE FALSE
  BY <1>4 DEF PickDate, Sends
<1>5. CASE PickExpiry
  BY <1>5 DEF PickExpiry, Sends
<1>6. ASSUME NEW s \in Slots, PickFile(s) \/ RemoveFile(s) PROVE FALSE
  BY <1>6 DEF PickFile, RemoveFile, Sends
<1>7. ASSUME NEW f \in Files, Uploaded(f) \/ UploadFails(f) PROVE FALSE
  BY <1>7 DEF Uploaded, UploadFails, Sends
<1>8. CASE Succeed \/ SaveFails
  BY <1>8 DEF Succeed, SaveFails, Sends, Shape, PageRecords
<1>9. CASE Another
  BY <1>9 DEF Another, Sends, Shape, PageRecords
<1>10. CASE OpenNew
  BY <1>10 DEF OpenNew, Sends, Shape, PageRecords
<1>11. ASSUME NEW r \in Rows, OpenEdit(r) PROVE FALSE
  BY <1>11 DEF OpenEdit, Sends, Shape, PageRecords
<1>12. CASE Close
  BY <1>12 DEF Close, Sends, Shape, PageRecords
<1>13. CASE Leave
  BY <1>13 DEF Leave, Sends
<1>14. CASE UNCHANGED vars
  BY <1>14 DEF vars, Sends
<1> QED
  BY <1>1, <1>2, <1>3, <1>4, <1>5, <1>6, <1>7, <1>8, <1>9, <1>10, <1>11, <1>12, <1>13,
     <1>14 DEF Next

-----------------------------------------------------------------------------
(* The loaded expiry.                                                       *)

\* On the edit form, as long as neither the code nor the purchase date has been
\* edited, the expiry is the guarantee's own or one picked by hand.
ExpiryKept ==
    form = "edit" /\ page.open /\ ~seen.edited => ~touched /\ box.expiry \in {Filed, Typed}

\* Only an edit of the code or the purchase date lets a match touch the expiry.
THEOREM ExpiryKeptNext == Shape /\ ExpiryKept /\ [Next]_vars => ExpiryKept'
<1> SUFFICES ASSUME Shape, ExpiryKept, [Next]_vars PROVE ExpiryKept'
    OBVIOUS
<1>1. ASSUME NEW c \in Codes \union {None}, TypeCode(c) PROVE ExpiryKept'
  BY <1>1 DEF TypeCode, ExpiryKept, Shape, Histories
<1>2. CASE Settle
  BY <1>2 DEF Settle, ExpiryKept, Shown
<1>3. ASSUME NEW c \in Codes, Answer(c) PROVE ExpiryKept'
  BY <1>3 DEF Answer, ExpiryKept, Shown
<1>4. ASSUME NEW c \in Codes, LookupFails(c) PROVE ExpiryKept'
  BY <1>4 DEF LookupFails, ExpiryKept
<1>5. ASSUME NEW d \in Dates \union {NoDate}, PickDate(d) PROVE ExpiryKept'
  BY <1>5 DEF PickDate, ExpiryKept, Shape, Histories
<1>6. CASE PickExpiry
  BY <1>6 DEF PickExpiry, ExpiryKept, Shape, Boxes
<1>7. ASSUME NEW s \in Slots, PickFile(s) PROVE ExpiryKept'
  BY <1>7 DEF PickFile, ExpiryKept
<1>8. ASSUME NEW s \in Slots, RemoveFile(s) PROVE ExpiryKept'
  BY <1>8 DEF RemoveFile, ExpiryKept, Shape, Boxes
<1>9. ASSUME NEW f \in Files, Uploaded(f) PROVE ExpiryKept'
  BY <1>9 DEF Uploaded, ExpiryKept, Shape, Boxes, Histories
<1>10. ASSUME NEW f \in Files, UploadFails(f) PROVE ExpiryKept'
  BY <1>10 DEF UploadFails, ExpiryKept
<1>11. CASE Submit
  BY <1>11 DEF Submit, ExpiryKept, Shape, PageRecords
<1>12. CASE Succeed
  BY <1>12 DEF Succeed, ExpiryKept, Shape, PageRecords
<1>13. CASE SaveFails
  BY <1>13 DEF SaveFails, ExpiryKept, Shape, PageRecords
<1>14. CASE Another
  BY <1>14 DEF Another, ExpiryKept
<1>15. CASE OpenNew
  BY <1>15 DEF OpenNew, ExpiryKept
<1>16. ASSUME NEW r \in Rows, OpenEdit(r) PROVE ExpiryKept'
  BY <1>16 DEF OpenEdit, ExpiryKept, Loaded
<1>17. CASE Close
  BY <1>17 DEF Close, ExpiryKept, Shape, PageRecords
<1>18. CASE Leave
  BY <1>18 DEF Leave, ExpiryKept, Shape, PageRecords
<1>19. CASE UNCHANGED vars
  BY <1>19 DEF vars, ExpiryKept
<1> QED BY <1>1, <1>2, <1>3, <1>4, <1>5, <1>6, <1>7, <1>8, <1>9, <1>10, <1>11,
   <1>12, <1>13, <1>14, <1>15, <1>16, <1>17, <1>18, <1>19 DEF Next

\* "so the loaded expiry is not recomputed out from under them just by opening the
\* dialog": an untouched guarantee is saved with its own expiry, or one picked.
THEOREM ExpiryLeftAloneHolds == Spec => ExpiryLeftAlone
<1>1. Init => ExpiryKept
  <2>1. ASSUME Init PROVE page.open = (form = "public")
    BY <2>1, Zenon DEF Init
  <2> QED BY <2>1 DEF ExpiryKept
<1>2. Shape /\ ExpiryKept /\ [Next]_vars =>
          [(Sends /\ form = "edit" /\ ~seen.edited) => box.expiry \in {Filed, Typed}]_vars
  BY OnlySubmitSends DEF ExpiryKept, Submit, CanSubmit
<1> QED BY <1>1, <1>2, ShapeHolds, ExpiryKeptNext, PTL DEF Spec, ExpiryLeftAlone

-----------------------------------------------------------------------------
(* The documents.                                                           *)

\* What the form holds in a slot was picked for it and reached it for the entry
\* that is on the form, or comes next if none is; a closed edit dialog may hold
\* what it will not save.
DocumentsHere ==
    /\ upload.under \subseteq 1..Len(upload.picked)
    /\ \A s \in Slots : box.docs[s] # 0 =>
          /\ box.docs[s] \in 1..Len(upload.picked) /\ upload.picked[box.docs[s]] = s
          /\ form # "edit" \/ page.open =>
                 seen.landed[box.docs[s]] = IF page.open THEN page.entry ELSE page.entry + 1

\* Every form is emptied, or filled anew, before the next entry is put on it.
THEOREM DocumentsHereNext == Shape /\ DocumentsHere /\ [Next]_vars => DocumentsHere'
<1> SUFFICES ASSUME Shape, DocumentsHere, [Next]_vars PROVE DocumentsHere'
    OBVIOUS
<1>1. ASSUME NEW c \in Codes \union {None}, TypeCode(c) PROVE DocumentsHere'
  BY <1>1 DEF TypeCode, DocumentsHere, Shape, Boxes, Histories
<1>2. CASE Settle
  <2>1. look' \in Looks
    BY ShapeNext DEF Shape
  <2>2. box'.docs = box.docs
    BY <1>2, <2>1, ProductType, CoveredType, ShownType DEF Settle, Shape
  <2> QED BY <1>2, <2>2 DEF Settle, DocumentsHere
<1>3. ASSUME NEW c \in Codes, Answer(c) PROVE DocumentsHere'
  <2>1. look' \in Looks
    BY ShapeNext DEF Shape
  <2>2. box'.docs = box.docs
    BY <1>3, <2>1, ProductType, CoveredType, ShownType DEF Answer, Shape
  <2> QED BY <1>3, <2>2 DEF Answer, DocumentsHere
<1>4. ASSUME NEW c \in Codes, LookupFails(c) PROVE DocumentsHere'
  BY <1>4 DEF LookupFails, DocumentsHere
<1>5. ASSUME NEW d \in Dates \union {NoDate}, PickDate(d) PROVE DocumentsHere'
  <2> DEFINE b == [box EXCEPT !.purchase = d]
  <2>1. b \in Boxes /\ b.docs = box.docs
    BY DEF Shape, Boxes
  <2>2. box' \in {b, Covered(b, Product(look))}
    BY <1>5 DEF PickDate
  <2> HIDE DEF b
  <2>3. box'.docs = box.docs
    BY <2>1, <2>2, ProductType, CoveredType DEF Shape
  <2> QED BY <1>5, <2>3 DEF PickDate, DocumentsHere, Shape, Histories
<1>6. CASE PickExpiry
  BY <1>6 DEF PickExpiry, DocumentsHere, Shape, Boxes
<1>7. ASSUME NEW s \in Slots, PickFile(s) PROVE DocumentsHere'
  <2>1. Len(upload'.picked) = Len(upload.picked) + 1
        /\ \A f \in 1..Len(upload.picked) : upload'.picked[f] = upload.picked[f]
    BY <1>7 DEF PickFile, Shape, Uploads
  <2>2. box' = box /\ page' = page /\ seen' = seen /\ form' = form
        /\ upload'.under = upload.under \union {Len(upload.picked) + 1}
    BY <1>7 DEF PickFile, Shape, Uploads
  <2>3. Len(upload.picked) \in Nat
    BY DEF Shape, Uploads
  <2> QED BY <2>1, <2>2, <2>3 DEF DocumentsHere
<1>8. ASSUME NEW s \in Slots, RemoveFile(s) PROVE DocumentsHere'
  BY <1>8 DEF RemoveFile, DocumentsHere, Shape, Boxes, Uploads
<1>9. ASSUME NEW f \in Files, Uploaded(f) PROVE DocumentsHere'
  <2>1. /\ f \in upload.under /\ upload'.picked = upload.picked
        /\ upload'.under \subseteq upload.under /\ page' = page /\ form' = form
    BY <1>9 DEF Uploaded, Ended, Shape, Uploads
  <2>2. box'.docs = [box.docs EXCEPT ![upload.picked[f]] = f]
    BY <1>9 DEF Uploaded, Shape, Boxes
  <2>3. seen'.landed = [seen.landed EXCEPT ![f] = IF page.open THEN page.entry ELSE page.entry + 1]
    BY <1>9 DEF Uploaded, Shape, Histories
  <2>4. ASSUME NEW s \in Slots, box'.docs[s] # 0
        PROVE  /\ box'.docs[s] \in 1..Len(upload.picked) /\ upload.picked[box'.docs[s]] = s
               /\ form # "edit" \/ page.open =>
                      seen'.landed[box'.docs[s]] = IF page.open THEN page.entry ELSE page.entry + 1
    <3>1. CASE s = upload.picked[f]
      <4>1. box'.docs[s] = f
        BY <2>2, <3>1 DEF Shape, Boxes
      <4>2. seen'.landed[f] = IF page.open THEN page.entry ELSE page.entry + 1
        BY <2>3 DEF Shape, Histories
      <4> QED BY <2>1, <3>1, <4>1, <4>2 DEF DocumentsHere
    <3>2. CASE s # upload.picked[f]
      <4>1. box'.docs[s] = box.docs[s] /\ box.docs[s] \in Files
        BY <2>2, <2>4, <3>2 DEF Shape, Boxes
      <4>2. upload.picked[box.docs[s]] = s /\ box.docs[s] # f
        BY <2>4, <3>2, <4>1 DEF DocumentsHere
      <4>3. seen'.landed[box.docs[s]] = seen.landed[box.docs[s]]
        BY <2>3, <4>1, <4>2 DEF Shape, Histories
      <4> QED BY <2>4, <4>1, <4>3 DEF DocumentsHere
    <3> QED BY <3>1, <3>2
  <2> QED BY <2>1, <2>4 DEF DocumentsHere
<1>10. ASSUME NEW f \in Files, UploadFails(f) PROVE DocumentsHere'
  BY <1>10 DEF UploadFails, DocumentsHere, Ended, Shape, Uploads
<1>11. CASE Submit
  BY <1>11 DEF Submit, DocumentsHere, Shape, PageRecords
<1>12. CASE Succeed
  <2>1. page'.open = FALSE /\ page'.entry = page.entry
    BY <1>12 DEF Succeed, Shape, PageRecords
  <2>2. upload'.picked = upload.picked /\ upload'.under = upload.under
    BY <1>12 DEF Succeed, Wipe, NoPictures, Shape, Uploads
  <2>3. form' = form /\ seen' = seen /\ (form # "edit" => box' = Blank) /\ (form = "edit" => box' = box)
    BY <1>12 DEF Succeed, Wipe, Shape, Forms
  <2> QED BY <2>1, <2>2, <2>3, BlankBox DEF DocumentsHere
<1>13. CASE SaveFails
  BY <1>13 DEF SaveFails, DocumentsHere, Shape, PageRecords
<1>14. CASE Another
  <2>1. box'.docs = NoFiles /\ upload' = upload
    BY <1>14, BlankBox DEF Another
  <2> QED BY <2>1, BlankBox DEF DocumentsHere
<1>15. CASE OpenNew
  <2>1. page.open = FALSE /\ page'.open = TRUE /\ page'.entry = page.entry + 1
    BY <1>15 DEF OpenNew, Shape, PageRecords
  <2>2. form = "admin" /\ form' = form /\ box' = box /\ upload' = upload /\ seen'.landed = seen.landed
    BY <1>15 DEF OpenNew, Untouched, Shape, Histories
  <2> QED BY <2>1, <2>2 DEF DocumentsHere
<1>16. ASSUME NEW r \in Rows, OpenEdit(r) PROVE DocumentsHere'
  <2>1. box'.docs = NoFiles /\ upload' = upload
    BY <1>16, LoadedBox DEF OpenEdit
  <2> QED BY <2>1, BlankBox DEF DocumentsHere
<1>17. CASE Close
  <2>1. page'.open = FALSE /\ page'.entry = page.entry
    BY <1>17 DEF Close, Shape, PageRecords
  <2>2. upload'.picked = upload.picked /\ upload'.under = upload.under
    BY <1>17 DEF Close, Wipe, NoPictures, Shape, Uploads
  <2>3. form' = form /\ seen' = seen /\ (form # "edit" => box' = Blank) /\ (form = "edit" => box' = box)
    BY <1>17 DEF Close, Wipe, Shape, Forms
  <2> QED BY <2>1, <2>2, <2>3, BlankBox DEF DocumentsHere
<1>18. CASE Leave
  <2>1. box'.docs = NoFiles /\ upload'.under = {}
    BY <1>18, BlankBox DEF Leave, Shape, Uploads
  <2> QED BY <2>1, BlankBox DEF DocumentsHere
<1>19. CASE UNCHANGED vars
  BY <1>19 DEF vars, DocumentsHere
<1> QED BY <1>1, <1>2, <1>3, <1>4, <1>5, <1>6, <1>7, <1>8, <1>9, <1>10, <1>11,
   <1>12, <1>13, <1>14, <1>15, <1>16, <1>17, <1>18, <1>19 DEF Next

\* A document is saved in the slot it was picked for, with the entry that was on
\* the form when it came, or the next one if it came to a closed form.
THEOREM DocumentsOfThisEntryHolds == Spec => DocumentsOfThisEntry
<1>1. Init => DocumentsHere
  BY BlankBox DEF Init, DocumentsHere
<1>2. Shape /\ DocumentsHere /\ [Next]_vars =>
          [ Sends => \A s \in Slots :
                box.docs[s] # 0 => /\ upload.picked[box.docs[s]] = s
                                   /\ seen.landed[box.docs[s]] = page.entry ]_vars
  BY OnlySubmitSends DEF DocumentsHere, Submit, CanSubmit
<1> QED BY <1>1, <1>2, ShapeHolds, DocumentsHereNext, PTL DEF Spec, DocumentsOfThisEntry

-----------------------------------------------------------------------------
(* The cover.                                                               *)

\* As long as no look-up has been crossed by another, only the code that is looked
\* up has been asked for, and what is shown is its product.
MatchOfCode ==
    form # "edit" /\ ~look.crossed =>
        /\ \A c \in Codes : look.asked[c] # 0 => c = look.settled
        /\ look.match # None => look.settled \in Codes /\ look.match = ProductOf[look.settled]

\* An expiry the form has worked out is the cover of the product it shows, from the
\* purchase date it shows; the public form works none out, nor does the edit form
\* before it has been touched.
CoverOfProduct ==
    box.expiry.by = "cover" =>
        /\ form # "public" /\ (form = "edit" => touched)
        /\ box.purchase # NoDate /\ Product(look) # None =>
               box.expiry = Cover(Product(look), box.purchase)

\* A new code drops the match of the one before.
THEOREM MatchOfCodeNext == Shape /\ MatchOfCode /\ [Next]_vars => MatchOfCode'
<1> SUFFICES ASSUME Shape, MatchOfCode, [Next]_vars PROVE MatchOfCode'
    OBVIOUS
<1>1. ASSUME NEW c \in Codes \union {None}, TypeCode(c) PROVE MatchOfCode'
  BY <1>1 DEF TypeCode, MatchOfCode
<1>2. CASE Settle
  <2>1. look' = [Ask(look, box.code) EXCEPT !.settled = box.code, !.match = None,
                                            !.crossed = Asking(look)]
    BY <1>2 DEF Settle, SettledOn
  <2>2. Ask(look, box.code) \in Looks /\ box.code \in Codes \union {None}
    BY AskedType DEF Ask, Shape, Boxes
  <2>3. look'.settled = box.code /\ look'.match = None /\ look'.crossed = Asking(look)
        /\ look'.asked = Ask(look, box.code).asked
    BY <2>1, <2>2 DEF Looks
  <2>4. \A c \in Codes : c # box.code => Ask(look, box.code).asked[c] = look.asked[c]
    BY <2>2 DEF Ask, Shape, Looks
  <2>5. ~look'.crossed => \A c \in Codes : look.asked[c] = 0
    BY <2>3 DEF Asking
  <2>6. ~look'.crossed => \A c \in Codes : look'.asked[c] # 0 => c = look'.settled
    BY <2>3, <2>4, <2>5
  <2> QED BY <2>3, <2>6 DEF MatchOfCode
<1>3. ASSUME NEW c \in Codes, Answer(c) PROVE MatchOfCode'
  <2>1. /\ look'.settled = look.settled /\ look'.crossed = look.crossed
        /\ look'.match = ProductOf[c] /\ look.asked[c] # 0
        /\ \A k \in Codes : look'.asked[k] # 0 => look.asked[k] # 0
    BY <1>3 DEF Answer, Answered, Shape, Looks
  <2> QED BY <1>3, <2>1 DEF Answer, MatchOfCode
<1>4. ASSUME NEW c \in Codes, LookupFails(c) PROVE MatchOfCode'
  <2>1. /\ look'.settled = look.settled /\ look'.crossed = look.crossed
        /\ look'.match = None
        /\ \A k \in Codes : look'.asked[k] # 0 => look.asked[k] # 0
    BY <1>4 DEF LookupFails, Shape, Looks
  <2> QED BY <1>4, <2>1 DEF LookupFails, MatchOfCode
<1>5. ASSUME NEW d \in Dates \union {NoDate}, PickDate(d) PROVE MatchOfCode'
  BY <1>5 DEF PickDate, MatchOfCode
<1>6. CASE PickExpiry
  BY <1>6 DEF PickExpiry, MatchOfCode
<1>7. ASSUME NEW s \in Slots, PickFile(s) PROVE MatchOfCode'
  BY <1>7 DEF PickFile, MatchOfCode
<1>8. ASSUME NEW s \in Slots, RemoveFile(s) PROVE MatchOfCode'
  BY <1>8 DEF RemoveFile, MatchOfCode
<1>9. ASSUME NEW f \in Files, Uploaded(f) PROVE MatchOfCode'
  BY <1>9 DEF Uploaded, MatchOfCode
<1>10. ASSUME NEW f \in Files, UploadFails(f) PROVE MatchOfCode'
  BY <1>10 DEF UploadFails, MatchOfCode
<1>11. CASE Submit
  BY <1>11 DEF Submit, MatchOfCode
<1>12. CASE Succeed
  <2>1. look' = look \/ look' = [look EXCEPT !.match = None]
    BY <1>12 DEF Succeed, Wipe
  <2> QED BY <1>12, <2>1 DEF Succeed, MatchOfCode, Shape, Looks
<1>13. CASE SaveFails
  BY <1>13 DEF SaveFails, MatchOfCode
<1>14. CASE Another
  BY <1>14 DEF Another, MatchOfCode, Shape, Looks
<1>15. CASE OpenNew
  BY <1>15 DEF OpenNew, MatchOfCode
<1>16. ASSUME NEW r \in Rows, OpenEdit(r) PROVE MatchOfCode'
  BY <1>16 DEF OpenEdit, MatchOfCode
<1>17. CASE Close
  <2>1. look' = look \/ look' = [look EXCEPT !.match = None]
    BY <1>17 DEF Close, Wipe
  <2> QED BY <1>17, <2>1 DEF Close, MatchOfCode, Shape, Looks
<1>18. CASE Leave
  <2>1. form # "edit" => look' = NoLook
    BY <1>18 DEF Leave
  <2> QED BY <1>18, <2>1 DEF Leave, MatchOfCode, NoLook
<1>19. CASE UNCHANGED vars
  BY <1>19 DEF vars, MatchOfCode
<1> QED BY <1>1, <1>2, <1>3, <1>4, <1>5, <1>6, <1>7, <1>8, <1>9, <1>10, <1>11,
   <1>12, <1>13, <1>14, <1>15, <1>16, <1>17, <1>18, <1>19 DEF Next

\* The expiry is worked out again with every product and every purchase date.
THEOREM CoverOfProductNext == Shape /\ CoverOfProduct /\ [Next]_vars => CoverOfProduct'
<1> SUFFICES ASSUME Shape, CoverOfProduct, [Next]_vars PROVE CoverOfProduct'
    OBVIOUS
<1>1. ASSUME NEW c \in Codes \union {None}, TypeCode(c) PROVE CoverOfProduct'
  <2>1. /\ box'.purchase = box.purchase /\ look' = look /\ form' = form
        /\ box'.expiry = box.expiry
    BY <1>1 DEF TypeCode, Shape, Boxes
  <2>2. touched => touched'
    BY <1>1 DEF TypeCode
  <2>3. Product(look)' = Product(look)
    BY <2>1 DEF Product
  <2> QED BY <1>1, <2>1, <2>2, <2>3 DEF TypeCode, CoverOfProduct, Typed
<1>2. CASE Settle
  <2>1. look' \in Looks /\ form' = form /\ touched' = touched
    BY <1>2, ShapeNext DEF Shape, Settle
  <2>2. Product(look') \in Products \union {None} /\ Product(look)' = Product(look')
    BY <2>1, ProductType DEF Product
  <2>3. box' = Shown(box, look, look') /\ (form # "edit" => Product(look) = look.match)
    BY <1>2 DEF Settle, Product
  <2>4. CASE form = "public"
    BY <2>1, <2>2, <2>3, <2>4 DEF CoverOfProduct, Shown
  <2>5. CASE form = "admin" \/ (form = "edit" /\ touched /\ Product(look') # Product(look))
    <3>1. box' = Covered(box, Product(look'))
      BY <2>3, <2>5 DEF Shown
    <3> QED BY <2>1, <2>2, <2>5, <3>1, CoveredType DEF CoverOfProduct, Shape
  <2>6. CASE form = "edit" /\ ~(touched /\ Product(look') # Product(look))
    <3>1. box' = box
      BY <2>3, <2>6 DEF Shown
    <3> QED BY <2>1, <2>2, <2>6, <3>1 DEF CoverOfProduct
  <2> QED BY <2>4, <2>5, <2>6 DEF Shape, Forms
<1>3. ASSUME NEW c \in Codes, Answer(c) PROVE CoverOfProduct'
  <2>1. look' \in Looks /\ form' = form /\ touched' = touched
    BY <1>3, ShapeNext DEF Shape, Answer
  <2>2. Product(look') \in Products \union {None} /\ Product(look)' = Product(look')
    BY <2>1, ProductType DEF Product
  <2>3. box' = Shown(box, look, look') /\ (form # "edit" => Product(look) = look.match)
    BY <1>3 DEF Answer, Product
  <2>4. CASE form = "public"
    BY <2>1, <2>2, <2>3, <2>4 DEF CoverOfProduct, Shown
  <2>5. CASE form = "admin" \/ (form = "edit" /\ touched /\ Product(look') # Product(look))
    <3>1. box' = Covered(box, Product(look'))
      BY <2>3, <2>5 DEF Shown
    <3> QED BY <2>1, <2>2, <2>5, <3>1, CoveredType DEF CoverOfProduct, Shape
  <2>6. CASE form = "edit" /\ ~(touched /\ Product(look') # Product(look))
    <3>1. box' = box
      BY <2>3, <2>6 DEF Shown
    <3> QED BY <2>1, <2>2, <2>6, <3>1 DEF CoverOfProduct
  <2> QED BY <2>4, <2>5, <2>6 DEF Shape, Forms
<1>4. ASSUME NEW c \in Codes, LookupFails(c) PROVE CoverOfProduct'
  <2>1. /\ look'.settled = look.settled /\ look'.cached = look.cached /\ look'.match = None
        /\ UNCHANGED <<form, box, touched>>
    BY <1>4 DEF LookupFails, Shape, Looks
  <2>2. Product(look)' \in {Product(look), None}
    BY <2>1 DEF Product
  <2> QED BY <2>1, <2>2 DEF CoverOfProduct
<1>5. ASSUME NEW d \in Dates \union {NoDate}, PickDate(d) PROVE CoverOfProduct'
  <2> DEFINE b == [box EXCEPT !.purchase = d]
  <2>1. b \in Boxes /\ b.expiry = box.expiry
    BY DEF Shape, Boxes
  <2>2. /\ form' = form /\ look' = look
        /\ form = "public" => box' = b
        /\ form # "public" => box' = Covered(b, Product(look))
    BY <1>5 DEF PickDate
  <2>3. form = "edit" => touched'
    BY <1>5 DEF PickDate
  <2> HIDE DEF b
  <2>4. Product(look)' = Product(look) /\ Product(look) \in Products \union {None}
    BY <2>2, ProductType DEF Product, Shape
  <2> QED BY <2>1, <2>2, <2>3, <2>4, CoveredType DEF CoverOfProduct, Shape
<1>6. CASE PickExpiry
  <2>1. /\ box'.purchase = box.purchase /\ look' = look /\ form' = form
        /\ box'.expiry = Typed
    BY <1>6 DEF PickExpiry, Shape, Boxes
  <2>2. touched => touched'
    BY <1>6 DEF PickExpiry
  <2>3. Product(look)' = Product(look)
    BY <2>1 DEF Product
  <2> QED BY <1>6, <2>1, <2>2, <2>3 DEF PickExpiry, CoverOfProduct, Typed
<1>7. ASSUME NEW s \in Slots, PickFile(s) PROVE CoverOfProduct'
  BY <1>7 DEF PickFile, CoverOfProduct, Product
<1>8. ASSUME NEW s \in Slots, RemoveFile(s) PROVE CoverOfProduct'
  <2>1. /\ box'.purchase = box.purchase /\ look' = look /\ form' = form
        /\ box'.expiry = box.expiry
    BY <1>8 DEF RemoveFile, Shape, Boxes
  <2>2. touched => touched'
    BY <1>8 DEF RemoveFile
  <2>3. Product(look)' = Product(look)
    BY <2>1 DEF Product
  <2> QED BY <1>8, <2>1, <2>2, <2>3 DEF RemoveFile, CoverOfProduct, Typed
<1>9. ASSUME NEW f \in Files, Uploaded(f) PROVE CoverOfProduct'
  <2>1. /\ box'.purchase = box.purchase /\ look' = look /\ form' = form
        /\ box'.expiry = box.expiry
    BY <1>9 DEF Uploaded, Shape, Boxes
  <2>2. touched => touched'
    BY <1>9 DEF Uploaded
  <2>3. Product(look)' = Product(look)
    BY <2>1 DEF Product
  <2> QED BY <1>9, <2>1, <2>2, <2>3 DEF Uploaded, CoverOfProduct, Typed
<1>10. ASSUME NEW f \in Files, UploadFails(f) PROVE CoverOfProduct'
  BY <1>10 DEF UploadFails, CoverOfProduct, Product
<1>11. CASE Submit
  BY <1>11 DEF Submit, CoverOfProduct, Product
<1>12. CASE Succeed
  <2>1. CASE form = "edit"
    BY <1>12, <2>1 DEF Succeed, CoverOfProduct, Product
  <2>2. CASE form # "edit"
    BY <1>12, <2>2, BlankBox DEF Succeed, Wipe, CoverOfProduct, NoCover,
       Shape, Forms
  <2> QED BY <2>1, <2>2
<1>13. CASE SaveFails
  BY <1>13 DEF SaveFails, CoverOfProduct, Product
<1>14. CASE Another
  BY <1>14, BlankBox DEF Another, CoverOfProduct, NoCover
<1>15. CASE OpenNew
  BY <1>15 DEF OpenNew, CoverOfProduct, Product
<1>16. ASSUME NEW r \in Rows, OpenEdit(r) PROVE CoverOfProduct'
  BY <1>16, LoadedBox DEF OpenEdit, CoverOfProduct, Filed
<1>17. CASE Close
  <2>1. CASE form = "edit"
    BY <1>17, <2>1 DEF Close, CoverOfProduct, Product
  <2>2. CASE form # "edit"
    BY <1>17, <2>2, BlankBox DEF Close, Wipe, CoverOfProduct, NoCover, Shape,
       Forms
  <2> QED BY <2>1, <2>2
<1>18. CASE Leave
  BY <1>18, BlankBox DEF Leave, CoverOfProduct, NoCover
<1>19. CASE UNCHANGED vars
  BY <1>19 DEF vars, CoverOfProduct, Product
<1> QED BY <1>1, <1>2, <1>3, <1>4, <1>5, <1>6, <1>7, <1>8, <1>9, <1>10, <1>11,
   <1>12, <1>13, <1>14, <1>15, <1>16, <1>17, <1>18, <1>19 DEF Next

\* "The cover period follows the product and the purchase date": saved half a
\* second after the last typing, and after look-ups none of which crossed.
THEOREM CoverFollowsCodeHolds == Spec => CoverFollowsCode
<1>1. Init => MatchOfCode /\ CoverOfProduct
  BY BlankBox DEF Init, MatchOfCode, CoverOfProduct, NoLook, NoCover
<1>2. Shape /\ MatchOfCode /\ CoverOfProduct /\ [Next]_vars =>
          [ (Sends /\ look.settled = box.code /\ ~look.crossed /\ Product(look) # None) =>
                /\ Product(look) = ProductOf[box.code]
                /\ (box.expiry.by = "cover" /\ box.purchase # NoDate) =>
                        box.expiry = Cover(Product(look), box.purchase) ]_vars
  <2>1. ASSUME Shape, MatchOfCode, ~look.crossed, Product(look) # None
        PROVE  Product(look) = ProductOf[look.settled]
    BY <2>1 DEF MatchOfCode, Product
  <2> QED BY <2>1 DEF CoverOfProduct
<1> QED BY <1>1, <1>2, ShapeHolds, MatchOfCodeNext, CoverOfProductNext, PTL
        DEF Spec, CoverFollowsCode
=============================================================================
