# Guarantee management system: TLA+ models

A service for registering product guarantees and following the repairs done
under them. Customers register a guarantee with the code on the product, staff
approve it, technicians file repair reports and request parts, and send the
replaced parts back to be paid for; the office surveys customers by text
message. The server is a Go program (Gin, GORM, PostgreSQL); a React client,
command-line tools and a desktop launcher sit around it.

Two things make the system hard, and the models are about them.

- **On the server every HTTP request runs in its own goroutine under READ
  COMMITTED**, and most handlers follow one shape: read a row, check its status,
  change the struct, `Save` the whole row, with no transaction around it and no
  version column. Two such handlers that interleave overwrite each other. The
  server keeps no business state in memory but a cache of SMS patterns.
- **In the browser every answer comes late.** Lists are cached for five minutes,
  dialogs outlive the row they were opened for, look-ups and uploads are never
  withdrawn, and two kinds of account share one place for their tokens. What a
  person sees, what was asked for and what is sent drift apart.

## Inventory

| Part of the server (under `src/backend/internal`) | State | Operations | Talks to | Model |
| --- | --- | --- | --- | --- |
| `modules/partshipments` | `part_shipments`, items | create, cancel, receive, invoice, pay, reject, delete | repairs | `PartShipments` |
| `modules/repairs` | `repairs`, component and service lines | file, review, cancel, delete (forced or not) | guarantees, part requests, shipments | `PartShipments`, `RepairParts` |
| `modules/partrequests` | `component_requests`, lines | create, change status, cancel, delete | guarantees, repairs | `RepairParts` |
| `modules/guarantees` | `guarantees`, `customers` | register, re-apply, create, update, approve, renew, cancel, golden, delete | customers, products, SMS | `Guarantees` |
| `modules/polls` | polls, questions, recipients, answers | build audience, send in batches, offers, answer, close, update, delete | guarantees, SMS | `Polls` |
| `modules/auth`, `technicians`, `middleware`, `shared/utils/jwt` | accounts; tokens are not stored | sign in, refuse; register, review, edit, delete | tokens carry roles | `Session` (sign-in only) |
| `modules/trash` | `deleted_at` of eleven tables | restore | all of the above | with each table |
| `modules/customers`, `products`, `categories`, `repaircatalog` | catalogue rows | create, edit, delete when unused | each other, guarantees | none |
| `modules/smstemplates`, `shared/sms` | `sms_templates` and a cache | edit, reload, resolve | every notifier | none |
| `shared/warrantycode` | none | decode a code | products | none |
| `modules/pipeline`, `dashboard`, `audit`, `settings` | views, a log, one settings row | read, append, save | all of the above | none |

| Part of the client (under `src/frontend/src`) | State | Operations | Talks to | Model |
| --- | --- | --- | --- | --- |
| sign-in and routes: `api/axios.ts`, the two auth contexts, `routes` | `localStorage`, a default header, two providers | sign in and out, load profiles, redirect, sign requests, give up on 401 | `auth`, `technicians` | `Session` |
| screens and the query cache: every page's `useQuery` and `useMutation` | React Query's cache | ask, poll, invalidate, retry | every list of the server | `Screens`, `ScreenCache` |
| list pages and their dialogs: fourteen pages | selected row, dialog, typed text | pick from a menu, confirm, dismiss, force | every operation of the server | `ListPages`, `Desk` |
| reports from delivered parts: `DeliveredPartsCard`, `NewRepairDialog` | ticks, look-up, lines | tick, write a report, look a guarantee up, send | part requests, repairs | `RepairParts` |
| guarantee forms: `PublicRegisterPage`, `AdminGuaranteeForm`, `GuaranteeEditDialog` | boxes, look-ups, uploads | type a code, pick dates and documents, save | guarantees, products, storage | `GuaranteeForms` |
| polls: `PollDetailPage`, `PublicPollPage` | buttons by status, an answer sheet | build, send, close, answer | polls | `Polls` |

What makes each part correct:

- *Shipments*: a part is in one live parcel; money moves forward once; the
  amount is the sum of the lines; no parcel holds parts of a deleted repair.
- *Requests and repairs*: a part is fitted only after it was delivered to that
  technician, and once; the technician's page comes to offer what was delivered
  and stops offering what was used.
- *Guarantees*: a customer who was told "approved" or "renewed" keeps it; the
  cover only gets longer; a rejected application is reopened only by its own
  customer; badge and list agree.
- *Polls*: one text per customer and poll, which the code does not keep; answers are whole and from one
  submission; a closed poll stays closed; questions do not change under answers.
- *Sessions*: what a page sends is signed by the account it shows; a session
  that has ended leaves the portal.
- *Screens*: what this browser wrote shows on its screens; what is polled
  catches up with everyone.
- *List pages*: what is sent is what was picked, for the row it was picked for,
  with that row's notes, by force only after a warning, and is something the
  server takes.
- *Forms*: the cover saved is that of the code's product; documents do not stay
  from one entry to the next; an expiry date that came with a guarantee is not
  recomputed while nobody edits its code or purchase date.

The hazards behind these, each with the line where it bites, are in
`PROJECT.json`.

## How the code is modelled

- **A handler is split where it leaves the database.** What it read travels in
  a record (`req[r]`, `call[h]`) until it is saved; other requests run in
  between. The statements of one transaction that only write are one step:
  nobody sees them before the commit. `CreateByTechnician` of the shipments,
  which reads inside its transaction under READ COMMITTED, is split statement by
  statement, and the row locks of `SELECT ... FOR UPDATE` are part of its first
  step.
- **`Save` writes the row that was read**, every column. GORM first updates
  `WHERE id = ? AND deleted_at IS NULL`; when that touches no row it inserts
  with `ON CONFLICT DO UPDATE`, so a save that lost a race with a delete brings
  the row back. This is GORM 1.25.10's behaviour, the version in `go.mod`; the
  library is not in the repository and the operator is marked external.
- **A refusal changes nothing on the server**, so there only accepting paths are
  actions. `Abandon` and `Stop` end a request at any point: a later check
  refuses it, the database fails, the client is gone or the server restarts; its
  transaction is rolled back. In the browser a refusal is an action: it closes
  dialogs, empties forms, ends sessions.
- **An answer is an action of its own**, whatever the page shows by then. It may
  come late, out of order or not at all.
- **Data is reduced to what a property tells apart.** A timestamp is "set or
  not", a note is the row it was typed for, a document is a number, prices are
  the naturals in `Prices`, dates are small numbers, an answer of the cache is
  the set of writes it misses.
- **`Serves` gives a run its workload**: which operations each request slot may
  be. Two slots produce every race between two handlers.

## Modules and runs

Each model has one or more `.cfg` files and, where its constants need definitions,
an `MC` module for them. A run passes unless it says otherwise. Definitions whose comment
starts with "Mutant" are not part of a model: they are the plausible slips each
property is known to notice.

### Part shipments: `PartShipments`, `PartLedger`

`PartShipments` is `internal/modules/partshipments` with the handlers of
`repairs` and `trash` that change what a parcel may hold. `shipments` and
`items` are the tables, `repairs` the status and `deleted_at` of the reports,
`req` the requests in flight, and `payouts` a history variable that counts
recorded payments.

| Action | Code |
| --- | --- |
| `LockParts`, `VerifyOwnStandingRepairs`, `VerifyNotHeld`, `InsertShipment` | `CreateByTechnician` |
| `FindShipment`, then `SaveWithdrawal` | `CancelByTechnician`, `Reject` |
| `FindShipment`, `LoadItems`, `SaveReceipt` or `SaveInvoice` | `Receive`, `Invoice` |
| `FindShipment`, `SavePayment` | `Pay` |
| `DeleteShipment`, `RestoreShipment` | `Delete`, the bin's `Restore` |
| `FindRepair`, `SaveRepair` | `Review`, `Cancel` of a repair |
| `CheckShippedParts`, `DeleteRepair`, `RestoreRepair` | `Delete` of a repair, `Restore` |

`PartLedger` says what all this promises, without rows or requests: a part is
in the hands of at most one parcel, and a parcel moves sent, received,
invoiced, paid, or becomes void and lets its parts go. `LedgerSpec` maps
`PartShipments` to it: the holder of a part is the live parcel that holds it, a
cancelled, rejected or deleted parcel is void.

| Run | Question it answers |
| --- | --- |
| `PartShipmentsRaces` | any two requests, restores included: does a row still carry what its status says (`MoneyTrail`)? |
| `PartShipmentsSenders` | two senders and one desk that handles parcels and reviews and deletes the report: held once, paid once, forward only, the total is the sum, and is it all the ledger's (`LedgerSpec`)? |

Shipment ids are interchangeable and declared symmetric, and so are the two slots
that serve the same. Prices `{0, 1}` give lines without value and totals of 1 and
2; two parts, of one report, are enough for a line that did not arrive next to one
that did. In `PartShipmentsSenders` no two requests work on one parcel that exists
(`OneDesk`) and nothing comes back from the bin: what happens outside is listed
under "What the models show". `InvoiceTotalIsSum` speaks of the time before a
report is deleted: the comment of `Delete` accepts that lines go and the amount
stays. `LedgerSpec` holds although a parcel filed while its report is being deleted
keeps a line of a deleted report; that such a line needs this race is a theorem,
`NoOrphanLinesHolds`.

### Guarantees: `Guarantees`, `CoverCard`

`Guarantees` is `internal/modules/guarantees`. `rows` is the table, `today` the
server's clock, `req` the requests in flight, and `told` a history variable:
the expiry date in the last text the customer got.

| Action | Code |
| --- | --- |
| `FindCodeFree`, `InsertApplication` | `PublicRegister` of a new code |
| `FindRefused`, `Reapply` | `PublicRegister` of a refused one, `reapplyRejected` |
| `Create`, `CreateByAdmin` | the same names: one INSERT decides |
| `FindGuarantee`, then `SaveEdit`, `SaveCancellation`, `SaveGolden`, `SaveNoGolden` | `Update`, `Cancel`, `SetGolden`, `RemoveGolden` |
| `FindGuarantee`, `SaveDecision` or `SaveRenewal`, `Notify` | `Approve`, `Renew`, which read the row again before they text |
| `Delete`, `Restore` | `Delete`, the bin's `Restore` |
| `DayPasses` | `time.Now` |

Dates are numbers of one unit; a length of cover is added to them. A code is
printed on one product (`ProductOf`) or generated and on none. `CodeFree` is
the unique index over the codes of live rows. Customers are given: the rows that
registration finds or creates are not modelled.

`CoverCard` is what a guarantee promises its holder: it waits for a decision;
once it covers the product the cover only gets longer, until it is cancelled for
good. The refinement reads the card off the row, deleted or not.

The run `Guarantees` has one desk and, beside it, an office that enters
guarantees: does the row keep the card (`CardSpec`), do badge and list agree
(`TabsAgree`), does what the customer was told stand (`ToldStands`), does the cover
only grow (`CoverGrows`), is only a refusal reopened (`ReopensRefused`), do status,
approval and dates belong together (`ReviewTrail`)? It has one guarantee, two
printed codes of two products, a generated code, two customers and the days 0 to 2,
so that every comparison of dates comes out both ways: one product is covered for
two days and golden for one, the other for one day and never golden. With one
guarantee nobody else holds its code, so `CodeFree` refuses nothing in the run; no
property compares two guarantees, and the theorems are for any number. Two requests
on one guarantee that exists are outside `OneDesk`, and so outside the run.
The badge (`Tier`) and the list's tabs (`InTab`) are two
computations of one thing, in Go and in SQL; they differ for a golden period yet
to begin, which the list counts as golden already, and `TabsAgree` leaves that
case open.

### Delivered parts and the reports that use them: `RepairParts`

The technician's page and the office's handlers in one model, because the
interesting states need both: the page offers from a list up to a minute old
what the server will check against rows that have moved. `request` and `report`
are the tables, `tab` is `DeliveredPartsCard` and `NewRepairDialog` with the
list they share, `call` the handlers between their read and their save, and
`back` a history variable: the reports that stand again after letting their
parts go.

| Action | Code |
| --- | --- |
| `Refetch` | the shared query, asked again every minute and whenever a page or dialog opens |
| `Tick`, `WriteReport` | the card's check boxes and its button, with the hand-over to the dialog |
| `OpenBlank`, `TypeCode`, `PressCheck`, `LookedUp`, `ChangeGuarantee` | the dialog's code box, its look-up and "Change" |
| `AddPart`, `RemovePart`, `Submit`, `CloseDialog` | the list of parts, `onSubmit`, `handleOpenChange` |
| `CheckReport`, `InsertReport` | `CreateByTechnician` of a repair with `requireDeliveredParts` |
| `HearFiled`, `MissFiled` | `onSuccess`, `onError` of the submission once the report is filed |
| `CreateRequest`, `ReadRequest`, `SaveRequest`, `DeleteRequest`, `RestoreRequest` | `CreateByTechnician`, `UpdateStatus`, `CancelByTechnician`, `Delete` of a part request, the bin's `Restore` |
| `OfficeReport`, `ReadReport`, `SaveReport`, `DeleteReport`, `RestoreReport` | the office's `Create`, `Review`, `Cancel`, `Delete` of a repair, the bin's `Restore` |

The run `RepairParts` checks that a part is fitted once (`FittedOnce`; a report
that was rejected or deleted and came back is the exception the bin makes), that
every line of a standing report is delivered and its technician's
(`DeliveredBacksReport`), and two liveness properties of the page: what was used
leaves the card (`SpentLeavesCard`) and what was delivered reaches it
(`DeliveredIsOffered`). Bounds: one request, two reports of which one is
reviewed, deleted and restored, one guarantee, one tab, one line per report, the
office's handler next to the filing one, so neither two filings nor two changes of
a request are under way at once (`OneFiler`, `OneDesk`). A submission that the check
refuses or that breaks off before the insert ends in `CheckReport`. Two reports are what it takes to fit a
part twice, one tab to ask for both. `MaxParts` bounds the lines added one by one;
the lines filled in from the card are as many as were ticked, as in the code.

### The query cache under the screens: `Screens`, `ScreenCache`

`Screens` is data: for each of the client's screens the queries it reads, the
dialogs that read more, and for each mutation the tables the server writes and
the keys `onSuccess` invalidates. `Tables` names the kinds the bin can restore and
the accounts; the row of the audit log, which the server writes off the request's
path, is taken as written with the operation. `Gaps` computes where a screen does not drop a
query of its own. `ScreenCache` runs any one of those queries under the screens
that read it or write what it shows; screens that look alike to the query are one.
An answer is the set of writes it misses, marked by what the browser knows of
them.

| Action | Code |
| --- | --- |
| `Go`, `OpenDialog`, `CloseDialog` | navigation and dialogs: mounting a query asks if it is stale |
| `Refresh`, `Poll`, `Serve`, `Receive`, `FetchFails`, `GrowsOld` | React Query with the options of `lib/query-client.ts`: stale after five minutes, one retry, `refetchInterval` where a page sets it |
| `Press`, `Commit`, `Refuse`, `LoseAnswer`, `Succeed` | a mutation and what becomes of its answer |
| `OtherWrites` | other people |

The run `ScreenCache` checks that a screen at rest shows what this browser knows
it wrote (`OwnWriteShows`) and comes to show it (`OwnWriteArrives`), and that
the polled lists catch up with everything (`PolledCatchesUp`). `LeftToAge`
in `Screens` names the gaps the code has: eight pairs of operation and query whose old answer
stays up to five minutes. Bounds: two writes; one query at a time is no loss,
since the cache treats them one by one.

### List pages and their dialogs: `ListPages`, `Desk`

`ListPages` is data again: for each of the fourteen list pages its row menu with
the statuses that show an item, what the server takes, which dialog stands
behind an item, what the dialog remembers when dismissed, and how the page keeps
its selected row. `Desk` is what the pages have in common, run on each of them.

| Action | Code |
| --- | --- |
| `Menu`, `View`, `Add` | a row's menu, its detail view, the button for a new entry |
| `Box` | `window.confirm`, which answers at once |
| `Type`, `Dismiss`, `Confirm` | typing into, leaving and confirming a dialog, with force where it has turned |
| `Decide`, `Succeed`, `Fail`, `Lose` | the server's decision, and `onSuccess`, `onError` or no answer |
| `Refresh`, `Elsewhere` | the list is asked for again; other people move the rows |

The run `Desk` checks `SendsWhatWasAsked`, `NotesStayWithRow`,
`RefusedOnlyIfMoved` and `ForcedAfterWarning` on all fourteen pages with two
rows, two confirmations and one move by others; two rows are what it takes to
confuse one with another, two confirmations to have one answered under the
other's dialog. The user is done with the page
after the last confirmation (`AtDesk`), while the operations sent are still
decided, answered or lost: what is opened or typed later is sent with nothing.
`Astray` and `KeepsText` in `ListPages` name the dialogs for which the first two
do not hold (see below). One of them breaks a promise made in words: the run
**`CancelsAnother` expects a violation** of `CancelsWhatItNames`. The browser's box
asks "Are you sure you want to cancel {{code}} for {{customer}}?"
(`locales/en.json:134`), and the guarantee cancelled is the one selected before:
look at one guarantee, close it, cancel another from its row, and the first is
cancelled.

### Surveys: `Polls`

One poll from draft to close. `call` holds the office's handlers between two
statements, `desk` the status its page shows, `page` the browsers a customer's
link is open in; `texts`, `again`, `orphaned` and `filed` are history. `MaxTexts`
bounds how far `texts` counts, 0 where no property is about it.

| Action | Code |
| --- | --- |
| `BuildAudience`, `InsertRecipients` | `BuildAudience` |
| `Send`, `Text`, `Note` or `FailToNote`, `FinishSend` | `Send`: choose the batch, then text and note one by one (the note's error is ignored), then the status |
| `Stop` | the process ends, or the connection is cut, in the middle of any of these |
| `Update`, `Close`, `SaveRow` | `Update`, with new questions if the page takes the poll for a draft, `Close` |
| `Delete`, `Remove`, `Restore` | `Delete`, the bin's `Restore` |
| `Reload` | the page's queries |
| `GetPublic`, `Submit`, `InsertAnswers` | `GetPublic`; `Submit`'s checks, then its transaction |
| `Hear`, `GiveUp` | `onSuccess`, `onError` of the customer's page once the answers are filed |

The run `Polls` checks `TextsWaiting` (whoever a batch texts still waits then,
unless a second batch has the same person), `AnsweredOnce`, `AnswersComplete` and
`ClosedStays` (what had begun before the poll was closed may still reopen it), with
two customers, one of whom has the link open in two browsers, two editions of one
required question, batches of one and two handlers, the second of which only sends.

Two runs expect a violation. **`AnswersOrphaned`**: the comment above the guard in
`Update` says the questions are rewritten only while nobody has been invited, and
they can be rewritten while the first batch is on its way. **`TextedTwice`**: the
schema says "One invitation per customer per poll" (`027_add_polls.up.sql:98`), and
people are texted twice: in its trace two batches started together read the same
waiting person. With one handler the run fails as well: the `UPDATE`
that notes a text fails and its error is ignored (`polls/service.go:334`), or the
server stops before it, and the next batch texts again. Customers, not answers, are
what `InvitedOnce` is about, so the run has one browser.

### Who is signed in: `Session`

Two tabs of one browser. `store` is `localStorage`, `owner` and `expired` the
tokens the server has given out, `tab` what each tab shows and has asked for, and
`shared` a history variable: somebody signed in while somebody else was.

| Action | Code |
| --- | --- |
| `Open`, `Follow` | a page loads: both providers ask for a profile; the link between the sign-in pages |
| `Login`, `Logout` | `LoginPage`, `TechnicianLoginPage`, both providers' `logout` |
| `Send`, `Poll` | the request interceptor and `currentToken`: a page asks, saves the staff's profile (which is then read again) or changes a password; the layout's poll |
| `Succeed`, `Fail`, `Unauthorized` | an answer, an error, and a 401 under the response interceptor |
| `Expire` | time |

The run `Session` checks `SentAsShown` (as long as people sign out before others
sign in) and the liveness property `EndedLeaves`. Two tabs, one account of each
kind, two sign-ins, two requests under way.

### Guarantee forms: `GuaranteeForms`

The public registration page, the office's dialog for a new guarantee and the one
that corrects a guarantee. `box` is what the boxes hold, `look` the code being
looked up and what came of it, `upload` the documents, `touched` the edit form's
`touchedRef`; `seen` is history.

| Action | Code |
| --- | --- |
| `TypeCode`, `Settle`, `Answer`, `LookupFails` | the code box, `useDebounce`, the look-up |
| `PickDate`, `PickExpiry` | the date pickers and `applyPeriod` |
| `PickFile`, `RemoveFile`, `Uploaded`, `UploadFails` | the upload boxes |
| `Submit`, `Succeed`, `SaveFails` | saving |
| `Another`, `OpenNew`, `OpenEdit`, `Close`, `Leave` | what is on the form next |

The run `GuaranteeForms` checks `CoverFollowsCode` (but for look-ups that crossed and
saves within the debounce), `DocumentsOfThisEntry` (a document answered after its
entry was closed counts as the next one's, so that this lateness is *not* noticed)
and `ExpiryLeftAlone` (once the code or the purchase date is edited, and on the
office's new form always, a look-up does overwrite an expiry date picked by hand) on
each of the three forms with two codes of two products, two
guarantees to correct, two entries, two typings and two documents: enough for an
answer to one entry, code or document to meet the next.

## Bounds, deadlock and fairness

Ids are finite: an insert takes an unused one and the system stops growing when
none is left. A state in which every id is used and every row final is a normal
end, and so is a browser nobody touches, so deadlock is not checked. Every other
bound is a constant with "bound" in its comment.

Nothing *must* happen on a server that waits for requests, and nobody is bound
to press a button. Fairness is stated only for what runs by itself:

- `RepairParts`: the page asks for the delivered parts every minute
  (`refetchInterval`), so `WF(Refetch)`; a look-up is answered or fails,
  `WF(LookUp)`.
- `ScreenCache`: the polled queries ask again every minute, `WF(Poll)`; a request
  that reached the server is answered, `WF(Serve)`; of the answers sent again and
  again one arrives, `SF(Receive)`: a network may lose any one of them, not all.
- `Session`: the layout polls while the portal is on screen, `WF(Poll)`, and of
  its requests one is answered, `SF(Answered)`.

None of these is about a person, and no strong fairness is given to anything a
lost answer can end for good.

## Proofs

Eight modules hold proofs for every value of the constants, from the named
assumption on the constants of each model (`ConstantsAssumption`,
`RepairConstants`, `CacheConstants`, `DeskConstants`, `PollConstants`,
`SessionConstants`, `FormConstants`: types, distinctness and that parts and
requests are finitely many, evaluated by TLC on each run) and, where a theorem
says so, a condition on the workload. Every invariant, action property and
refinement that a passing run checks is a theorem, and so is `NoOrphanLines`. `PROJECT.json` lists them.

**`PartShipmentsProofs`.** *Any interleaving: `TypeCorrect`, `MoneyTrailHolds`.*
`MoneyTrail` is not inductive: a `Save` writes a row some request read long ago.
`IInv` therefore says of every snapshot in flight what it says of the table: it
is a row with the fields its status needs, and its status is one the operation
may start from. Each save then turns one consistent row into another, whatever
the table holds by then. *One desk: `HeldOnceHolds`, `ForwardOnlyHolds`,
`PaidOnceHolds`.* `OneDesk` says that at most one slot changes parcels and that
none restores; any number of others may file parcels or work on repairs. `HInv`
adds that operations stay with their slots (`Served`), that the desk's snapshot
is still the row (`Fresh`), that senders in flight hold disjoint parts
(`Disjoint`) and that the parts a sender has verified are still free
(`FreeParts`), which is the point of the row locks. *One slot files parcels and
deletes reports (`OneFilesOrDeletes`), all others do anything else:
`NoOrphanLinesHolds`.* `FInv` adds that the reports behind a checked parcel are
still there and that a deletion has counted every line (`InFiling`); every step
but these two lets lines and deletions only wane (`WaningKeepsFInv`). *One desk,
no deletion of reports (`KeepsReports`): `InvoiceTotalIsSumHolds`.* `RInv` adds to
`HInv` that the lines a request has loaded are still the lines of the parcel
(`LoadedFresh`) and that no snapshot is of a deleted parcel (`LiveSnapshots`);
`SumInv` adds the total itself. The sum is folded over a set, and the induction
theorems cannot be instantiated by these provers: `SumExists` argues by a smallest
set without a sum instead. *One slot handles parcels, deletes them and deletes
reports, and none restores a parcel (`OneHandler`): `LedgerHolds`*, the refinement
of `PartLedger`. `LedgerStep` takes the actions one by one: filing gives free parts
to one parcel, saving a row moves one parcel on, what ends a parcel lets its parts
go, and everything else stutters.

**`GuaranteesProofs`.** *Any interleaving: `TypeCorrect`, `ReviewTrailHolds`,
`TabsAgreeHolds`*, with the same device: an edit keeps the record of the review
because it can only have read a pending row, a renewal because it read an
approved one. *One desk: `ToldStandsHolds`, `CoverGrowsHolds`,
`ReopensRefusedHolds`, `CardSpecHolds`.* Here `OneDesk` says that one slot works
on guarantees that exist and any number of others enter new ones. `HInv` adds
`Served`, `Fresh` and `ToldStands` itself: the message is sent after the save, so
the invariant has to know that nothing came in between. `NextSteps` shows that
each step changes at most one row, only in the ways `Changes` lists; the action
properties and the refinement of `CoverCard` follow from that list alone.

**`RepairPartsProofs`.** *Any interleaving: `TypeCorrect`.* `Shape` (rows, tabs and
calls have their fields) comes first, with `RowsAsRead` (a review under way still
has the parts and the technician of its report) and `TabsApart` (no tab has two
submissions past their check). `TypeOK` needs two things more: a submission waits
in its tab until its handler answers (`SubmissionsWait`, because of `TabsApart`),
and the ticked lines can be listed, each once (`ListingOfTicked`). The attempt
showed that `MaxParts` does not bound a list that was filled in: `PartLists`
allows as many lines as there are requests. *Reports filed one after the other (`OneFiler`):
`FittedOnceHolds`.* The invariant `Fitted` adds `CheckedStill`: the lines of a
submission that has passed its check are free, but for reports that came back.
`HeldGrowsBack` is the one fact about every other step: a line only passes to a
report that came back. *Requests moved on one after the other (`OneDesk`), any
number of filers: `DeliveredBacksReportHolds`.* The invariant `Deliveries` says
that lines sent and lines filed are settled, and that what is about to be saved
over a request was read while it was open; no transition leaves Delivered, so
settled lines stay settled.

**`ScreenCacheProofs`.** *For every query and any number of writes: `TypeCorrect`,
`OwnWriteShowsHolds`.* What a screen promises of a query its mutation drops: that
is a fact about the tables of `Screens`, proved screen by screen (`AllDropOwn`).
`Kept` is the strengthening: an answer that misses a write this browser knows of
is marked invalid, and no answer on its way misses one. `OnlyGapsLeft`: what
`LeftToAge` excuses is a gap the tables have, nothing more.

**`DeskProofs`.** *For any rows and any number of confirmations, both kinds of
account, all fourteen pages: `TypeCorrect`, `SendsWhatWasAskedHolds`,
`NotesStayWithRowHolds`, `RefusedOnlyIfMovedHolds`, `ForcedAfterWarningHolds`.*
`PagesOK` says once of each page's table what the rest needs (`PageOK`): an item is
offered only where the server takes the operation, operations lead forward in one
order of statuses (`Rank`), and what a dialog keeps or confuses is in `KeepsText`
or `Astray`. From there on no step looks at a particular page. `Orderly` joins the
types (`Shape`) with what an open dialog is about (`Opened`), what has been typed
(`Notes`), what was sent (`AllAskedFor`) and that each key is sent once
(`OneByOne`). `Forewarned` adds that a deletion dialog has turned to force only
for a row a refusal came back about. `Forward` is for the refusals: lists and
questions show a row as it is or was (`ShownEarlier`, `AskedEarlier`), and since
no step takes a row back (`NextOnward`) a row that differs from what was shown has
moved.

**`PollsProofs`.** *Any interleaving: `TypeCorrect`, `TextsWaitingHolds`,
`AnsweredOnceHolds`, `AnswersCompleteHolds`, `ClosedStaysHolds`.* `Shape` joins
the rows, the calls in flight and the browsers; `Sheets` adds to
`AnswersComplete` that where something must be answered whoever filed counts as
having answered, from one browser unless an edit came between (`FiledOnce`): the
unique index refuses the rest; `Waiting` says that whoever no two batches have had
at once is in one queue at most, and waits as long as in it. That a person is texted
once is not a theorem, because it is false.

**`SessionProofs`.** *`TypeCorrect`, `SentAsShownHolds`.* `Shape` types the tabs
and says which kind of account each kept token belongs to. `OneSession` is the
strengthening: while nobody has signed in over somebody else, everything that is
kept, shown, loading or asked for belongs to one account.

**`GuaranteeFormsProofs`.** *`CoverFollowsCodeHolds`, `DocumentsOfThisEntryHolds`,
`ExpiryLeftAloneHolds`.* The properties are about the moment of saving; the
invariants say what the boxes hold at any moment: `ExpiryKept`, `DocumentsHere`,
`MatchOfCode` (an uncrossed look-up's match is of the settled code) and
`CoverOfProduct`.

Checked by TLC only: liveness, which the prover cannot do (`SpentLeavesCard`,
`DeliveredIsOffered`, `PolledCatchesUp`, `OwnWriteArrives`, `EndedLeaves`), and the
disagreements `AnswersStand`, `InvitedOnce` and `CancelsWhatItNames`, which are
counterexamples.

## What the models show about the code

`AnswersOrphaned`, `TextedTwice` and `CancelsAnother` are the disagreements kept
as runs. The others below were met while modelling; each is either excused by
name in the property it would break or left out of the workload of a run, as
said.

On the server, two handlers in flight:

- a withdrawal against a receipt leaves a final status; two clerks who both read
  Invoiced both record a payment (`partshipments/service.go:225`, `549`). Outside
  `OneDesk`;
- a parcel filed while its repair is being deleted holds a deleted repair's part
  (`repairs/service.go:452`). Outside `OneFilesOrDeletes`;
- an edit that read a pending guarantee brings it back to pending after the
  customer was told "approved"; two renewals can shorten a cover; a
  re-application sent twice around an approval reopens it
  (`guarantees/service.go:282`, `447`, `844`). Outside `OneDesk`; the edit of a
  technician against a review has the same shape (`technicians/service.go:178`);
- two reports filed at the same instant can fit one part
  (`repairs/service.go:264`). Outside `OneFiler`;
- a withdrawal saved over a delivery takes the delivery back
  (`partrequests/service.go:379`). Outside `OneDesk` of `RepairPartsProofs`;
- a batch still sending when a poll is closed reopens it
  (`polls/service.go:350`). Left out by `ClosedStays`.

On the server, one request after another:

- delete a parcel, send its part again, restore the parcel: the part is in two
  live parcels (`trash.go:208`); a restored report brings its parts back in the
  same way (`back`);
- an explicit expiry date may end the cover inside the golden period, and an edit
  may name a product the code does not (`guarantees/service.go:254`);
- one report may name a delivered line twice: each line is compared with the
  reports on file and not with the other lines (`repairs/service.go:203`);
- reviewed by one kind of account and moved on by the other, a row would carry
  both reviewers, and the CHECK of migration 018 refuses the save: the row is
  stuck (`ReviewerFits`, `Takes`);
- a text the provider refused is noted as Failed and never sent again; without a
  required question two submissions through one link are both accepted.

In the browser:

- the reject item opens a dialog that says Approved in a field nobody can change
  (`ApproveDialog.tsx:47`, `113`) and approves, though it says "Confirm the rejection
  of this guarantee. This will mark it as rejected." (`locales/extra.en.json:151`);
  the button for a new entry opens a form that still edits a dismissed row
  (categories, products, customers, technicians, catalogue). In `Astray`;
- notes typed for one row are there for the next in the dialogs of
  `KeepsText`;
- technical accounts are offered Delete on three pages and always refused, though
  the hook that hides such buttons exists so that they are not shown
  (`usePermissions.ts:9`). Excused by name in `RefusedOnlyIfMoved`, which is proved
  for both kinds of account; the run has an administrator at the desk;
- a wrong current password is answered with 401, and the interceptor signs the
  person out before the page can say so (`SettingsPage.tsx:118`, `axios.ts:38`);
- a tab goes on with the header of its own sign-in after another tab signed out,
  until the token expires; signing out does not clear the query cache
  (`AuthContext.tsx:50`);
- crossed look-ups, or a save within half a second of the last typing, send
  another product's expiry date; an edit saved before its code has settled uses
  the product of the guarantee edited before. `CoverFollowsCode` names both;
- one busy flag serves two uploads, so a form can be saved without its second
  document; a document removed while it is being uploaded is sent all the same;
  one that arrives after the office's dialog was closed is saved, unseen, with
  the next new guarantee; a late success closes and empties the reopened dialog;
- "Change" in the report dialog keeps the lines listed for the guarantee before
  (`NewRepairDialog.tsx:248`);
- the search box of the repairs page changes the key of the list and is not sent
  (`RepairsPage.tsx:68`).

## Not modelled

- **Customers, products, categories, the repair catalogue**: plain rows; their
  races (two customers with one national id, a count before a deletion, two
  products with one prefix, restores that do not compare prefixes) have the shape
  of `repairs/service.go:452`, which is modelled.
- **Accounts**: creating, reviewing, changing and deleting them, and with it the
  rule that one administrator remains (`auth/service.go:183`, `195`).
- **SMS patterns**: which pattern a text uses decides nothing the models tell
  apart. **Warranty codes**: a decoder of characters, covered by table tests.
- **Quantities, labour, notes, catalogue entries** of requests and reports; the
  follow-up **offers** of polls, whose columns nothing else reads; the editor of
  questions; the customer's details on the forms; the checks of a form's fields.
- **Reads** (lists, counts, search, exports, dashboards, the pipeline view), the
  **audit log**, **settings**, file storage, formatting, the calendars, the
  command-line tools and the launcher keep no state the properties are about.

`PROJECT.json` lists every part with its reason. What would be worth adding
next: the catalogue tables with the bin (delete when unused, restore on its
own), accounts with the last administrator, and the composition of `Session` with
`ScreenCache` (one account's cached lists under the next account).
