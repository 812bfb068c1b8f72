# Compass Tools CRM: specifications and proofs

Compass Tools is a multi-tenant travel-agency CRM: a Next.js application whose
server actions, API routes and cron routes run as short serverless functions over
one PostgreSQL database (Prisma). There is no long-lived process: every piece of
state is a row, every handler is an invocation that may run beside any other and
may be killed between two statements, and background work happens only because a
browser polls or a cron URL is called. Correctness therefore lives in conditional
updates, row locks, unique indexes and the order of statements, and that is what
these modules model.

All paths below are relative to the repository's `src/`; `lead-queue.ts` without a
path is `src/server/actions/lead-queue.ts`.

## Inventory

| Component (source) | State | Hard behaviour | Module | Checked by | Proved in |
|---|---|---|---|---|---|
| Lead queue (`lead-queue.ts`) | offer columns of `Lead`, `LeadQueueEntry`, `Contact.ownerId` | distributions on stale candidate lists, expiry racing accept, a join racing a removal | `LeadQueue`, promise in `LeadOffer` | `lead_queue`, `lead_queue_live`, a finding | `LeadQueue_proofs` |
| Lead backlog scan (`distributePendingWebsiteLeads`) | waiting leads in order | one tenant's stranded leads in front of another's | `LeadBacklog` | `lead_queue_live` | - |
| Polling tabs, offer sound (`lib/use-shared-poll.ts`, `lib/lead-offer-alert.ts`) | a Web Lock, broadcasts, a claim in storage | thefts and grants heard late, tabs closing | `SharedPoll`, `OfferAlert` | `lead_queue`, `lead_queue_live` | `LeadQueue_proofs` |
| Quote lifecycle and bookings (`quote-status.ts`, `quotes.ts`, `booking.ts`, `bookings.ts`) | status, snapshot, booking, send claims | writes by id after a check, mail between claim and status | `QuoteLifecycle` | `quote_signing`, two findings | `QuoteLifecycle_proofs` |
| Exchange and cancellation (`exchange.ts`, `cancellation.ts`) | proposals, requests | both start from CHARGED; check, then write | `QuoteChanges` | `quote_changes`, a finding | `QuoteChanges_proofs` |
| Lead intake (`lead-intake.ts`, `contact-resolution.ts`) | leads, contacts | repeats, races to insert, removals | `LeadIntake` | `records` | `Records_proofs` |
| Reassignment (`contact-reassignment.ts`, `leads.ts`) | owners, trail, notices | two managers at once, deaths between move and record | `Handover` | `records` | `Office_proofs` |
| Contact channels (`contacts.ts`) | phones and their mirror | no handler is a transaction | `ContactChannels` | `records` | `Office_proofs` |
| Accounts and teams (`accounts.ts`) | role, status, manager, grants | administrators removing each other | `Accounts` | `records` | `Office_proofs` |
| Sessions (`establish-session.ts`, `session-admin.ts`) | one token per account | sign-in in two halves, disabling meanwhile | `Sessions` | `records` | `Office_proofs` |
| First administrator (`initial-admin-bootstrap.ts`) | first account and company | a rollback that may not roll back | `InitialAdmin` | `records` | `Office_proofs` |
| Card vault (`card-key-rotation.ts`, `card-retention.ts`, `contact-payment-methods.ts`, `booking-cvv.ts`) | encrypted numbers and codes, keys | rotation beside edits, retiring a key | `CardVault` | `records` | `Records_proofs` |
| Attachments (`lead-attachments.ts`, `attachments/cleanup.ts`) | rows and stored objects | two stores, no shared transaction | `Attachments` | `records` | `Records_proofs` |
| Sequences (`sequences.ts`) | enrolments | leases that lapse, steps edited under way | `SequenceMail` | `outbound`, `outbound_live` | `Outbound_proofs` |
| Campaigns, subscribers (`marketing-campaigns.ts`, `subscribers.ts`) | deliveries, subscribers | overlapping batches, unsubscribing meanwhile | `CampaignMail` | `outbound`, `outbound_live` | `Outbound_proofs` |
| Tasks (`tasks.ts`) | due dates, reminder marks | overlapping cron runs | `TaskReminders` | `outbound`, `outbound_live` | `Outbound_proofs` |
| Website inquiries (`public-inquiry.ts`, `admin-notifications.ts`) | inquiries, notifications | duplicate forms, catch-up | `Inquiries` | `outbound`, `outbound_live` | `Outbound_proofs` |
| System health (`health-events.ts`) | incident, throttle | several instances and builds | `HealthIncidents` | `outbound`, `outbound_live` | `Outbound_proofs` |
| Staff mail (`booking-notification.ts` and others) | claims, Gmail connections | lost answers, revoked grants | `StaffMail` | `outbound` | `Outbound_proofs` |
| Visibility (`visibility.ts` and the lists) | roles, teams, owners | filters that override each other | `Visibility` | `desk` | `Readings_proofs` |
| Pay periods, reports (`lib/pay-period.ts`, `commissions.ts`) | sales, moments | daylight saving, reports of several queries, saves that cross | `PayPeriods`, `SalesReports` | `desk` | `Readings_proofs` |
| Itinerary parser (`lib/parsers/`) | none | years and arrival days left out | `GdsItinerary` | `desk` | - |
| Quote and exchange builders | a form | answers after edits | `QuoteForm` | `desk` | `Desk_proofs` |
| Customer's booking form (`booking-flow.tsx`, `booking.ts`) | tabs, requests, booking | lost answers, repeats | `BookingForm` | `desk` | `Desk_proofs` |
| Ticketing form | forms over one row | stale forms | `TicketingForm` | `desk` | `Desk_proofs` |
| Bulk import | a table, its review | the table edited under review | `BulkImport` | `desk` | `Desk_proofs` |
| Lead page (`leads.ts`), new-lead dialog | tabs, moves of the lead, lookups | answers out of order, a booking between a read and a write | `LeadDesk`, `NewLeadDialog` | `desk` | `Desk_proofs` |
| Users page (teams, grants) | tabs of administrators | stale state sent back | `AccountEditor` | `desk` | `Desk_proofs` |
| Rate limits, remaining pages, templates, reference data | - | - | not modelled | - | - |

Interactions: intake creates the leads the queue distributes; queue, intake and
reassignment all set owners; `leads.ts` and `accounts.ts` write the rows the queue
reads, which `LeadQueue` has as moves of its own; a signed quote moves its lead to
BOOKED and creates the booking whose ticketing status moves the quote again
(`QuoteLifecycle`); exchanges and cancellations replace that quote's status
(`QuoteChanges` extends `QuoteLifecycle`, on the same quotes and invocations).

## How the modules are put together

One action is one database statement, one transaction whose statements nothing can
come between, one call of an external service, or one event in a browser.
PostgreSQL's READ COMMITTED default is modelled as it is: each statement sees what is
committed when it runs, a conditional `updateMany` checks and writes in one step, a
row lock lasts until its transaction ends. Serializable transactions
(`accounts.ts`, the first administrator) read, and commit unless another committed
since. A function may be killed between any two statements where the code can be.

Components that share no state are checked in one run with a `focus`: a variable
chosen in the initial state says which component moves, the others stand in one
state. The graph is the union of the components' graphs and not their product, and a
property of the run is the conjunction of its components' properties. Where a
component by itself is too large for minutes, its focus is cut into parts that allow
some of its moves each, and that together allow all of them (`MCRecords`: "repeats"
and "intake", "leads" and "contacts", "admins", "teams" and "grants", "numbers" and
"codes"; the same in `MCOutbound`, `MCLeadQueue` and `MCDesk`). What such a part
leaves out is named in the MC module, beside the part. The theorems below have none
of these limits: they are about the components' own specifications, for all moves
and any values of the constants.

| MC module | Components | Runs |
|---|---|---|
| `MCLeadQueue` | queue ("race", "office", "waiting"), backlog, tabs, alerts | `lead_queue`, `lead_queue_live`, `removed_offered` |
| `MCQuoteLifecycle` | quotes ("signing", "ticketing") | `quote_signing`, `quote_backward`, `quote_price` |
| `MCQuoteChanges` | quotes with exchanges and cancellations | `quote_changes`, `quote_superseded` |
| `MCOutbound` | sequences, campaigns, tasks, inquiries, health, staff mail | `outbound`, `outbound_live` |
| `MCRecords` | intake, reassignment, phones, accounts, sessions, first account, vault, documents | `records` |
| `MCDesk` | lists, calendar, reports, itineraries, and the forms | `desk` |

## Lead queue

`LeadQueue.tla` is the queue, statement by statement. Each `p \in Procs` is one
invocation of a handler; `pc[p]` names its next statement and `target`, `who`,
`at`, `cand`, ... are its local variables.

| Handler | Actions |
|---|---|
| `joinLeadQueue`, `leaveLeadQueue` | `JoinLeadQueue` (session and role), `TurnOnQueueRow` (the upsert); `LeaveLeadQueue` |
| `distributeNewWebsiteLead`, one lead of `distributePendingWebsiteLeads` | `StartDistribute`, then the offer |
| `offerLeadToNextWorker` | `BeginOffer` (the time and the candidate list, which no other statement separates to any effect), `LockCandidate` / `SkipLockedCandidate` (`FOR UPDATE SKIP LOCKED`), `CheckCandidate`, `PlaceOffer` / `AlreadyAssigned`, `NobodyAvailable` (with the retry) |
| `acceptLeadOffer` | `StartAccept`, `AcceptLeadOffer` / `OfferNoLongerAvailable`, `ClaimContact`, `RecordServed` |
| `skipLeadOffer`, `sweepExpiredOffers`, `releaseOfferAndAdvance` | `StartSkip`, `SweepExpiredOffer`, `ReleaseOffer` / `OfferAlreadyResolved`, `PauseWorker`, then the offer |
| `setAccountStatus`, `setAccountsVisibility`, `updateAccount` | `SetAccount` |
| `reassignLead`, `updateLeadField` | `ReassignLead`, `UnassignLead` |
| the platform | `Crash` (a killed function or transaction), `Tick` |

`now` is read at the start of a handler, as in the code, and may be old by the time
it is compared. The candidate list is not cut (`LIMIT 25`), so with more than 25 free
workers one pass of the model may look at more of them than one of the code.

`LeadOffer.tla` is the promise: leads, workers and a clock, no invocations. An offer goes
to a colleague who is free, for a lead nobody owns or is deciding on; only its holder
accepts it. `ImplementsPromise` is the refinement, and
both a run and a theorem show it.

`LeadBacklog.tla` is the scan over many waiting leads, where what the queue does for
one lead is one step: the batch, its order, and the companies given up once nobody
of theirs is free. `SharedPoll.tla` is the one poller per browser: tabs compete for
a Web Lock, a tab that comes into view steals it, and grants and thefts are heard
some time after they happened. `OfferAlert.tla` is the sound of an offer: a Web Lock
that one tab wins, a browser that refuses or delays sound before a gesture.

### Runs

`lead_queue`: in "race" two leads of one contact, two workers, two invocations, offers
that lapse while accepts are under way; in "office" one lead while the office pauses,
removes, re-roles, restores, reassigns and unassigns, and functions die; two tabs
("tabs"); two windows and two offers ("alerts"). `lead_queue_live` is the smallest
instance on which offers, scans and tabs can be starved. Two of each thing are enough
for the races: every property speaks of at most two leads, workers or invocations, and
the proofs cover any number. A window of 1 and a clock of two instants let an offer
be placed, lapse, be taken over and be accepted late.

* `OffersAreSound` is `OneLiveOffer`, `AssignedHasNoOffer`, `OfferedWithinCompany` and
  `LocksAreHeldByTransactions`.
* `AcceptedLeadHasOwnedContact`: a lead accepted through the queue has an owned contact
  once its accept is past the claim of the contact, whatever managers and accounts do
  meanwhile. Only a function that dies between the two claims (`orphaned`) leaves it
  without, and nothing repairs that.
* `OffersReachActiveWorkers`: an offer lands on nobody who paused, left or was removed
  after the candidate list was read. The exception, a worker whose join crossed the
  removal (`Reinstated`), is what the run `removed_offered` shows of the docs' unconditional
  `RemovedGetNoOffer`.
* `OneTabLeads`, `OlderDataNeedsOverlap`, `OneSoundPerOffer`: of the tabs. Once two polls have
  overlapped, older data is excused for good; and the claim of a sound is a
  Web Lock: the fallback to localStorage in browsers without one is left out.
* `LapsedOfferIsResolved`, `WaitingLeadIsServed`, `WaitingLeadIsReached`, `TabsCatchUp`:
  liveness.

Fairness: an invocation that has started runs on (weak fairness of its steps; a
waiting update gets its row lock, PostgreSQL queues waiters, hence strong fairness of
`PauseWorker`); some browser keeps polling, and each poll sweeps every lapsed offer and
scans the waiting leads, so each lead is reached again and again (strong fairness of
`SweepExpiredOffer` and `StartDistribute` on one invocation `p1`); scan 1 is repeated;
the browser tells tabs of grants and thefts and delivers messages, timers fire and
polls return. Nothing is assumed of accept, skip, join or leave. The liveness run has
no killed functions: with them a poll can die every time.

### Proofs

For every set of workers, leads, contacts and invocations, every window and every
clock bound, from `ConstantsAssumption` alone, `LeadQueue_proofs` proves `TypeCorrect`,
the four parts of `OffersAreSound`, `OffersReachActiveWorkers`, `ImplementsPromise` and
`AcceptedLeadHasOwnedContact`, which needs beside `IInv` that the invocation that won a lead
is still on its way to the contact, or dead.

`OneLiveOffer` is not inductive: an offer may be written long after its worker was
found free. `IInv` adds what makes it so: the writer still holds the row lock it
took before it looked (`CandidateIsLocked`), hence nobody else can have written an
offer for that worker and what it saw still holds (`CandidateIsFree`); that no
lock is held by an invocation outside its transaction
(`LocksAreHeldByTransactions`); that candidates stay colleagues of the lead
(`CandidatesAreColleagues`); that removal pauses, unless a join crossed it
(`RemovedIsPaused`). The proof
separates `PlaceOffer`, the only step that writes an offer, from all others, which
keep an offer or clear it (`OnlyPlaceOfferOffers`); the refinement follows from
what the writer of an offer knows (`WriterKnows`).

The second half of `LeadQueue_proofs` proves the three properties of the tabs for any number of tabs, windows
and offers. `AlertInv` says who may still sound what: a sound is somebody's claim, and
what waits past its offer's time hangs in the browser. `TabsInv` is `LockInv`, what a tab has
yet to hear of the lock it held or waits for (its tenures alternate, nobody closed
says anything, every open tab is in line), and `PollInv`, which orders what is
shown, sent and asked for by age until two polls have overlapped.

## Quote lifecycle

`QuoteLifecycle.tla` takes a quote from its draft (`Init` is what `createQuote`
leaves) to CHARGED, with the booking and the lead it moves, in the style of
`LeadQueue`: `pc[p]` is the next statement of invocation `p`, `target[p]` its quote,
and `to`, `seen`, `since`, `from` are what it asked for or read earlier. Prices are
versions: what matters is whether the customer, the snapshot and the booking speak
of the same one. `MCQuoteLifecycle.tla` states what is to hold, beside its instances.

| Handler | Actions |
|---|---|
| `writeQuoteStatus`, `transitionQuoteStatus` (`quote-status.ts`) | `ReadStatus`, `WriteStatus`, `QuoteVanished` |
| `trackQuoteView`, `trackViewDealClicked`, `cancelQuote` | `CustomerOpens`, `CustomerViews`, `CancelQuote`, then the transition |
| `updateQuotePricing` | `UpdateQuotePricing` |
| `sendQuote` | `StartSend`, `ClaimSend` / `DuplicateSend`, `FreezeSnapshot` / `QuoteChangedWhileSending`, `MailQuote` / `MailFails` / `ReplyLost`, the transition, `ReadLead`, `AdvanceLead`; `ReleaseSend` on every way out without a mail, which may fail (`ReleaseFails`) |
| `submitBooking` (`booking.ts`) | `StartSign`, `SignQuote` / `SigningRefused` |
| `updateBookingTicketing`, `reconcileQuoteStatus` | `StartTicketing`, `LockBooking` / `BookingVanished`, `SaveTicketing` |
| `deleteDraftQuote`, `deleteQuote`, `deleteBooking` | `StartDeleteDraft` and `DeleteDraftQuote`; `DeleteQuote`; `DeleteBooking` |
| the platform | `Crash`, `Tick` |

`submitBooking`'s transaction is one action: its first statement is the conditional
update of the quote, which holds the quote's row until the commit, and its later
statements touch rows only it can reach. `updateBookingTicketing`'s is two, since
between its `FOR UPDATE` of the booking and its update of the quote anybody may
write the quote. `writeQuoteStatus` is two everywhere: a read, and an update that
names the quote by id alone. `ClaimSend` is one step for the insert of a claim and the
conditional renewal of an old one, each of which is one statement that decides; the code
keeps a claim per quote and address, and the model sends to one address.

### Runs

| Run | Instance | Shows |
|---|---|---|
| `quote_signing` | one quote, two prices, clock 0..2, window 1; "signing": three invocations, everything but ticketing and deletion; "ticketing": two invocations, everything. Mails fail, answers are lost, claims cannot be deleted, invocations die | `NothingUnsentIsSigned`, `ChargedIsPriced`, `SignedOnce`, `QuoteFollowsBooking`, `FailedSendIsReleased` |
| `quote_backward`, `quote_price` | the smallest instance each | two findings below |

No statement of these handlers touches two quotes, except through the lead, and
every property speaks of one quote. Two invocations are what most races here need; a
second signature takes three, the two signers and the late READ that makes a signed
quote bookable again. The proofs cover any number of quotes and invocations. Two
prices distinguish "the one that was read" from "another one"; three instants with a
window of one let a claim be placed, lapse and be renewed. Deadlock is not checked:
once the quote is charged, canceled or deleted and the clock stands at `MaxTime`,
nothing is left to do.

Two of them name their causes, which history variables of the run record.
`QuoteFollowsBooking`: a ticketed or confirmed booking has a quote that is at least as
far, unless a status was once written backward (`slipped`): the late READ, VIEWED or SENT of
`quote_backward` may land between the transaction's read and its commit, when the code has
decided from the earlier read that nothing need be written. `FailedSendIsReleased`: a claim
is held for a mail that went out, or by an invocation that will mail or give it back,
unless that invocation died or could not delete the row (`abandoned`), which leaves the
claim to its window of thirty seconds (`quote-send-rules.ts`, `quotes.ts` 514-520).

### Proofs

For every set of quotes, leads and invocations, every window and bound, from
`QuoteAssumption` alone, `QuoteLifecycle_proofs` proves `TypeCorrect` (which says more
than types: a booking has its total and its signer and never outlives its quote, and
a booking row is locked exactly by the invocation that is saving it),
`NothingUnsentIsSigned`, `ChargedIsPriced` and `SignedOnce`.

Neither of the first two safety properties is inductive. An invocation about to write
READ or SENT, or to sign, acts on a read that may be arbitrarily old; `IInv` adds what
it still knows (`Knows(p)`): the quote it is about to move has been mailed with a
frozen price, and the price it will charge is still the stored one, because by then
the quote has left DRAFT and pricing is closed, even if the quote has since been
canceled or deleted. `BookedIsNoDraft` carries the same fact past the signature.
`QuoteFollowsBooking` and `FailedSendIsReleased`, which rest on the history of the run, are
only model-checked.

## Exchange and cancellation

`QuoteChanges.tla` extends `QuoteLifecycle`: the same quotes, invocations and
bookings, with `original`, `current` and `successor` for the versions of an exchange,
`request` and `requestFor` for cancellation requests, and `about[p]`, the second row
an invocation works on. Its initial states have charged quotes, and rows that
exchanges may create (`Proposals`, "deleted" until then). `OrdinaryStep` is any step
of the handlers of `QuoteLifecycle`: an approved proposal is an ordinary quote to
`sendQuote`, the tracking links and `submitBooking`, and that is where the two
workflows meet.

| Handler | Actions |
|---|---|
| `sendExchangeForApproval`, first proposal | `StartExchange`, `ProposeExchange` / `ExchangeRefused` (the unique index) |
| the same, a revision | `StartRevision`, `ReviseExchange` / `RevisionRefused` |
| `approveExchange`, `disapproveExchange` | `StartReview`, `ApproveExchange`, `DisapproveExchange`, `ReviewRefused` |
| `sendCancellationForApproval` | `StartCancellation`, `RequestCancellation` |
| `confirmCancellation`, `disregardCancellation` | `StartConfirmation`, `ConfirmCancellation`; `StartDisregard`, `DisregardCancellation` |
| `sendCancellationForm`, `resendCancellationForm` | `StartForm`, `ClaimForm` / `FormRefused`, `MailForm` / `FormFails`; `ResendForm` |
| `confirmCancellationByCustomer` | `CustomerConfirms`, `SubmitCancellation` |
| `sendCancellationConfirmationEmail` (`bookings.ts`) | `StartFinal`, `ClaimFinal` / `FinalRefused`, `MailFinal` / `FinalFails`, `RevertFinal` |

Each transaction is one action: those with a claim make it their first statement on a
row somebody else could have moved, and the others write each row once, by id, so
that what comes between their statements can as well come before or after.

`quote_changes` has one charged quote, two proposals, one request and two invocations
that may die, with send, open, sign and everything of this module: two proposals are a
chain with one revision, two invocations every pair of racing handlers. It checks
`ProposalsFormOneChain`, `OnlyApprovedReachCustomers` and `NoUnapprovedCancellation`.
Ticketing, cancelQuote and the view link are left out of the run for its size; the
proofs cover them. The clock stands still. `quote_superseded` is the finding below.

For every set of quotes, proposals, requests and invocations, and every choice of
`EnvOps` and `ChangeOps`, from `QuoteAssumption` and `ChangesAssumption`,
`QuoteChanges_proofs` proves `TypeOK`, `OnlyApprovedReachCustomers`,
`NoUnapprovedCancellation` and `ProposalsFormOneChain` of `ChangesSpec`. Nearly every
status here is written by id alone, so none of this follows from the guard of the
write. `IInv` says what an invocation knows when it gets there (`JobReady`): its quote
is an original, or a proposal somebody approved (`Settled`), except while the proposal
is being reviewed; and past the confirmation of a request, that a request for that
quote was confirmed (`Licensed`). Approvals, the original of a proposal and the quote
of a request are never taken back (`Kept`), so what was known at the read is still
true at the write. The two properties about customers follow from `QuoteReady`, the
row's side of the same facts. The chain takes one more induction over `IInv`: the
first proposal stands on the unique index, a revision on the conditional claim of the
version it replaces, and a refusal is never written over, because no invocation is
settled on a refused proposal. What the findings refute is outside of it: a
superseded version may still become SENT.

## What the office keeps

Eight components, each statement by statement under its own concurrent requests,
checked together by the run `records` over `MCRecords` (two requests at a time in each
part, three sign-ins of a first administrator; one or two rows of each kind; at most
one death, failure or lapse where a part has them).

* `LeadIntake`: find or create the contact, insert the lead under the id derived from
  its submission key, repeats, keys another request used, the agent's own form;
  contacts and leads removed in between. `OneContactPerCustomer`,
  `AcceptedRequestIsSaved`.
* `Handover`: a request reads an owner, moves the record if it is still that owner's,
  then reads the record again, records and notifies. `ContactTrailIsOneHistory`, `OnlyWinnersNotify`,
  `GrantedWasHeld`.
* `ContactChannels`: the primary number kept in two places by handlers that are no
  transactions and all end in a repair. `OnePrimaryUnlessCrowded`: two primaries take two requests
  that met, one of which made the second (`crowded`); `SoloEditRepairs`.
* `Accounts`: serializable changes of role, status and team, and grants behind a
  step-up. `AnAdminRemains`, `TeamsMatchRoles`, `RevealNeedsStepUp`.
* `Sessions`: sign-in in two halves, replacement, sign-out, disabling, expiry.
  `EndedIsRecorded`, `RevokedIsOver`, `DisablingEndsSessions`.
* `InitialAdmin`: the bootstrap of an empty deployment, with the driver whose rollback
  its comment does not trust. `OneCompanyOneAdmin`.
* `CardVault`: edits, removals and payments of cards and their codes beside runs that
  rotate, verify and purge, and the operator who deploys and retires keys.
  `RotationKeepsNumbers`, `RemovedStaysPurged`, `DoneCardHasNoCode`,
  `RetiredKeysAreUnused`.
* `Attachments`: announcement, upload, verification, abandonment, sweep and deletion
  over two stores. `ReadyHasBytes`, `NothingIsOrphanedSilently`.

The run's properties join them by what they say: `RacersAgreeOnOne`, `HistoryIsTrue`,
`NothingIsLost`, `WhatEndedStaysEnded`, `OfficeStaysInOrder`, and `RecordsTypeOK`.
The comments beside `IntakeMoves`, `ChannelMoves` and the others in `MCRecords` say
what each part of the run leaves out to stay within minutes.

### Proofs

All six properties are proved of `RecordsSpec`, for any sets of requests, rows, accounts,
keys and files and any bounds, from the assumptions each module names. The parts' own
theorems (`AccountsInOrder`, `SessionsHold`, `BootstrapHolds`, `ChannelsHold`,
`HandoverHolds` in `Office_proofs`, `VaultHolds`, `IntakeHolds` and `AttachmentsHold` in
`Records_proofs`) say the same of each component's own
specification, where no move is left out. `RecordsInv` is the conjunction of their
inductive invariants; `RecordsStepsAreTheirs` shows that a step of the records is a
step of one part and leaves the others alone, so that what each keeps all keep.

None of the properties is inductive by itself; what was to be added is what a request
still knows of rows it read some statements ago:

* `AccountInv`: a transaction that may still commit has read what is there
  (`ReadsStand`), whatever it wants is about an account that exists, and a grant that
  passed its check was standing (`GrantsWereStanding`). Every commit makes all other readers losers, which is
  what Serializable promises, so nothing need be known of them.
  `RequestsAreBounded` and `ChangesEnd` carry the bounds.
* `SessionInv`: a token belongs to one account, and what ended is gone from it
  (`SessionsAreOwned`, `EndedIsGone`).
* `BootstrapInv`: nobody who has been overtaken commits (`NobodyOvertook`), and a company
  without its account belongs to a sign-in still under way (`CompaniesAreOwned`).
* `ChannelInv`: what the step of a repair already knows (`StepsKnow`), that an edit
  running alone is repairing (`AloneRepairs`), and that a contact nobody's requests met on
  has one primary at most (`LoneHasOne`).
* `HandoverInv`: moves, rows and notices are counted. Of every hand-over from one owner
  to another, the rows written and the requests still to write one do not exceed the
  moves (`RowsAreMoves`, with the counting lemmas `TimesOfAppend` and `LeavingCounts`).
* `VaultInv`: a card that a running verification has not met is still to be read, or
  belongs to a request slower than the key it looks for (`VerifiersMissNothing`); a key
  found unused is unused before it goes (`FreedKeysAreUnused`); a removed card is
  closed but for edits past their check (`RemovedAreClosed`); a code outlives the end of a
  payment only until the same request destroys it (`CodesAreAccounted`).
* `IntakeInv`: what a request found or inserted (`InsertsAreSaved`, `MadeLeads`).
* `AttachmentInv`: what was verified was whole (`VerifiedIsWhole`), objects go before
  their rows (`ObjectsGoFirst`), and a deletion knows every key it is to remove
  (`DeletionKnowsAll`).

Proving them changed the models. In `Accounts`, a proof obligation that failed showed that the
model let a team be changed for an account that does not exist, which `accounts.ts`
refuses (264-272, 335-342). Assumptions that only the instances had met are now
named: `NoCard` is no card number, somebody signs in first, a transaction is tried at least once, requests
that move records are finitely many, and a contact starts with the phones up to its
newest.

## What the office sends

`MCOutbound` has six components. A mail is delivered, refused, or delivered with its
answer lost; a claim is a conditional update; leases, windows and bounds are one tick.

* `SequenceMail`: enrolment, due steps by overlapping cron calls and clicks, leases that
  run out under a slow send, both ways out, edits of steps. `HolderIsAlone`,
  `RepeatsNeedALapse`, `OptOutStopsTheRest`, `EnrolmentEnds`.
* `CampaignMail`: one campaign in batches by overlapping clicks, and the subscribers.
  `OneDelivery`, `SentReachedTheLoyal`, `PlaceholderNeedsLateEdit`, `CampaignEnds`.
* `TaskReminders`: tasks and the cron that reads what is due, claims it row by row and
  reminds of the date it read, while dates are moved. `OneReminderPerCycle`,
  `NotifiedMeansTold`, `DueIsReminded`.
* `Inquiries`: the form that screens duplicates, rows written by the other website,
  notification and catch-up. `OneCopyPerWindow`, `NoDuplicateAlerts`,
  `UnreadIsAnnounced`.
* `HealthIncidents`: one check under several instances, one of them of an old build.
  `OneAnnouncementPerWindow`, `RecoveryIsSeen`, `TroubleIsSeen`.
* `StaffMail`: mails sent through the accounts' own mailboxes. `OneMailPerEvent`,
  `IdleClaimWasMailed`, `RevokedIsDead`.

In the live run three evaluations of the health check overlap, one of them by an old
build, so that an evaluation can record what it checked before another resolved the
incident; none of them dies there, and the throttle's windows stay shut.

`outbound` checks safety (`NothingIsSentTwice`, `NothingIsSilentlySkipped`,
`OnlyWantedMailLeaves`, `OutboundTypeOK`) on two invocations of each (three
evaluations of the health check), `outbound_live` the liveness (`WorkEnds`,
`NewsIsSeen`). Each property names its causes: a repeat needs a lease that ran out,
an attempt without certainty, a lost answer or a mail whose record failed; what is skipped
needs an invocation that died between its mark and its mail, or a due date that was moved
while its reminder was being claimed.

Fairness there: invocations run on; the cron, the click or the poll comes again, and
since another may take what it was to claim, strongly (`Begins`, `Claims`); waiting
throttles end; the text lock of a duplicate screen is granted in turn.

Deadlock is not checked in any run: people may stop asking, and the bounds of an
instance end.

### Proofs

The four properties of `outbound` are proved of `OutboundSpec` in `Outbound_proofs`, for
any sets of rows, people, steps, texts and invocations, any windows, leases and bounds,
from the assumptions each module names; `SequencesHold`, `CampaignsHold`,
`RemindersHold`, `InquiriesHold`, `IncidentsHold` and `StaffMailHolds` say the same of
each component's own specification, with every move of it. As with the records,
`OutboundInv` is the conjunction of six inductive invariants and
`OutboundStepsAreTheirs` shows that a step belongs to one of them.

What "twice" may mean is a count, so most of the work is counting what may still
happen beside what has, and showing that no step adds to the sum without its cause:

* `SequenceInv`: for every row and step, the mails sent, the invocations that hold the
  row with the step ahead of them (`Ahead`) and the claim that may still be made for it
  (`Room`) do not exceed one and the lapsed leases (`RepeatsPaid`). A send moves its
  invocation from `Ahead` to the mails, an advance moves the row past the step, a lapse
  pays for the next claim. It needs that an invocation's plan has each step at its
  number (`PlansAgree`), which holds because steps are numbered without gaps
  (`StepsNumbered`, by counting a listing in `ListingNumbered`) until one is deleted. Once
  the sequence is deleted nothing can be claimed, and what is claimed is counted by
  `SendsPaid`; after an opt-out, by `LatePaid`.
* `CampaignInv`: who is in an invocation's hand is PENDING and in no other's
  (`PendingIsHeld`, `HeldByOne`), so was mailed only by unsure attempts (`NotYetMailed`);
  what is recorded as sent was mailed; and a count of nobody left stays true of those
  who never left the list.
* `ReminderInv`: reminders made, under way and still to be claimed stay within the due
  dates that were set (`RemindersLeft`); and what counts as reminded of was told with the date it
  has, is about to be, or had its cycle spoiled by a death or a claim that met another date.
* `InboxInv`: the two advisory locks have one holder each (`LockTypes`); whoever is about to
  write its inquiry found no copy and none can come (`WriterIsFirst`); notifications
  made and about to be made, with those a poll found missing, are two at most (`AlertsLeft`).
* `HealthInv`: incidents opened or still to be opened take their share of the windows
  (`AnnouncementsLeft`).
* `MailInv`: whoever works on an event holds its claim, alone (`WorkerHoldsClaim`), and
  before its mail is out nothing of the event was delivered but in doubt, a mail whose
  record failed included (`NothingOutYet`); a revocation is written for the grant that was refused.

What the proofs asked of the constants is now named in the modules: the people, steps,
tasks' desks and evaluations that are counted are finitely many, and the steps a
sequence begins with are different steps.

## What people read and enter

`MCDesk` takes one screen per behaviour; its run is `desk`.

* `Visibility` evaluates the where-clauses of `visibility.ts` and the queries built on
  them, as functions from keys to rows that a spread overrides, while accounts change
  role, team and rows change hands. `ListsFollowTheRules`.
* `PayPeriods` is the civil calendar of the business zone, checked on every day of five
  years (`Desk.cfg` has 2025 to 2032: ranges look back up to two years and ahead one),
  and `SalesReports` a report read in three statements while sales are saved, taken back
  and accounts hidden. A save reads the sale, and its transaction later decides from that
  read whether the status changes and a history row is due. `ReportsAreRight`, `LedgerIsSettled`.
* `GdsItinerary` parses printed lines built from flights and checks that what was
  written is read: up to three lines, over the end of a year and a leap day, with and
  without arrival marks. `ItinerariesAreRight`.
* `QuoteForm`, `BookingForm`, `TicketingForm` (`CustomerFormsAreHonest`) and
  `BulkImport`, `LeadDesk`, `NewLeadDialog`, `AccountEditor` (`OfficeFormsAreHonest`)
  are forms in one or two tabs whose requests are answered late, lost or repeated, with what
  the server makes of them. Prices and texts are members of small sets.

`LeadDesk` has every writer of the lead's status: selections, which read it again, and the
requests that move the lead (`moving`): reassignment and claim, unassignment, accept, the
send of a quote, and the customer's booking. `AccountEditor` has the two editors of the users
page that send more than they show, teams and grants.

What an instance restricts is named beside it (`Rerolings`, `Reading`, `Saving`,
`Confirming`, `Ticketing`, `Signing`, `Selecting` in `MCDesk`); edits, openings and requests are bounded by the
constants of `Desk.cfg`.

### Proofs

All of `desk` but the parser is proved, for any accounts, records, sales, tabs, requests,
grids and any bounds. `Readings_proofs` is about what is read (`ListsHold`, `ReportsHold`,
`CalendarHolds`), `Desk_proofs` about what is entered (`BookingsHold`, `QuoteFormsHold`,
`TicketsHold`, `NewLeadsHold`, `UsersPageHolds`, `LeadDeskHolds`, `ImportsHold`), each for
a component's own specification with all of its moves; and, for `DeskSpec`,
`DeskIsTyped`, `DeskListsFollowTheRules`, `DeskReportsAreRight`, `DeskLedgerIsSettled`,
`DeskCustomerForms` and `DeskOfficeForms`. `DeskInv` is the conjunction of the parts'
invariants; a step of the desk is, for each part, one of its own or none (`PartsMove`).

* `ViewInv`: every team is within a company and every row has a colleague for owner
  (`TeamsStayInCompany`, `RowsHaveColleagues`); without the first a manager's list would
  reach another company. The lists are then rewritten one where-clause at a time: where
  two filters name different keys, spreading one over the other meets both
  (`MergedApart`), and where they name the same key the lemmas say which one wins.
* `ReportInv`: what a query of the open report has answered is still what it would
  answer, unless something was written since (`ListingAnswers`), and nobody's
  confirmation lies ahead of the clock, so one recorded now is the last; and a save under
  way that nothing was written behind knows whether its sale is confirmed (`SavesKnow`).
* `CalendarInv` only keeps today inside the years. The work is in the calculator: day
  numbers grow with dates (`NumbersDiffer`), every number is of one date
  (`DateOfNumber`), the hours of summer time begin and end on the Sundays that are meant, so
  local midnight never falls in a change of clocks, and a pay period ends where the
  next begins.
* `BookInv`: every request fills one slot per fare and is answered exactly when it is done
  (`Submitted`); whoever made the booking's row knows, or is about to look, and was not
  told no (`BookedStands`); a card's code was typed after the last answer (`PagesStand`).
* `FormInv`: what is on its way and what is stored is a sound save; every save stored
  but the last had its answer lost; a charged original is exchanged once. That an exchange
  charges near the total is arithmetic on two roundings (`RoundingIsNear`).
* `TicketInv`: what a save was checked with stays good until it is written, whoever writes
  in between, since a cost that is there is never blanked again (`SaveStands`).
* `DeskListsInv`: an agent's save under way fails as outdated or has read the status that
  stands, which is not BOOKED (`StatusStands`); a move of an owned lead is a manager's (`MoveStands`); no two saves share a number
  (`RowsStand`); until two lists cross, the rows are one list, the one each commit
  under way will replace and the last saver knows (`ListsStand`).
* `DialogInv`: as long as one search runs at a time and none failed, the notice is the
  answer to the last one (`NoticeStands`), and a request on its way carries what the notice
  said of its contact (`SentStands`): the owner gets the lead, or, told "assigned to you as
  usual", the clerk or whoever was picked instead.
* `EditorInv`: the ticks of an open popover differ from the team as saved only by members
  its administrator touched, but for one closed while it was saving (`TeamsStand`); what is sent
  adds only what was asked for, and the page that wrote last shows what is granted, or
  goes back to it (`GrantsStand`).
* `ImportInv`: every row has a value for each column of each channel, whatever was
  pasted and removed (`TableStands`), and the lines last pasted lie in the table as they
  were pasted (`LinesIn`).

They rest on assumptions the modules name, each checked by the run: sets of people and
records exclude the marks for "nobody" and "none" (`ViewConstants`, `SalesConstants`,
`FormConstants`, `BookingFormConstants`, `TicketingConstants`, `DialogConstants`,
`EditorConstants`, `LeadDeskConstants`, `ImportConstants`); a task's lead and contact are of
one company, as `createTask` looks them up (`TasksStayInCompany`); a pasted block has a
line and a line has cells (`GridsAreLines`); and the calendar begins after 1900 and has three years or
more (`CalendarYears`).

Two statements the proofs made sharper: a block pasted under a header it recognises may
have cells under no header, or two columns of first names, and what is in those is not
in the table, so `NothingPastedIsLost` speaks of blocks that have their columns
(`HasItsColumns`); and the calendar's first two years and its last are for the ranges
around today, never for today.

## Findings

Four runs expect a violation:

* `removed_offered`: `joinLeadQueue` reads session and role and turns the queue row on
  afterwards, whatever a removal has done in between; a distribution that read its
  candidates earlier then offers the removed account a lead, against `lead-queue.ts:166-172`
  and `accounts.ts:402-407` (`RemovedGetNoOffer`).
* `quote_backward`: a READ or VIEWED whose check passed before the customer signed is
  written over SIGNED, against `quote-status.ts:191` (`StatusNeverGoesBack`).
* `quote_price`: pricing edited between the snapshot and the status change of a send is
  charged in place of the price that was mailed, against `quotes.ts:317-319` and
  `quote-send-rules.ts:8-16` (`ChargedAsShown`).
* `quote_superseded`: a proposal revised while `sendQuote` is mailing it goes from
  EXCHANGE_SUPERSEDED to SENT, because superseded quotes rank below SENT, and can be
  signed, against `lib/exchange-proposal.ts:34-36` (`SupersededIsNeverSigned`).

Other disagreements met while modelling, which are in the models or in their comments
and have no run of their own:

* Lead queue: a website lead claimed by hand and later unassigned is offered again
  (`lib/lead-distribution.ts:6-7`); between the two statements that release an offer and
  pause its worker, that worker can be offered another lead (`lead-queue.ts:380-384`);
  an account re-roled while a distribution is under way is still offered the lead
  (`lead-queue.ts:161-166`).
* Quotes: a send slower than its window that then gives up deletes the claim another
  send has renewed (`quote-send-rules.ts:36-37`); a ticketing save that keeps the status
  it once read reverts another agent's change without a history row
  (`bookings.ts:229-231`); an exchange and a cancellation proposed at once both pass the
  check for CHARGED (`exchange.ts:81-83`); a quote may be canceled, a lead put back or a draft
  deleted on a check made before a booking came in; a disregarded cancellation may
  still mail its form.
* Pay periods: two saves of one sale that cross, each to CONFIRMED, both read the status
  outside their transaction and write two history rows, and the second moves the sale's
  date (`bookings.ts:126`, 239, 256-316, `sales-range.ts:25-35`); a save that read CONFIRMED
  before the sale was taken back leaves no row (`CrossedSaveOf`).
* Reminders: a task whose date is moved between the cron's read and its claim is marked for
  the new date and reminded of with the old one, against the "fresh cycle" of
  `tasks.ts:293-294` (`spoiled`).
* Staff mail: a sale's announcement that went out while the update of its log failed frees
  its claim, and may be mailed again (`booking-notification.ts:428`, 440-452, against 266).
* Contacts: two numbers added at once may both stay primary (`contacts.ts:273-284`, 312-319,
  333-339; `crowded`).
* Referred By: the search of a text a manager types replaces the team's scope (`OR`) and
  shows the whole company, and the contact it leaves out replaces the `id` of an empty scope
  (`contacts.ts:88-110`, against 85-87 and `visibility.ts:31-34`, 47-51). Never another
  company's contacts.
* Lead page: "only Admin/Manager may change it away" from BOOKED (`leads.ts:423-426`) does not
  bind the claim of a booked lead nobody owns, which makes it ACCEPTED for any agent (648-651,
  717-720), the accept of an offer, which makes it NEW (`lead-queue.ts:272`), nor a quote's send
  that the booking crosses (`quotes.ts:438-448`, "Guarded against regressing an
  already-BOOKED lead"); unassigning is one unconditional update after a check of
  permissions. Two saves of legs at once keep both (`setLeadSegments`).
* New-lead dialog: for a contact of one's own it says "the new lead will be assigned to you as
  usual", and must "accurately describe what WILL actually happen"; with another agent
  picked the lead goes to that one (`new-lead-dialog.tsx:356-365`, `leads.ts:274`). Lookups are
  not told apart by sequence.
* Itineraries: December lines pasted in January are moved a year late; the weekday is
  compared before the year is; a year that was written is corrected like one that was
  not (`shared.ts:43-47`).
* Builders: the child price, taxes and fees an exchange derives are always refused by
  the server; its charge may differ from the total by the rounding of each adult's price,
  against `exchange-builder.tsx:169-175` (`ChargeNearTheTotal` is what holds); a parsed paste
  that answers late overwrites edits; a lost answer of `createQuote` makes a second quote
  on retry.
* Customer's form: a repeat answers "already completed" with the first data.
* Ticketing form: a cleared field keeps its old value; a stale tab overwrites.
* Bulk import: a retry of a commit whose answer was lost creates everybody again; a
  review is shown beside a table edited since; rows with notes only are dropped, and so are
  cells under no header and the first of two columns of one name
  (`bulk-contact-paste.ts` 104-131, against `bulk-contact-import.tsx` 214-222).
* Users page: closing the team editor while it saves, and permissions edited from a
  stale page, send old state back.
* `reference-data.ts` 20-40 remembers a rejected promise.

## Only model-checked

* Liveness and fairness: `LapsedOfferIsResolved`, `WaitingLeadIsServed`,
  `WaitingLeadIsReached`, `TabsCatchUp`, `WorkEnds`, `NewsIsSeen`. The prover has no rule for ENABLED.
* `QuoteFollowsBooking` and `FailedSendIsReleased`, whose exceptions are in history variables of
  `MCQuoteLifecycle`. `RemovedGetNoOffer`, `StatusNeverGoesBack`, `ChargedAsShown` and
  `SupersededIsNeverSigned` do not hold.
* The itinerary parser (`ItinerariesAreRight`): it folds over lines of any length, and
  what matters is a value for each input, which needs induction over data; TLC runs
  through all inputs of the instance.

## Not modelled

Rate limits are one upsert per key; what a refusal does is modelled where a handler
asks. The remaining fields of a contact are single updates. Pages and components
without state of their own render what the modelled queries return; templates are
wording; reference data and the connection are static. Within the modelled
components: the second dialects of the parser, aircraft tables, addresses and consent
of the booking form, internal notes and gratuity of a quote, and deletion of a quote
that has proposals or requests. E-mail addresses of a contact have the handlers of
its phones again and no model of their own. The single fields of a row on
the users page are sent one at a time and hold no state of their own beyond the answer
awaited. `updateBookingPermissions` is `updatePaymentPermissions` on another list.
The claim of an offer's sound in browsers without Web Locks (localStorage) is left out.

