# ExpeditionPRO in TLA+

ExpeditionPRO is a multi-tenant back office for expedition companies: a TypeScript
monorepo with a domain, an application and an infrastructure package, a Fastify server
and a React client over one PostgreSQL database. This directory models the parts of it
whose correctness depends on what happens *between* two statements: the automation
engine with what feeds it, the queue that turns submissions into bookings, the price,
the money and the credit of a booking, and the WhatsApp inbox.

The database is the only state processes share. A use case reads some rows, decides
and writes, mostly without a transaction; the models take one statement, or one
transaction where the code opens one, as one step, and let every other request run
between two of them.

## Inventory

Paths are under `src/`; `application`, `infrastructure` and `domain` stand for
`packages/<name>/src`.

| part | state | operations | hard behaviour | what makes it correct |
| --- | --- | --- | --- | --- |
| automation engine (`application/automation/{advanceAutomationRun,resumeDueRuns,seedRunsFromList}`, `infrastructure/automation/prismaAutomationRunRepository`) | `AutomationRun` rows: status, current node, wake time, steps, attempts, lock; `AutomationRunStep` log | claim due runs, walk the drawing, wait, retry, fan out, finish | two processes on one queue, crashes, locks taken over after five minutes, retries after a provider accepted | one owner per run; effects not repeated; bounded attempts; whole log; every run ends |
| automation desk (`setAutomationEnabled`, `saveAutomationGraph`, `deleteAutomation`, `team/revokeTeamAccess`) | `Automation` row: enabled, deleted, drawing, person it acts for | switch on and off, save, delete, revoke | edits while runs are asleep or being walked | a cancelled run stays so; a run ends whatever the desk does |
| triggers and runner loop (`server/automation/runner`, `enqueueAutomationRun`, `scanScheduledTriggers`, `scanRecurringTriggers`) | idempotency keys; `rodando`, `pendente` flags | push, sweep, scan | lost pushes, a scan repeated or interrupted, one trigger for several automations | one run per automation and occasion, no occasion lost |
| graph rules (`domain/automation/graph`) | none | `validateGraph`, `nextNode` | depth-first search for loops without a wait | what is accepted can be walked |
| booking ledger (`application/payments/{registerPayment,registerRefund,deletePayment}`, `infrastructure/payments/prismaPaymentRepository`) | `BookingPayment` rows, soft-deleted | register, refund as money or credit, delete | check then write; three writes of a refund without a transaction | received never below zero; returned money closes the booking; credit backed by rows |
| payment webhook (`settleChargeFromWebhook`, `server/routes/paymentGateway`) | `PaymentCharge`: net, gross, billing, first row | settle a parcel, set a status | resent and simultaneous events, death before the 200 | a parcel is booked once, never lost, never above the net value |
| booking status (`cancelBooking`, `confirmBookingManually`, the confirmation in `payments.create`) | `Booking.status` | confirm, cancel | stale status at the write | money confirms; a cancelled booking stays cancelled |
| charges (`createBookingCharge`, `reconcileCharge`) | `PaymentCharge`, the provider's own charges | quote, issue, reconcile | two systems, no common transaction | no charge without a row; no debt charged twice |
| price of a booking (`domain/pricing`, `discountBookingTotal`, `restoreBookingTablePrice`) | `BookingParticipant.unitPriceCents`, price versions of an itinerary | price, discount, restore | cents that do not divide, participants read in no order, money moving under a discount | prices add up to what was agreed; a discount owes nobody |
| cashback (`application/cashback`), coupons | append-only entries; redemptions | accrue, redeem, expire; apply, remove | check then insert, a job that dies half way | nobody spends more than was given; expiry takes nothing twice |
| intake and allocation (`application/{intake,portal}`, `bookings/allocateBooking`) | `IntakeEvent` rows, customers, bookings | receive, ask, allocate, discard, reprocess | resends, two people on one row, unique keys taken meanwhile | one booking per submission, all of it or nothing |
| inbox (`application/messaging`, `server/routes/inbox`) | conversations, messages | receive, send, mark as read | three forms of one address, resends, the echo of a reply, a crash before the automations fire | one conversation per contact, every message stored, automations woken once |
| customers, identity, pipeline, schedule, itineraries, vehicles, suppliers, documents, portal, community, team, reports, notifications | one aggregate each | guarded create, update, delete, reads | little beyond a unit of work | |
| web client | none the server relies on | | | |

A booking's payments, confirmations and stage moves *fire* automations; an automation's
actions call messaging, the pipeline and webhooks; a refund writes cashback; the webhook
and the team write the same ledger.

`PROJECT.json` lists every component with its status and every hazard at the line where
it bites.

## Modules

| module | what it is |
| --- | --- |
| `AutomationRuns` | the table of runs, the desk, the processes that claim and walk |
| `JobQueue` | the abstract queue the rest of the system relies on |
| `AutomationRunsProofs` | type correctness, the inductive invariant and what follows from it; the engine implements the queue; how often a block acts; what holds of one process |
| `AutomationTriggers`, `AutomationTriggersProofs` | fires, sweeps, pushes and drains: how runs come to be and who wakes the engine |
| `AutomationGraph`, `AutomationGraphProofs` | what `validateGraph` accepts, its two walks one visit at a time; what they find |
| `BookingLedger`, `BookingLedgerProofs` | rows and status of one booking, one charge in parcels, webhook and team requests |
| `Pricing`, `BookingPrice`, `BookingPriceProofs` | the arithmetic of prices and discounts; the price of the booking of `BookingLedger`, which it extends |
| `Fees` | what a customer pays so that the net amount is left, and back; its theorems are in `BookingPriceProofs` |
| `SumsProofs` | what is true of the sum of a function over a finite set; the ledger, the price and the credit rest on it |
| `Enrollment` | submissions, the team's queue, the bookings that come out of it |
| `CustomerCredit` | the cashback entries of the customers |
| `EnrollmentDesk`, `EnrollmentProofs` | `Enrollment` and `CustomerCredit` over the same bookings; the theorems of all three |
| `Inbox`, `InboxProofs` | deliveries of messages, replies and their echoes, conversations |
| `MC...` | the sets, amounts and drawings for TLC |

### AutomationRuns

One tenant, one automation, any number of server processes (`Workers`) and of runs. A run
is a root, opened by a trigger, or a child `<<root, item>>` opened by a for-each: this
is the idempotency key `block:item:run`, since a drawing has one for-each.

| model | code |
| --- | --- |
| `status node due steps tries lock stale` | the row: `status`, `currentNodeId`, `wakeAt <= now`, `stepsTaken`, `attempts`, `lockedBy`, `lockedAt < now - 5 min` |
| `enabled alive graph access draft` | the `Automation` row, the membership of `runAsUserId`, a save between its read and its write |
| `pc cand batch cur at walked tried flow todo` | the local variables of `claimDue`, `resumeDueRuns`, `advanceAutomationRun` and `seedRunsFromList` in one process |
| `did log cuts faults` | observers: effects per block, log rows, faults that hit a run |
| `ClaimReads`, `ClaimStamps`, `ClaimTakes` | the three statements of `claimDue` |
| `SkipsFinished`, `Loads`, `CancelsWhenOff`, `FailsWithoutAccess`, `Starts` | the head of `advanceAutomationRun`, with its early returns |
| `HitsCeiling` ... `EndsSeeding` | one turn of its loop each, by kind of block and outcome |
| `Saves` | `runs.update` with `release`: by id, whoever holds the lock |
| `Breaks` | a finder throws out of the pass: memory lost, locks left |
| `Crashes` | a deploy, or the database fails under the pass: the same at any place |
| `ActionTears` | the effect happened and what followed threw inside the same `try` |
| `PassDrags` | five minutes pass over a lock whose owner is only slow |

Time is two facts of a row: due, and stale. `WakeElapses` and `LockAges` turn them on at
any moment, so every delay is of every length. A branch, a switch or a lookup chooses any of
its ports; a finder finds any set of items; an action succeeds, fails or tears.
The drawings in `Graphs` are those `validateGraph` accepts (`GraphsAssumption`). Runs that
are open when the ceiling of steps or of attempts is reached end as in the code.

A fault counted in `cuts[r]` is one that hit run `r`. Most promises hold of runs with
`cuts[r] = 0`: the engine has no fencing, so a slow owner that comes back may write what it
likes to a run taken over from it. The model keeps that behaviour (`Saves` has no guard) and
`RepeatsOnlyAfterFault` bounds what the faults may repeat.

### BookingLedger

One booking whose charge has been issued in `Parcels`. A webhook request is read, decide,
row (with the confirmation, one transaction), mark and answer; a refund is read, row, credit,
close; registering and confirming by hand are a read and a write; deleting and cancelling are
one write after their guards.

| model | code |
| --- | --- |
| `status` | `Booking.status` |
| `rows` | `BookingPayment`, `live` is `deletedAt === null` |
| `received`, `settled` | what `sumCents(listByBooking)` and `alreadySettled` of `quitationOf` would return; kept beside the rows so that proofs need no induction over sums |
| `mark` | `PaymentCharge.bookingPaymentId` |
| `paid`, `acked` | the provider: parcels paid, parcels answered with 200 |
| `hook`, `desk` | local variables of the requests under way |
| `credit` | the sum of `CashbackEntry` of type adjustment that refunds wrote |
| `torn` | observer: refunds that died between two writes |

`Share` is `Math.round` in integer arithmetic. `registerPayment` takes the provider's fee off,
which leaves any amount, zero included.

### JobQueue

What a caller of the engine may rely on: a job is opened once, one job moves at a time, a block
acts only for a job that may be served, and a finished job moves again only after a fault struck
it. `AutomationRuns!Abstract` maps runs to jobs, statuses to states, `did` to effects and `cuts` to hits
(`IsQueue`). A cancelled job is servable, as in the code: a process that had listed it
before may still walk it.

### AutomationTriggers

`task` holds the sweep of `runner.ts` and the fires under way, one database call a step; `drain` is
`drenar` with `rodando` (not at rest), `pendente`, the candidates of a claim and its batches.
`EnqueueLists` and `EnqueueWrites` are `enqueueAutomationRun`: the automations that are on,
then one insert each, which the unique key may ignore. What a taken run does is `AutomationRuns`; here it is
only taken. A failing call is caught where the code catches it: each scan by itself, the fire with
no push, the drain with its flags. The observer `left` holds the runs a push, the end of a pass or a
failure left behind; a later push, or a drain that repeats, takes them out when it will serve them.

### AutomationGraph

The rules of `validateGraph` are operators over a drawing; `alcancaveis` and `temCicloSemEspera`
are machines, since what the second finds depends on the order in which it visits and marks
blocks. The path of the recursion is `caminho`, its program counters are `turn`.

### BookingPrice

Extends `BookingLedger`: a ledger step is the ledger's own, and `Late` notes money that moved under a
discount. A discount or a restore reads the booking, its participants in any order (the
query has no `orderBy`) and its receipts, and writes all prices in one transaction.
`DistributeDiscount` gives the leftover cents by the largest fraction, the first of equals.
Fractions are exact in the model and floating point in the code.

### Enrollment, CustomerCredit

Transactions read committed rows and write at their commit, where a unique key taken meanwhile
makes them fail (`Clear`): an allocation is `AllocBegins`, `Checks`, `Commits` or `Fails`. Discarding
and reprocessing are a read and a write by id without a transaction. `crossed` collects the rows
two requests of the team were at together: `OneBookingPerSubmission` and `QueueIsLeftOnce` do not
hold of them in the code, since `markDiscarded` and `markReprocessed` repeat no condition.
Credit is kept as sums per booking and type; `raced` says two requests on the credit overlapped.
What confirms and cancels a booking is `BookingLedger`; here `Moves` does it at any time. The branch of
`accrueCashback.ts:61-68` for a booking made before rules were frozen is left out: every booking that
comes out of the modelled code has its rule.

### Inbox

| model | code |
| --- | --- |
| `way` | the addresses an event carries: LID, number, or both |
| `threads` | `Conversation`: `channelUserId` (unique), `phone`, `customerId`, `unreadCount` |
| `stored` | `Message`, unique by its provider's id: its conversation and `sentByUserId` |
| `task` | `receiveChannelMessage` between two statements: look for the message, search, open or identify, link, add, touch and fire |
| `reply` | `sendChannelMessage`: sent, added, touched |
| `fired`, `greeted` | calls of `fireAutomation` |

The provider delivers a message until it gets a 200, and a second time while a delivery is under
way when that takes too long. A reply's echo is such a message from the moment the provider took
it, and may be stored before the reply is. `Twin` is `outraGrafia` for mobile numbers.

## Runs

| run | instance | shows |
| --- | --- | --- |
| `engine` | 2 processes, 1 root, 1 item, act - wait - set - for each - act, failing to a lookup that throws; ceilings of 5 steps and 2 attempts, claims of 1, 1 fault | `TypeOK`, `Exclusive`, `LogTellsAll`, `EffectsOnce`, `ThreeStrikes`, `FinishedStands`, and that it implements `JobQueue` (`IsQueue`) |
| `engine_recovery` | 1 process, act - wait - for each - act with an error port, and a drawing with a branch, a block off and an unknown action, either saved over the other; 2 faults | `RepeatsOnlyAfterFault`, `WaitsAreKept`, `CancelledStands`, `Settles` |
| `engine_early_wake` | 2 processes, no fault | `WaitsAreKept` violated (finding 1) |
| `engine_trailing_wait` | 1 process, a wait with nothing behind it | `EffectsOnce` violated (finding 2) |
| `engine_throws` | 1 process, 2 runs in one batch, a lookup with no entity | `OthersAreServed` violated (finding 3) |
| `ledger` | 1 webhook and 1 team request at a time, 2 parcels of 2, gross 4, net 3; a couple and a child read in any order, a discount of 33% or of 6, one later price version; 3 requests of which 2 on the price, 1 death | the ledger's nine promises, `PriceTypeOK` (the ledger's `TypeOK` within), `UnitsAddUp`, `NobodyPaysMore`, `DiscountsOweNothing`, and that the price changes nothing of the ledger (`KeepsTheLedger`); its ASSUMEs check the arithmetic of `Pricing` and `Fees` |
| `ledger_twice` | 2 webhook requests | `OneRowPerParcel` violated (finding 4) |
| `ledger_rounding` | 3 parcels of 2, gross 6, net 4 | `ClosesExactly` violated (finding 5) |
| `graph_loops` | every drawing of a trigger, a question, an action and a wait | `LoopsAreRefused` violated (finding 6) |
| `triggers` | 1 process, 2 automations for one event, 1 scheduled and 1 recurring, a departure, claims of 1, 2 batches, 1 failed call, crash or switch | `TypeOK`, `SweepMissesNothing`, `LeftForAReason`, `EveryRunIsTaken` |
| `desk` | 2 requests of the team, a form by 2 senders and a request in the app, of one family, 2 groups; 1 request on the credit at a time, redemptions and refunds of 1 | `DeskTypeOK`, `AllocationIsWhole`, `OneBookingPerSubmission`, `QueueIsLeftOnce`, `EarnsByItsFrozenRule`, `SpendsWhatWasGiven`, `ExpiresWhatIsLeft` |
| `inbox` | 1 contact: a message by LID and number or by the number alone, one by the other spelling or by the LID alone, a reply and its echo; the first delivered twice at once, 1 crash, late or lost answer | `TypeOK`, `WokenOnce`, `OneThread`, `ArrivesInTheEnd` |

Bounds. *Engine.* Two processes are the fewest that race, and a third would need a third step of
`claimDue` to matter, which it has not; the two processes are symmetric (`SYMMETRY`, only in runs
without liveness). One fault shows each kind of fault against
everything else and two show a fault during the recovery from a fault. The long
drawing takes five blocks, so the ceiling of 5 steps bites on runs that retried; two attempts make the
first failure a retry and the second the end.

*Triggers.* Claims of 1 and 2 batches make both `LOTE` and `LOTES_POR_PASSADA` bind with three runs
due; the clock crosses one slice of the recurring trigger. With one process no claim loses a row to another,
so that reason of `LeftForAReason` is never at work in the run: what it says of several processes is the
theorem `NoneLeftWithoutReason`. What two processes do to one claim is the run `engine`.

*Ledger and price.* Two parcels are a first and a last one, a net of 3 over shares of 2 makes the second
share be cut; amounts 2 and 3 make refunds partial and whole. The booking costs 7, a third of which leaves cents
to hand out, and 6 nearly all of it; a couple has one adult that pays for two and one that
pays nothing, and every order of the party is read. `Whole = 6` stands for 10 000 basis
points in the check of the fees, which their proofs do not need.

*Desk.* Two senders and two requests are the fewest that race; one family in two groups has a
booking per group, so that credit is earned on one and spent on the other. Only what was asked for in the app
earns, and there is one such request, so that the expiry has one entry to append: a job that dies between two entries
is in the theorem `LapsesWhatIsLeft` and not in the run. The credit is followed until two requests of
the team crossed, as nothing in it depends on which of them won. With one request on the credit at a
time `raced` stays false: that two of them overlapped is the exception stated in its properties.

*Inbox.* Two messages and a reply are the fewest that show an identity change back and forth and an
echo; a second contact shares nothing with the first but the tenant. One customer card suffices: two with the same
number link nobody.

Deadlock is not checked: a system whose budget of requests is spent, or whose automation is
deleted and whose runs have ended, really stops.

Every property of a passing run has a mutant in `PROJECT.json`: a plausible slip in one
mapped definition under which TLC finds that property violated.

### Fairness

`AutomationRuns!Fairness` is weak fairness of each process's pass, since `setInterval` sweeps
every minute for as long as a process is up and errors of a pass are caught, and of the clock
(`WakeElapses`, `LockAges`). Nothing makes a trigger, the team or a fault happen, and the switch may
go on and off for ever: `Settles` holds all the same, for drawings whose finders do not throw every
time (finding 3). `BookingLedger!Fairness` is weak fairness of
each webhook request: the provider sends an event again until it gets a 200.
`PaidIsAnswered` needs no fairness of the team's requests; `BookingPrice!FairPriceSpec` is the same
fairness over the composition.

`AutomationTriggers!Fairness` is weak fairness of the clock, of each task and of each drain: timers
and promises of the event loop run. `EveryRunIsTaken` excepts a process that is pushed in the
middle of every drain for ever: `drenar` repeats with the instant of its first push, so what came due
since is not taken until it rests. `Inbox!Fairness` is weak fairness of each delivery, since the provider
repeats what was not answered with a 200; nobody owes a reply.

## Proofs

TLAPS proves these for every value of the constants: any number of processes, runs,
blocks, drawings, parcels, amounts, travellers, submissions, messages, requests and faults.
They rest on the named assumptions of the modules (constants are of their kinds, identifiers
are different, drawings have a trigger and closed links, the bookings and the
participants are finitely many), which TLC evaluates in every passing run, and on what a theorem
assumes by name, which this section repeats. Every safety property of a
passing run is the statement of a theorem.

### The engine

`TypeCorrect` comes first. None of the promises is inductive: that a claim is
exclusive depends on the stamp between the claim's statements (`StampsAreFresh`), the log's completeness
on what the process in hand has walked since it read the row (`HandsAreCurrent`), the
bound on attempts on the copy it took. `IInv` is their conjunction with the stages of a
pass (`Hands`), and `Inductive` proves it step by step, with one lemma for everything that puts a
run down (`StopsSafe`), one for everything that goes on (`GoesOnSafe`), one for
retries (`RecoversSafe`). From it follow `ClaimsAreExclusive`, `LogIsWhole`,
`AttemptsAreBounded` and, as a property of steps, `FinishedRunsStand`: only the holder
of a run moves it, and what is held is not finished.

`EngineIsQueue` is `Spec => IsQueue`: the initial states map to initial
states, and each step of the engine maps to opening, serving or striking one job, or to none. Every
action that acts or changes a status has a run in hand that `IInv` knows to be servable or hit.

| theorem | assumes | says |
| --- | --- | --- |
| `EffectsHappenOnce` | `Loopless` | `EffectsOnce`, for any number of processes |
| `RepeatsAreFaults` | `Loopless`, `OneProcess` | `RepeatsOnlyAfterFault` |
| `OneProcessKeepsWaits`, `OneProcessKeepsCancelled` | `OneProcess` | `WaitsAreKept`, `CancelledStands` |

`Loopless` says that one order of the blocks is followed by every edge of every drawing the team saves over
another, and that no wait is the last block. The code does not guarantee it (findings 2 and
6); with a loop a block acts again by design. Both engine runs have such drawings, and TLC
checked the invariant on them, with an order written out, before it was proved. The invariant is `Forward`: every block
that acted more often than faults account for lies *before* the block where the run stands, which is
the walk's own block while a process has the run in its hands, and `currentNodeId` of the row while
nobody has. So a block about to act has not acted yet; going on moves the run up in the order; a wait
writes the block behind it; a retry writes the block that did not act, or whose act a fault accounts for; and a crash adds a
fault to a run whose effects it may repeat once each. It is claimed of the runs no fault hit, which one
process has at a time (`OnlyHolder`), and of all runs with one process.

`OneProcess` is a restriction: the runner is written for several (`runner.test.ts:456`). With
one, what it chose stays open and due until it walks it (`Chosen`), since only its own pass writes rows back; with
two, finding 1 refutes `WaitsAreKept`. A restart is a crash of the same process, so that the theorems cover
deploys as long as the old server is gone when the new one claims.

### Triggers

`TriggersTypes`, `SweepsMissNothing` and `NoneLeftWithoutReason` assume nothing. The second
rests on an invariant of a fire (`Complete`): every automation it concerns has its run, or the
task has still to list it, or to write it. The third on one of each run that waits (`Cared`): a push for it is on
its way, a drain will take it in this batch, a later one or when it repeats, or it is in `left`. What
makes it delicate is `pendente`: a push in the middle of a drain leaves only a flag. The drain it fell into
serves what is due at its own instant (`PushCares`, `DrainTakes`) and what is newer goes to `left`; what a fire
that fails had opened goes there too, unless the sweep or a drain has the care of it as well.

### Graph rules

They assume `Sensible`, that drawings are drawings. `ReachedIsExact`: the blocks reached
are the least set with the trigger that the edges close. `ReportedLoopsAreReal`: what is refused as a
loop is one, since the path is a walk over edges (`PathLeads`). `WaitlessLoopsAreFound`: in a drawing
without waits the search misses no loop, since every edge of a block that is done leads to one that
is. With waits it does (finding 6). `AcceptedIsWhole`: an accepted drawing is what the engine
takes for granted, and all of it is reached.

### Ledger

| theorem | assumes | says |
| --- | --- | --- |
| `TypeCorrect`, `MoneyAlwaysConfirms` | | `TypeOK`, `MoneyConfirms` |
| `RefundedCreditIsBacked` | | `CreditIsBacked` |
| `ParcelsAreBookedOnce`, `ChargeIsCapped` | `OneWebhook` | `OneRowPerParcel`, `NeverOverSettled` |
| `AnswersLoseNothing` | `OneWebhook`, `SharesCount` | `AnsweredIsBooked` |
| `RefundsStayCovered`, `EmptiedAreCancelled`, `CancelledForGood` | `OneAtTheDesk` | `RefundsAreCovered`, `EmptiedIsCancelled`, `CancelledStays` |

A booking never becomes pending again, so a request that read another status still
knows why it does not confirm (`Requests`). With one webhook request at a time, what it read of the
ledger is still so when it writes (`HookIsCurrent`), since the team only adds rows
without a parcel or deletes; without `OneWebhook`, `ledger_twice` refutes the first. `SharesCount` says
no share rounds to zero. With one request of the team at a time, and webhooks in between,
money may have arrived since the refund read the sum, never left (`DeskIsCurrent`).
`RefundedCreditIsBacked` needs neither: the credit and what requests between their two writes still
owe it add up to the rows kept as cashback, row by row, and deleting a row only marks it (`CreditInv`).

### Price and fees

`PriceKeepsTheLedger`: a step of the composition is a step of the ledger or none, so
every theorem of the ledger holds of the booking with its price. `GrossLeavesTheNet` and `GrossIsTheLeast`:
the gross amount is the least that leaves the net one; `RoundTrip`: taking the fees off a gross amount gives the
net one within a cent. All three are exact arithmetic.

`PricesAreWhole` and `PricesAddUp` hold for any party, table, order of reading and number of requests at
once. They rest on what the two functions of the domain compute for every input: `TableAddsUp`, that
`priceParticipants` adds up to `calculateBookingTotal` (a couple's price is paid by the first adult of
the order, whichever it is), and `DiscountSpreads`, that `distributeDiscount` sums to the discount, to the
cent, and takes from nobody more than they owe. The latter counts the cents the floors leave: they are no more
than the participants with a fraction, so that one each is enough.
`NobodyIsRaised` and `DiscountsLeaveNoDebt` assume `[]OneQuote`: two requests of the team on the price of
one booking do not overlap. A discount computed before another request restored the table, and written after
it, is a price list of the old table, and the code compares nothing; what adds up then may still
exceed the new table for one traveller.

### Submissions and credit

`NothingIsHalfAllocated`, `SubmissionsAreBookedOnce` and `TheQueueIsLeftOnce`
follow from `DeskInv`: besides types and the promises themselves, an allocation creates nobody it does
not book (`RequestsAreWhole`), and a row no two requests were at together is still as the one at it
read it (`RowsAreAsRead`). Without the latter a commit could land on a row that was discarded.
`DeskKeepsItsPromises` carries them over to the composition with the credit.

`EarnedByTheFrozenRule`, `SpentWasGiven` and `LapsesWhatIsLeft` follow from `CreditInv`. What was read is
still so when it is written, unless `raced`, since one request on the credit is busy at a time (`ClerksWork`);
a booking earns by the rule frozen on it (`EarnsByRule`); what a redemption under way will take is still covered
by what was given (`SpendsCovered`), and what an expiry under way will take is still there, whatever it took
from other bookings meanwhile (`LapsesCovered`). That it is still there says nothing of all times, since credit
earned on one booking may be spent on another after the first has expired: `LapsesWhatIsLeft` is about the steps that
expire. The sums are over any finite set of bookings.

### Inbox

`InboxTypes`, `AutomationsWakeOnce` and `OneThreadPerContact` hold for any number of contacts, messages,
deliveries, replies and faults. They assume `ContactAssumption`: a contact keeps its number, and nobody else
answers to its names. `WokenInv` says of each message which deliveries are behind its insert, so that a second one
finds the row or fails on the key. `ThreadInv` adds what identities can be: a conversation has
names of one contact only, and the conversation of a contact that always showed its number is found by any of
its messages, since every form of the number is searched.

### Arithmetic of sums

The totals of the models are folds over finite sets. `SumsProofs` proves the few facts they need (a sum over a
set with one element more, changed at one element, bounded term by term) without an induction principle:
a set on which a fact fails has a least subset on which it fails
(`FS_StrictSubsetOrderingWellFounded` and `WFMin` of the library), and taking an element out of that one refutes it. The sums
`received` and `settled` of the ledger are kept beside the rows, as the queries of the code return them.

### Only model-checked

`Settles`, `PaidIsAnswered`, `EveryRunIsTaken` and `ArrivesInTheEnd` are liveness under fairness. What
`Pricing` and `Fees` give for particular amounts is evaluated by TLC in ASSUMEs beside the
theorems. The six expected violations are counterexamples.

## Findings

1. *A wait can be skipped.* `claimDue` stamps with the condition on the lock but not those on status
   and wake time. A process that read a run as due, and stamps it after another has walked
   it to a wait and released it, walks on at once. The same gap lets a run
   cancelled in between be walked (`CancelledStands` is checked for one process).
2. *A wait at the end of a branch starts over.* No next node is stored as null, and null
   is read as never started.
3. *A lookup that throws stops the batch.* Nothing between the finder and the runner's loop
   catches: the run keeps its place in the queue for ever, no attempt is counted, and the rest of
   its batch waits five minutes with it.
4. *Two webhook requests book a parcel twice.* Check and insert are not in one
   transaction and no unique key covers the reference.
5. *Shares that round down do not close the charge.* The last parcel is cut when too large but
   not completed when too small.
6. *A loop without a wait can be accepted.* `temCicloSemEspera` marks a block as done although
   a loop through a wait was met below it, and does not look at the second path to it.

## What the code does otherwise

The properties state what the code keeps. These are places where it keeps less than a reader might
expect; each is in the models, as an exception a property names or a step it allows, unless it says that it is
not.

- *Time triggers* fire every automation of their type: both scans call `enqueueAutomationRun` with the
  type alone (`scanScheduledTriggers.ts:56`, `scanRecurringTriggers.ts:33`). "A cada um dia" beside
  "a cada cinco minutos" runs every five minutes, and the slice number of one interval may
  use up the key of another. `SweepMissesNothing` therefore says that a run is there, whoever wrote it.
- A day on which no sweep succeeds loses the reminders of that day: the day is compared for equality, though
  `scanScheduledTriggers.ts:19` says otherwise. A wait that is turned off counts as a wait for `validateGraph`
  (`graph.ts:277`) and not for the engine.
- *A push into a drain* is not lost, as `runner.ts:99-101` says of `pendente`, but it is late: `drenar` repeats with
  the instant of the push that began it (`111-119`), at which a run opened since is not due, so that the run waits up to a
  minute for the next sweep, though `runner.ts:23-24` says an automation reacts in milliseconds. A batch that is
  short because another process won rows of it ends the pass as a dry queue does (`resumeDueRuns.ts:60-61`), and a
  pass that reached its last batch leaves the rest. In all three cases `LeftForAReason` lets the run wait, and
  says that nothing else, failures apart, leaves one behind.
- *Two people at one row.* A row discarded while it is allocated, or reprocessed while it is discarded, ends as
  the last write says. The request of the app always books its head too (`allocateFromQueue.ts:113`).
- *Price.* A restore uses the version in force on the day the group starts, one added after the booking
  included, though `restoreBookingTablePrice.ts:29` denies it; it may give the couple's price to another adult
  (no `orderBy`) and is not held against what was received. A discount looks at receipts, not at charges
  issued and unpaid, nor at money that comes in before it writes (`late`).
- *Credit.* The cap of a redemption is per redemption and not per booking. Credit earned on one booking and spent on
  another still expires with the first, and the balance goes below zero. The credit of a refund expires with the
  bonus of its booking, although `registerRefund.ts:96` says it does not ("não expira") and its entry has no date:
  `listExpiredCredits` sums all entries of a booking with a bonus that is due
  (`prismaCashbackRepository.ts:99-103`), and `ExpiresWhatIsLeft`
  counts it as there to be taken. Two redemptions, or two refunds, at once may both pass.
- *Inbox.* `converger` writes the identity of whichever message came last: one with the number alone overwrites the
  LID, a later one with the LID alone opens a second conversation, and when two conversations match, the
  one `findFirst` picks may not take the identity of the other, so that every delivery fails
  (`Split` in `ArrivesInTheEnd`). A reply whose echo is stored first fails on the unique key:
  it is stored without its author and `message_sent` does not fire. A crash between the row and the fire
  leaves the automations asleep, because the next delivery finds the row (`hurt` in `WokenOnce`).

## Not modelled

Texts, dates, methods, roles, audit rows and the status shown on a charge; the content of
actions, conditions and finders; user code in its child process. A run in the model has one
generation of children. What the code does when the database itself fails is a crash or an error out of the
pass. Two simultaneous requests of the team are in `BookingLedger` (`Desks`) and in the theorems that do not
need `OneAtTheDesk`; with two, refunds may pass what was received and a manual confirmation may
revive a cancelled booking, which no document of the repository denies.

- *Issuing a charge*: the ledger starts from one that is issued. That the provider's charge comes before its
  row (`createBookingCharge.ts:129`) and that what is due ignores charges unpaid (`:204`) are listed as
  hazards without a property. Reconciling reads what a webhook would bring.
- *Coupons*: no route, job or screen calls applying or removing one.
- *Check-in, invoices, customers, pipeline, schedule, itineraries, vehicles, suppliers, team*: one guarded write
  each, or one transaction over one aggregate, which a unit test reaches.
- *In the inbox*: connecting a channel, who may write to the webhook, attachments, the link to an opportunity.
- *Documents, portal, community, notifications, reports, audit, the web client*: reads and presentation. They are most of the
  repository's lines, and hold no protocol to check.

## Plan

Done, in this order: the engine and the ledger with their first theorems; the graph rules; the
triggers; `JobQueue` and the refinement; the queue of submissions with the credit; price and fees; the inbox;
a theorem for every safety property that a passing run checks.

Left, in order:

1. `OneQuote` as weak as it can be: whether two discounts alone may overlap.
2. The webhook with two requests at once: what still holds of a charge whose parcel was booked twice.
3. `Charges`: issuing at the provider, the local row, reconciliation and what is due.
