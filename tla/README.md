# Homiio: specifications, model checking and proofs

Homiio is a housing platform: an Express API and a BullMQ worker over
Postgres, an Expo frontend, and parsers for external listing portals. Most of it
is queries and forms. Five parts carry logic that an outage or an unlucky
interleaving can damage, and this directory models them:

* the **moderation pipeline**: a report about a listing, a review or an eviction
  case is delivered to CrowdSource (an external jury), which decides the case in
  revisions and sends each decision back by webhook, and Homiio carries it out;
* **housing alerts**: a fact about a listing is matched against the areas people
  watch, and each of them is told once;
* **billing**: Stripe, its webhooks and the person write one account's row;
* **bookings**: reservations and viewing requests compete for dates;
* **leases**: landlord and tenant sign, and the lease is billed from then on.

All paths below are under `src/packages/backend/`.

## The system

| component | state it keeps | operations | modelled in |
|---|---|---|---|
| Moderation outbox (`db/moderation/moderationOutboxRepository.ts`, `services/moderation/ModerationOutboxService.ts`, `ModerationOutboxDispatcher.ts`) | `moderation_outbox`: status, lease owner and deadline, attempts, availability | enqueue, claim, renew, complete, release with backoff or dead letter, start, stop, expire | `ModerationOutbox`, `DurableWork` |
| Enforcement (`ModerationEnforcementService.ts`, `enforcementPlan.ts`, `db/moderation/moderationEnforcementRepository.ts`) | `moderation_enforcements` (the ledger), `properties.moderation_restricted`, `reviews.moderation_status` | plan, claim an action, read and write the object, record, release the claim | `EnforcementPlan`, `ModerationEnforcement` |
| Intake and delivery (`ReportIntakeService.ts`, `ModerationDeliveryWorker.ts`, `EvidenceSnapshotService.ts`) | `moderation_reports` | create a report and its event, send it, record the receipt or the failure, close it | `ModerationPipeline` |
| Inbox and decisions (`routes/crowdSourceWebhook.ts`, `ModerationInboundService.ts`, `moderationEventStore.ts`, `ModerationDecisionWorker.ts`) | `moderation_events`, the decision cached on a report | claim a webhook, record and queue it, release it; defer, enforce, cache | `ModerationPipeline` |
| Reconciliation and retention (`ModerationReconciliation.ts`, `db/expiry.ts`, `services/cron.ts`) | none of its own | re-enqueue lost deliveries, delete expired rows | `ModerationPipeline`, `ModerationOutbox` |
| Review reports (`db/moderation/reviewReportRepository.ts`) | report rows, `reviews.moderation_status` | insert, count, escalate at three | one action of `ModerationEnforcement` |
| Housing watches and alerts (`services/watches/`, `db/watches/`) | `housing_domain_events`, `housing_alerts`, the settings of `saved_searches` | record, claim, match, dedupe, rate-limit, notify, digest, pause | `HousingAlerts` |
| Billing (`controllers/billingController.ts`, `db/billing/`) | `billing`, `billing_processed_sessions` | credit a session, follow a subscription, sync, cancel, reactivate, spend a credit | `Billing` |
| Reservations and viewings (`controllers/reservationController.ts`, `viewingController.ts`, `db/bookings/`) | `reservations`, `viewing_requests` | request, move, confirm or decline, cancel, prune | `Bookings` |
| Leases (`controllers/leaseController.ts`, `db/leases/`) | `leases`: status, signatures, terms; `lease_payment_schedule` | draw up, renew, edit, sign, bill, add a payment, terminate, delete | `Leases`, `PaymentSchedule` |
| Exchanges, applications, roommates | one status per pair of parties | request, accept, decline, withdraw | later |
| Addresses (`services/addressMerge.ts`, `housingMaterialization.ts`), ingestion (`services/ingestion/`), geocoding (`services/geocoding/`) | rows of the catalogue, caches | merge, upsert, expire, resolve | candidates |
| Conversations, evictions, commissions, search, uploads, frontend, parsers, shared types | | reads, single-row writes, rendering, text | not modelled |

How the moderation components interact:

    intake --(one transaction)--> moderation_reports + moderation_outbox
    dispatcher --claims--> report.submit   --> CrowdSource --> receipt on the report
    CrowdSource --webhook--> moderation_events + moderation_outbox (one transaction)
    dispatcher --claims--> decision.apply  --> ledger + object, then each report
    cron       --reads--> reports without an event --> moderation_outbox
    cron       --deletes--> expired outbox rows, expired listings

The dispatchers of all API processes share the table; the handlers are not
transactions, so every statement commits alone and a crash can fall between any
two of them. Delivery is at least once everywhere: from the queue to the
handlers, from Homiio to CrowdSource, and from CrowdSource to the receiver.

The other four are independent of it and of each other. The API processes write
facts; their cron runs sweeps and digests over them, several at a time:

    producers --> housing_domain_events <--claims-- sweep --> housing_alerts --> notification
    cron       --> digest --reads pending--> housing_alerts --> notification

Stripe delivers to any API process while the person's requests run in another,
and both end in `UPDATE billing`. The booking handlers are requests that read,
check and write the two tables with no transaction around the three. A signature
is a transaction that reads the lease without locking it and then updates it,
next to any other request about the same lease.

What makes each part correct:

* **outbox**: a row is worked on by one task at a time unless something goes
  wrong; whatever goes wrong, an outcome is written once, by the owner of the
  lease, about the attempt it was handed; nothing is marked done that nobody
  did; nothing is stranded.
* **enforcement**: an action of a revision takes effect once, whatever is
  redelivered; a failed effect is retried; the mode is obeyed; a restore gives
  back what the removal replaced; the newest revision decides.
* **pipeline**: no report is forgotten, no acknowledged decision is lost, a
  report is told a decision only after it was enforced and never an older one
  after a newer, and every report of the case is told.
* **alerts**: nobody is told twice of a change, or of one subject in a cooldown
  window; every fact that was processed reached those who watch; what the history
  says was delivered was, and stays so.
* **billing**: a session is credited once and once at least; the balance adds up;
  Plus is on with the subscription the row names and off after its end, and that
  subscription can always be found again.
* **bookings**: what a request finds taken it does not take; what was decided
  stays decided. Clashes are left to requests that overlap in time, and only to
  those.
* **leases**: a lease both have signed is active, whatever order they signed in;
  an active lease was signed by both and is billed once, for what it says; a
  schedule leaves no month of its term out and takes none twice.

## Modules

| module | what it is |
|---|---|
| `DurableWork` | what the outbox promises: owed, performed at least once, settled, abandoned or forgotten. No lease, worker or clock |
| `ModerationOutbox` | the lease queue, one action per statement, with time, crashes and retention |
| `ModerationOutboxProofs` | its safety, proved |
| `EnforcementPlan` | `enforcementPlan.ts` as a function from a decision to a set of actions |
| `ModerationEnforcement` | applying the revisions of one case to one object, statement by statement |
| `ModerationPipeline` | reports, deliveries, webhooks, decisions and reconciliation around a queue that is `DurableWork` |
| `ModerationEnforcementProofs` | that an action takes effect once and in a mode that allows it, proved |
| `ModerationOrderProofs` | what the object is when revisions are applied in order: failed effects are retried, a restore gives back, proved |
| `ModerationPipelineProofs` | the safety of the pipeline, and that it uses its queue as `DurableWork` promises, proved |
| `HousingAlerts` | facts, sweeps, alerts and digests, statement by statement, with stops anywhere |
| `PlusAccount` | what an account is to its owner: granted sessions, credits, Plus and its subscription. No webhook, transaction or request |
| `Billing` | one account's row between Stripe, the person and the crediting transactions |
| `Bookings` | stays and viewings of one listing under interleaving handlers |
| `PaymentSchedule` | `paymentSchedule.ts` as a function from the terms of a lease to its instalments, and what it is to be |
| `Leases` | leases under interleaving requests, signatures step by step |
| `HousingAlertsProofs`, `BillingProofs`, `BookingsProofs`, `LeasesProofs` | their safety, proved |
| `MC*` | the instances TLC checks |

`ModerationOutbox` **implements** `DurableWork` (`KeepsPromise` in a run,
`Implements` as a theorem for the safety part), and `ModerationPipeline`
**uses** it: its queue is a `DurableWork` (`UsesQueueAsPromised`). So the
pipeline is checked against the promise and not against the lease machinery.
`ModerationEnforcement` takes the same promise for its `decision.apply` events
(its own `UsesQueueAsPromised`), and details the step `ApplyDecisionEnforcement` of
the pipeline. `Billing` **implements** `PlusAccount` (`KeepsAccount`, a theorem).

An operator whose comment begins with "Faulty" is a plausible bug of the
definition after it. No specification uses it; it is what shows that a property
can fail.

### ModerationOutbox

* `row[e]` is the row with id `e`; `"absent"` is no row. `timer` is
  `available_at` of a pending row and `lease_until` of a processing one, as the
  time left; one tick is a third of a lease, the heartbeat's period. `attempts`
  is the column: the claim counts, and nothing else does.
* `older` is the order by `created_at`.
* `task[w]` is one dispatcher's loop: the event it holds with the attempt count
  it was handed, whether the handler has returned and how, and whether the
  heartbeat saw the lease go.
* `Claim` is the `UPDATE ... FOR UPDATE SKIP LOCKED`; `Renew` is one beat;
  `HandlerReturns`, `Complete`, `Release`, `WalkAway` are the rest of the loop.
  `Crash` is a process that dies, and equally a statement of the loop that
  throws: in both cases the row keeps its lease and the task forgets it.
* `mishaps` counts crashes, failed renewals, leases that run out under a live
  task and retention of unfinished work. Bounding what goes wrong, and not what
  the code does, leaves retries, overlaps and take-overs unbounded.

### ModerationEnforcement

* `decided[r]` is what revision `r` says, any of the instance's decisions; `type`
  and `mode` are fixed by the case and the deployment.
* `ledger[r][a]` is the row of `moderation_enforcements` for a revision and
  action: `"claimed"`, `"skipped"` with a reason, or `"applied"` with the state it
  replaced. `older` orders the restrict rows by `created_at`.
* `run[w]` is one run of `applyDecisionOutboxEvent`: the actions left and the
  position in `applyOne`. The plan is a set and a run picks its actions in any
  order; the code follows the list, so every order of the code is covered.
* `subject` is the state of the object. `Escalate` is the counter of community
  reports, `Delete` its author or the expiry sweep.
* Assumption: a statement that throws has not committed. A connection lost
  between commit and answer is a crash here only where the handler then stops.
* `hist` is history, in no guard: `calm` (no crash and no lost lease so far),
  `inOrder` (no revision was begun after a newer one or beside an older one),
  `raced` (the counter fired between a read and its write), `taken` (what the
  last removal replaced), `told` (the revisions whose run went on to the reports).
* No decision plans `unflag`, so that branch of `ReadLedger` is dead; it is
  written down because the code has it.

### ModerationPipeline

* `report[r]` is `localStatus`, whether `crowdSourceCaseId` is set, and the
  cached revision. All reports are about one object and join one case.
* `outbox` and `performed` are the variables of `DurableWork`. `Begin` takes an
  owed event; a second taker costs a mishap (a lost lease) and the first no
  longer owns it.
* `task[w]` is one dispatcher's handler: the event and where it is, `found` the
  reports it selected (`reports` in the code) and `todo` the part of its loop that
  is left.
* `inbox` and `receiver` are the dedupe row and the request of a revision's
  webhook. `sender`, `accepted` and `heard` are CrowdSource: it accepts a
  report at most once per external id, decides, and sends until it gets a 2xx.
* The snapshot, the envelope and the payloads have no content here: whether the
  object still exists (`content`) is all a delivery depends on.

### HousingAlerts

* An `Event` is a row of `housing_domain_events`; `ChangeOf` is its rule, subject
  and transition, which is what the idempotency key hashes together with the
  watch, so `alert` is indexed by watch and change. `TopicOf` is the rule and the
  subject, the columns of the cooldown index. `cooled` are the topics whose rule
  has a cooldown, any set of them.
* Time is the window an event occurred in, and for each watch the events that
  precede `alerts_active_from`. A rolling day of deliveries is any subset of what
  was delivered.
* `sweep[s]` and `digest[d]` are runs of `runHousingAlertSweep` and
  `deliverDueDigests`: what they have read and where they are. `SelectUnprocessed`
  and `StampProcessed` are the two statements of `claimUnprocessedEvents`, which
  no transaction holds together.
* A mishap is a process that dies, a statement that throws or a notification that
  was not written; a thrown error goes where the code catches it: the watch, the
  event, the bundle or the run.
* `told` counts notifications per alert. `hist` is history: `stopped`, the alerts
  a digest listed while another run had them (`raced`), who was to hear of an
  event when it was matched (`due`).

### Billing

* `row` is the account's row, `credited` its `billing_processed_sessions`, with
  the product a session was credited as. `call[p]` is a transaction of
  `creditCheckoutSession` between its claim and its commit; another claim of the
  same session waits for it. `req[h]` is a sync, cancel or reactivate request with
  what it read of the row and, once Stripe answered, what it will write.
* Stripe is `paid`, `sub`, `news` and `acked`: it sends what happened in any
  order, until it is acknowledged and possibly after that. `SubOf` is injective:
  a session starts its own subscription.
* `hist.stale` are subscriptions the row named when somebody turned Plus off by
  account: the person, or a request that had asked about another one;
  `hist.revived` those that were on again without Stripe's word; `hist.recorded`
  the sessions whose subscription was stored.

### Bookings

* `row` is both tables, `Stay` a half-open range of days and `Instant` a range of
  one; `"none"` is no row yet and `"pruned"` one that is gone.
* `handler[h]` is a request: what it read, where it is, and, as history, what was
  written since its first read that could matter to it (`since`). When it writes,
  `opened` or `decided` of its booking remembers that set.
* `AskForStay`, `AskForViewing`, `AskToMove`, `AskToDecide` and `AskToCancel` are
  the first reads; `CheckCalendar`, `CheckInstant` and `CheckDecision` the last;
  `Insert`, `Move`, `Decide` and `Cancel` the writes with their predicates.

### Leases and PaymentSchedule

* `row[l]` is a lease: its status, who has signed, its terms; `"none"` is no row
  yet and `"deleted"` one that is gone. `extra` are the leases with a payment the
  landlord added, `generated[l]` the terms each generated schedule was made from,
  so that two schedules, or one for other terms, can be told.
* `signing[h]` is a request to sign. `AskToSign` is the look at who is who,
  `SelectLease` the transaction's SELECT, `WriteSignature` its UPDATE with the
  count and the insertion, which the row lock of the UPDATE makes one step under
  READ COMMITTED. The other operations are one statement, which repeats in its
  predicate what was read before it, or writes the same whatever was.
* `since` and `missed` are history: what was written to the lease between the
  SELECT and the UPDATE of a signature.
* `PaymentSchedule` counts time in half days, so that a term may begin at a
  midnight or later, and keeps the calendar of `Date.UTC` and `setUTCMonth`:
  months of their lengths, leap years, and days past the end of a month that
  roll over. `Cursor(t)` is `currentDate` at each round of the loop, `Rounds(t)`
  how many it makes. `BilledThroughout` says without a cursor what a schedule is
  to be.

## Runs

| run | instance | what it shows |
|---|---|---|
| `outbox` | 2 events, 2 tasks, 2 attempts, leases of 2 ticks, 1 mishap, fair | `TypeOK`, `OverlapNeedsMishap`, `AttemptsAreBounded`, `DeadLetterIsEarned`, `NothingIsStranded`, and `KeepsPromise`: the queue implements `DurableWork` with its fairness |
| `enforcement` | 2 workers, 2 revisions, every kind of object and mode, 2 mishaps | `TypeOK`, `ClaimIsExclusive`, `AppliedOnce`, `RecordedBeforeTold`, `ModeIsObeyed`, `FailedEffectIsRetried`, `RestoreGivesBack`, `PlanIsSound` |
| `pipeline` | 2 reports, 2 revisions (the second final), 2 dispatchers, 1 mishap | `TypeOK`, `LocalOnlyStaysLocal`, `FoundReportsAreTold`, `AcknowledgedIsQueued`, `RevisionNeverGoesBack`, `DecidedStatusHolds`, `UsesQueueAsPromised` |
| `pipeline_liveness` | 2 reports, 1 revision, 1 dispatcher, 2 mishaps, fair | `NoReportIsForgotten` |
| `housing_alerts` | 2 facts about one listing, 1 watch, 2 sweeps, 1 digest, 2 windows, 1 setting changed, 1 mishap | `TypeOK`, `ToldOnce`, `HistoryIsTrue`, `ProcessedWasMatched`, `OutcomeStands` |
| `billing` | 2 Plus sessions with a subscription each, 2 transactions, 2 requests, 1 spender, 1 death, 2 moves, fair | `TypeOK`, `CreditsAddUp`, `PaidIsOn`, `EndedIsOff`, `WayBack`, `PaidIsGranted` |
| `bookings` | 2 stays, 2 viewings, 2 people, 3 days, 2 hours, 2 requests at once and 5 in all | `TypeOK`, `OnlyRacesClash`, `OnlyRacesConfirmTwice`, `DecisionsStand` |
| `leases` | 2 leases, 3 terms, 2 requests to sign at once, 7 requests in all | `TypeOK`, `BothSignedIsActive`, `ActiveIsBilledOnce`, which asks `BilledThroughout` of the terms billed; before it starts, `BilledThroughout` on 15,600 terms |
| `enforcement_reorder`, `enforcement_crash`, `webhook_crash`, `late_report` | the smallest instance that shows it | the four disagreements below |

**Bounds.** Two tasks are what every hazard here takes: the owner of a lease and
the one who takes it over, the run of a revision and the run of another. Two
attempts make a retry and a last attempt; with leases of two ticks a lease can
run partly down and be renewed. Two revisions make an order and its reverse,
two reports make a first and a late one. Two mishaps of the enforcement and of
`pipeline_liveness` allow a failure during the recovery from another. `LastRevision`, `NReports`, `MaxAttempts`, `LeaseTicks`,
`BackoffCap` and `MaxMishaps` are the only bounds. The
alerts need two changes of one subject for a cooldown and two runs for a race,
and `MaxSettings` and `MaxMishaps` bound what a person changes and what goes
wrong; two facts are also two copies of one change in the proofs, which hold for
any. In `Billing` two subscriptions are an old and a new one, `MaxDeaths` bounds
the transactions that die (they can be retried for ever otherwise) and `MaxMoves`
how often Stripe or the person changes their mind: an end and a request about it.
File credits come from manual activations, which take any product. In `Bookings`
five requests are two bookings, a decision on each and a cancellation or a move,
and three days are two stays that overlap, touch or lie apart. In `Leases` seven
requests draw a lease up, sign it twice at once and a third time, edit it, delete
or terminate it and add a payment, in any order; the other lease is its renewal.
The three terms differ in
what they are billed (rent and deposit, another rent, nothing at all). The terms
of `ManyTerms` begin on each midnight and noon of the first weeks of a leap year
and of the year after, and are of every length about one and two months.
Workers, events and requests are interchangeable, so the runs without fairness
use symmetry; those with fairness do not.

**Deadlock** is checked in the outbox run. In the others the system may really
come to rest: every report is filed, every decision applied, the object deleted.

**Fairness.** `FairSpec` of the outbox: the interval polls again and again, so a
claim that is possible time after time is made (strong fairness, since a task
that is shutting down does not poll); handlers end, because the client has
timeouts; a stopped task is replaced by the next deployment; the clock runs for
rows that nobody renews. Nothing is assumed of heartbeats, crashes, enqueues or
sweeps. `FairSpec` of the pipeline: each owed event is claimed in its turn (which
`NothingIsStranded` justifies), handlers and requests end, and cron runs
(`services/cron.ts:471`). Nobody has to report, decide, delete or fail.
`FairSpec` of the billing: Stripe delivers a completed session as long as it has
no 2xx (the webhook answers 500 to every failure, `billingController.ts:241-243`),
and a transaction that was opened ends; nobody has to confirm, sync or pay.
`HousingAlerts` and `Bookings` promise nothing eventual: an alert whose
notification failed is not tried again, and a pending stay waits for ever. Nor does
`Leases`: nobody has to sign.

## Where code and documentation disagree

1. **The newest decision need not stand** (`enforcement_reorder`). The webhook
   route says that the decision worker compares revisions and the enforcement
   service reverses what the superseded one did. Only the report's cache compares
   revisions; `applyOne` does not. If revision 2 (no violation) is applied before
   revision 1 (remove), the listing stays hidden while its reports say it was
   fine.
2. **A crash can swallow an enforcement** (`enforcement_crash`). The claim of an
   action commits before its effect. If the process dies in between, the retry
   sees a duplicate and completes the event. The comment in the catch block names
   precisely this outcome as the one to avoid.
3. **A crash can swallow a decision** (`webhook_crash`). The dedupe row commits
   before the transaction that queues the work. If the receiver dies in between,
   the redelivery is answered 2xx as a duplicate. `ModerationInboundService.ts`
   says that there are only two outcomes, recorded and queued, or released.
4. **A report can miss its decision** (`late_report`). The decision waits for
   some report to be linked to the case, not for all that CrowdSource has. A
   report whose receipt is written after the decision was applied stays at
   `submitted`. No failure is needed.

The following were met while modelling and have no run of their own; each is a
condition in a property or a line of a note.

5. **Failed alerts stay failed.** `alertRepository.ts:188` ("Retried by the next
   sweep") and `housingAlertMatcher.ts:441-443` say that a failed delivery is
   retried, as does `:293`. Digests list `pending` alerts only, and sweeps claim
   facts, not alerts. For the same reason an instant alert that was claimed and not
   sent (`housingAlertSweep.ts:191-194` leaves it to "the instant path") is never
   sent. `OutcomeStands` is about alerts that were delivered or held back and takes
   no side: a retry of failed ones would not break it.
6. **A claim lost to a crash is not harmless.** `domainEventRepository.ts:171`
   says that the event is picked up again. It was stamped with `processed_at` in
   the claim, so it is not (`hist.stopped` in `ProcessedWasMatched`).
7. **A duplicated digest is not free.** `housingAlertSweep.ts:26-28` and
   `cron.ts:367` say that a second run finds no pending rows. It does if it lists
   them before the first has marked them, and two API processes run the same cron
   (`hist.raced` in `ToldOnce` and `OutcomeStands`).
8. **Plus goes off at once.** `cancelSubscription` keeps Plus on to the end of the
   period that was paid (`billingController.ts:725-727`); the
   `customer.subscription.updated` that Stripe then sends has both of the fields
   the webhook asks for (`:210`), and turns it off.
9. **An end that overtakes its beginning is lost.** A deletion delivered before
   the session is credited matches no row; the credit then turns Plus on
   (`hist.revived` in `EndedIsOff`). A session that was activated by hand carries
   no subscription id, and the webhook that has it is then a duplicate.
10. **An answer about one subscription is written over another.** Sync, cancel and
   reactivate write by account (`hist.stale` in `PaidIsOn`). A payment that failed
   and then went through leaves Plus off until a sync.
11. **Two requests can take the same date.** "One active request per person per
   property" and "per instant" (`viewingReads.ts:18-23`), the nights of a stay, and
   the re-check of a confirmation are reads followed by a write
   (`OnlyRacesClash`, `OnlyRacesConfirmTwice`). A viewing that is moved between the
   owner's read and write is approved for the new instant; a guest's cancellation
   that was allowed for a pending stay cancels a confirmed one, whatever the
   policy; a pending stay nobody decides holds its nights for good; and declined
   bookings can still be cancelled.
12. **Signing at the same time does not activate.** `signLease` of the controller
   (`leaseController.ts:334-338`) says that the lease becomes active once both
   have signed. If both requests select the row before either updates it, each
   finds the other unsigned, and the lease waits, signed by both, until somebody
   signs again (`missed` in `BothSignedIsActive`).
13. **Signing asks for no status.** A terminated lease that is signed again is
   active again, and still billed as before. A second signature of the one who
   signed first, if it selected the row before the other signed, sends an active
   lease back to `pending_signatures`, where the landlord may edit or delete it:
   `leaseController.ts:300-303` says that signed leases cannot be deleted. The
   schedule then stays at the old terms (`missed` in `ActiveIsBilledOnce`). A
   payment the landlord adds before the activation takes the place of the whole
   schedule, which is generated only for a lease without any.
14. **A lease's tenant cannot be changed**, though `EDITABLE_LEASE_FIELDS` lists
   `tenantOxyUserId`: `toLeaseColumns` drops it.

Two properties are stated with a condition because the code needs it.
`DecidedStatusHolds` asks for no mishap: a delivery that is repeated after the
decision rewrites a closed report to `submitted`. `RestoreGivesBack` asks for no
mishap either: an effect that is written and then not recorded leaves a removal
whose previous state is lost.

## Proofs

`ModerationOutboxProofs` proves, for any set of events and tasks and any
`MaxAttempts`, `LeaseTicks`, `BackoffCap` and `MaxMishaps`:

| theorem | statement |
|---|---|
| `TypeCorrect` | `Spec => []TypeOK` |
| `AttemptCorrect` | `Spec => []AttemptIsCurrent`: a task was handed its row's own attempt count |
| `OverlapCorrect` | `Spec => []OverlapNeedsMishap` |
| `LimitCorrect` | `Spec => []AttemptsAreBounded` |
| `ProcessedCorrect` | `Spec => []ProcessedWasPerformed` |
| `OutcomeCorrect` | `Spec => OutcomeIsFinal`: no step but retention changes a finished row |
| `DeadLetterCorrect` | `Spec => DeadLetterIsEarned` |
| `Implements` | `Spec => Promise!Safety`, the refinement of `DurableWork` |

They rest on `NullAssumption` (the null values are not events or tasks) and
`BoundAssumption` (the bounds are naturals, the first three positive).

The argument is one inductive invariant, `OutboxInv` (theorem `OutboxInvariant`),
which relates the two halves of a lease, the row and the task. The properties
are not inductive by themselves. `OverlapNeedsMishap` needs to know that until
something goes wrong every task that holds an event owns its row's lease
(`CalmInv`), so that a second claim finds no due row. `ProcessedWasPerformed`
needs the link between an `ok` verdict held by the owner of the row and
`performed` (`VerdictInv`), which retention and a new insert of the same id break
on both sides at once. `AttemptIsCurrent` is stated for live leases and has to
hold for the row's owner with or without one (`CurrentInv`). `AttemptsAreBounded`
bounds what the claim counts by what went wrong, though no counter connects the
two: a failed attempt comes back only below the limit, so a row past it can come
due only by a lease that ran out, and that is one more mishap, by the task that
let it run out or died (`LimitInv`). `OutboxInvStep` has one step per action and under it one per conjunct; the action properties and the
refinement follow from `OutboxInv`, action by action.

`ModerationEnforcementProofs` proves, for any workers, revisions and
mishaps, and whatever the revisions say:

| theorem | statement |
|---|---|
| `EnforcementTypeCorrect` | `Spec => []TypeOK` |
| `ExclusiveCorrect` | `Spec => []ClaimIsExclusive` |
| `ModeCorrect` | `Spec => []ModeIsObeyed` |
| `AppliedOnceCorrect` | `Spec => AppliedOnce` |

They rest on `ConfigAssumption` (the bounds are naturals; the types and modes
are among those the code has). The inductive invariant is `EnforcementInv`.
`ClaimIsExclusive` is not inductive: that nobody else is at an action a run
claims follows from `ClaimInv`, by which everybody at an action has a row in the
ledger, so that a second claim finds it. The same conjunct gives `AppliedOnce`: a
run writes the row it is at, which is claimed and hence not applied.
`ModeIsObeyed` needs the decision of `modeAllows` carried from the claim to the
write (`GivingInv`), through the read of the ledger, where a restore may take its
target from an earlier removal; in such a mode there is none. The type
invariant needs `RecordInv`: an applied row has a status to give back. `OneRunMoves`
and `LedgerWritten` hold the parts that the twelve actions of a run share.

`ModerationOrderProofs` proves, under the same assumptions:

| theorem | statement |
|---|---|
| `PlanCorrect` | `Spec => []PlanIsSound` |
| `FailedEffectsAreRetried` | `Spec => []FailedEffectIsRetried` |
| `RestoresGiveBack` | `Spec => RestoreGivesBack` |
| `RecordsComeFirst` | `Spec => []RecordedBeforeTold` |
| `UsesTheQueueAsPromised` | `Spec => UsesQueueAsPromised`, a step simulation of `DurableWork` |

`PlanIsSound` is a fact about every plan (`PlansAreSound`). The others need an
invariant over runs and records (`OrderInv`), in two layers. Until a run crashes or
loses its lease (`CalmInv`, whatever the order), each revision has one run at most
(`AloneInv`); a claimed row is in that run's hands (`ClaimedInv`), and what it has
left behind is on record (`CarriedInv`), also after it is done (`DoneInv`) and from
the moment it goes on to the reports (`ToldInv`), which is `RecordedBeforeTold`: an
effect that threw has given its row back. While the revisions were applied in order
as well there is one run at a time, of the newest revision begun (`SingleInv`), and
the records of the newest revision determine
the object (`OutcomeInv`). `BackInv` adds, for a review, that `created_at` of the
restrict rows follows the revisions and that the newest of them says what the
last removal replaced, which is where a restore looks.

The last two theorems tie the enforcement to its neighbours. The pipeline takes the
whole of `applyDecisionEnforcement` for one step (`ApplyDecisionEnforcement`)
before the first report is written, and proves of that step that no report shows a
decision that was not enforced (`ConsequencesComeFirst`). `RecordsComeFirst` is what
makes the one step a fair account of the many: until something goes wrong, nothing
of a revision is still open when its run reaches the reports. And each of the two
uses the lease queue as `DurableWork`: that the queue keeps the promise and that
its users ask for no more is proved on both sides.

`ModerationPipelineProofs` proves, for any number of reports and revisions, any
dispatchers, batch size and number of mishaps:

| theorem | statement |
|---|---|
| `TypeCorrect` | `Spec => []TypeOK` |
| `LocalReportsStayLocal` | `Spec => []LocalOnlyStaysLocal` |
| `ConsequencesComeFirst` | `Spec => []EnforcedBeforeTold` |
| `EveryFoundReportIsTold` | `Spec => FoundReportsAreTold` |
| `DoneDecisionsWereTold` | `Spec => []DoneWasTold` |
| `AcknowledgementsHold` | `Spec => []AcknowledgedIsQueued` |
| `RevisionsOnlyGrow` | `Spec => RevisionNeverGoesBack` |
| `ClosedReportsStayClosed` | `Spec => DecidedStatusHolds` |
| `UsesTheQueueAsPromised` | `Spec => UsesQueueAsPromised`, a step simulation of `DurableWork` |

They rest on `PipelineAssumption`. `PipelineInv` says what a dispatcher in the
middle of a handler may rely on: it holds an event of the kind its step is about
(`HandInv`); an event has one owner, whose row is owed, and who performed it
before completing it (`OwnerInv`); reports show enforced decisions only
(`EnforcedInv`); a report that a run found shows the run's decision, or a newer one,
or the run has yet to write it (`FoundInv`); nothing is delivered for a
type without a provider (`LocalInv`); an acknowledged webhook is queued
(`WebhookInv`). `DecidedStatusHolds` takes `CalmInv`: until a mishap every
dispatcher owns its event, and a report names its case only when its delivery is
over, so that no delivery is left to rewrite it.

`HousingAlertsProofs` proves, for any watches, interests, changes, facts, sweeps,
digests, ceilings, windows and mishaps:

| theorem | statement |
|---|---|
| `TypeCorrect` | `Spec => []TypeOK` |
| `PeopleAreToldOnce` | `Spec => []ToldOnce` |
| `TheHistoryIsTrue` | `Spec => []HistoryIsTrue` |
| `ProcessedFactsWereMatched` | `Spec => []ProcessedWasMatched` |
| `OutcomesStand` | `Spec => OutcomeStands` |

They rest on `AlertsAssumption` (the null values are not values, the functions
have their domains). The invariant `AlertsInv` says where each run is (`ShapeInv`), that an alert in
anyone's hands or told has its row (`RowInv`), that an alert two runs hold is in
`hist.raced` (`ExclusiveInv`) and one that a single run holds is pending
(`PendingInv`), that a row says delivered exactly when its person was told
(`ToldInv`), that no two alerts of a subject and rule share a cooldown window
(`CooldownInv`), and that a fact which was claimed is settled for each watch or
still before a sweep (`DueInv`). `HistoryIsTrue` and `OutcomesStand` need the first
five, `ToldOnce` also `CooldownInv`, and `ProcessedWasMatched` needs `DueInv`.

`BillingProofs` proves, for any finite set of sessions and any subscriptions, transactions,
requests and spenders:

| theorem | statement |
|---|---|
| `TypeCorrect` | `Spec => []TypeOK` |
| `TheBalanceAddsUp` | `Spec => []CreditsAddUp` |
| `WhoPaysHasPlus` | `Spec => []PaidIsOn` |
| `TheEndTurnsPlusOff` | `Spec => []EndedIsOff` |
| `TheWayBackStays` | `Spec => []WayBack` |
| `ImplementsAccount` | `Spec => KeepsAccount`, a step simulation of `PlusAccount` |
| `PlusWasGranted` | `Spec => []Account!NoPlusUngranted` |

They rest on `BillingAssumption`; a session's own subscription and the finiteness
of `Session`, for the cardinality in `CreditsAddUp`, are the parts that matter.
`BillingInv` adds to the properties that a claimed session is in one transaction
and not credited, that the row names a subscription only if a session recorded
it, and what a request that is under way may still write.

`ImplementsAccount` maps the record to an account by its columns. The commit of a
crediting transaction is the grant (`CommitIsGrant`: nobody else has credited the
session since the claim), the guarded decrement is the spending, and whatever turns
Plus on again does so for a request of a subscriber, who still is one
(`AskersAreSubscribed`). Everything else, the claims and questions to Stripe, the
deaths and the late news about other subscriptions, changes nothing of the account.
`PlusWasGranted` is then an invariant of `PlusAccount`, proved there: nobody has Plus,
or a subscription that could bring it back, whom no session was granted it.

`BookingsProofs` proves, for any reservations, viewings, people, days, hours,
requests and `MaxRequests`:

| theorem | statement |
|---|---|
| `TypeCorrect` | `Spec => []TypeOK` |
| `WhatIsThereIsNotTaken` | `Spec => []OnlyRacesClash` |
| `TheRecheckCatchesTheRest` | `Spec => []OnlyRacesConfirmTwice` |
| `DecisionsAreFinal` | `Spec => DecisionsStand` |

They rest on `BookingsAssumption`. The invariant `BookingsInv` carries what a
request has found free from its read to its write: whatever takes it in the
meantime is in `since`, since each write adds itself to the requests it concerns.

`LeasesProofs` proves, for any leases, terms, requests and `MaxRequests`:

| theorem | statement |
|---|---|
| `TypeCorrect` | `Spec => []TypeOK` |
| `SignaturesActivate` | `Spec => []BothSignedIsActive` |
| `ActiveLeasesAreBilledOnce` | `Spec => []ActiveIsBilledOnce` |
| `EveryTermIsBilledThroughout` | `\A t \in Term : BilledThroughout(t)` |

They rest on `LeasesAssumption`. `LeasesInv` says what a request that selected a
lease still knows of it (`Knows`): a counterparty who had signed has signed, one
who had not has signed only if `since` says so, and the terms are the row's unless
they were edited since. `SignedLease` carries that over to the lease it writes:
when nothing was missed, a lease both have signed is active or terminated, hence
no longer editable, and its one schedule is for the terms it keeps.

What that schedule is, for every term there can be, is
`EveryTermIsBilledThroughout`; the run's 15,600 terms are a sample of it. The loop
is a recursion and the argument an induction, and the library's theorems for both
take operators, which the provers cannot instantiate; here they are about sets and
functions instead. `Induction` follows from the least number that is not in a set,
`Recursion` builds the function from its finite beginnings (`Defines`), and so the
days before a month and the cursor of the loop satisfy their equations
(`DaysBeforeIs`, `CursorIs`). Months have 28 to 31 days (`DaysInBounds`), hence an
instant is in one month (`InOneMonth`), and a round takes the cursor from its month
to a later one and on by 28 to 31 days, also where the due day rolls over
(`MonthLaterIs`, `RoundStep`), and to the due day of the very next month where every
month has that day (`EveryMonthHasItsRound`). The loop ends (`RoundsIs`). That no
schedule is empty but those of short terms without a deposit (`NothingToBill`) is
what `ActiveIsBilledOnce` says of a lease without one.

Only model-checked: liveness, which is `NothingIsStranded`, `NoReportIsForgotten`,
`PaidIsGranted` and the fairness part of `KeepsPromise`. It is beyond the prover.
Every invariant and every safety property over steps that a passing run checks is
proved as well. Proved and in no run of its own: `ProcessedWasPerformed`,
`EnforcedBeforeTold`, `DoneWasTold`, `AttemptIsCurrent`, `OutcomeIsFinal`, `KeepsAccount` with `NoPlusUngranted`, and the
enforcement's `UsesQueueAsPromised`. `KeepsPromise` contains the first of them.

## Not modelled

* The contents of reports, snapshots, decisions and errors; who may report what.
  A decision is always readable here; one that is not is dead-lettered at once.
* Events without a decision (`recordIgnoredEvent`) and the retention of
  `moderation_events`: ninety days is far beyond CrowdSource's day of retries.
* Changes of mode or of the provider registry during a run: both are fixed by a
  deployment.
* Of the alerts: deleting a watch, changing its area, rules or thresholds, the
  expiry of facts after ninety days, channels other than the mailbox, the ceiling
  on watches per fact, batch sizes, and wording. The daily ceilings are modelled,
  and no property bounds what is sent under them: they are counted before the
  notification, so concurrent sweeps exceed them.
* Of billing: the founder flag and the time stamps nothing branches on, and the
  diagnostic endpoints, which only read.
* Of bookings: prices, capacity and length of a stay, the contents of the host's
  calendar, the hours of a cancellation policy. Nothing writes `completed`.
* Of leases: who owns the property, co-tenants (no status waits for them),
  documents, inspections, and paying: nothing calls `recordPayment`. No code
  writes the statuses `expired` and `cancelled`.
* Batch sizes of a tick, which bound how many events one tick takes and not which.
* The other components of the table above, for the reasons given there and in
  `PROJECT.json`.

## Plan

1. Done: outbox, enforcement, pipeline, alerts, billing, bookings and leases, with
   the safety of each proved.
2. `ReviewEscalation`: the transaction that counts reports of a review under READ
   COMMITTED, which `Escalate` abstracts.
3. Home exchanges, which are bookings of two listings at once, with applications
   and roommates.
4. The deletion and expiry of watches and facts, next to sweeps and digests.
