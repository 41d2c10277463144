---------------------------- MODULE HousingAlerts ----------------------------
(***************************************************************************)
(* Housing watches: from a fact about a listing to the notification of the *)
(* person who watches its area. Facts (housing_domain_events) are claimed  *)
(* by sweeps (housingAlertSweep.ts, domainEventRepository.ts), matched     *)
(* against the watches (housingAlertMatcher.ts, watchMatching.ts), claimed *)
(* as alerts (housing_alerts, alertRepository.ts) and sent at once or in a *)
(* digest. Every API process runs the sweep and the digests from its cron  *)
(* (services/cron.ts), so several of each may run at a time.               *)
(*                                                                         *)
(* Nothing here is a transaction: each statement commits on its own and is *)
(* an action. A mishap is a process that dies, a statement that throws, or *)
(* a notification that could not be written; there are at most MaxMishaps. *)
(* The watches belong to one person; what others watch does not interfere. *)
(***************************************************************************)
EXTENDS Naturals, FiniteSets

CONSTANTS
    Event,          \* ids of facts
    Change,         \* a rule, a subject and a transition: what a key is made of
    Topic,          \* a rule and a subject
    ChangeOf,       \* the change an event reports
    TopicOf,        \* the rule and subject of a change
    Watch,
    Interest,       \* the changes a watch's area, rules and thresholds let in
    Cadence,        \* the cadences a person chooses from
    Sweeper, Digester,
    CadenceOf,      \* the digest a digester closes, daily or weekly
    NoEvent, NoWatch,
    WatchCap, UserCap,  \* MAX_DELIVERIES_PER_WATCH_PER_DAY, _PER_USER_PER_DAY
    Window,         \* cooldown windows
    NoWindow,       \* NULL
    MaxSettings,    \* how often the person changes a setting
    MaxMishaps

ASSUME AlertsAssumption ==
    /\ ChangeOf \in [Event -> Change]
    /\ TopicOf \in [Change -> Topic]
    /\ Interest \in [Watch -> SUBSET Change]
    /\ Cadence \subseteq {"off", "instant", "daily", "weekly"}
    /\ CadenceOf \in [Digester -> {"daily", "weekly"}]
    /\ NoEvent \notin Event
    /\ NoWatch \notin Watch
    /\ NoWindow \notin Window
    /\ WatchCap \in Nat /\ UserCap \in Nat
    /\ MaxSettings \in Nat /\ MaxMishaps \in Nat

Pair == Watch \X Change

VARIABLES
    cooled,     \* the topics whose rule has a cooldown: fixed
    event,      \* housing_domain_events
    watch,      \* saved_searches: cadence, mute and alerts_active_from
    alert,      \* housing_alerts: the row of each idempotency key
    told,       \* how many notifications said so, saturating at two
    sweep,      \* the runs of runHousingAlertSweep
    digest,     \* the runs of deliverDueDigests
    settings,   \* how many settings were changed
    mishaps,
    hist        \* history, in no guard

vars == <<cooled, event, watch, alert, told, sweep, digest, settings, mishaps, hist>>

\* window: the one occurred_at falls in.
EventRow == [state : {"none", "queued", "processed"},
             window : Window \cup {NoWindow}, backfill : BOOLEAN]

\* before: the facts that precede alerts_active_from.
WatchRow == [cadence : Cadence, muted : BOOLEAN, before : SUBSET Event]

AlertRow == [state : {"none", "pending", "delivered", "suppressed", "failed"},
             cooldownBucket : Window \cup {NoWindow}]

NoAlert == [state |-> "none", cooldownBucket |-> NoWindow]

\* A CandidateWatch, as read by findMatchingWatches.
Candidate == [watch : Watch, cadence : Cadence, muted : BOOLEAN]

Sweep == [at : {"idle", "claim", "events", "watches", "mute", "count", "limit",
                "send", "sent", "unsent"},
          todo : SUBSET Event, event : Event \cup {NoEvent},
          found : SUBSET Candidate, watch : Watch \cup {NoWatch}]

\* A sweep between two events.
Between(at, todo) ==
    [at |-> at, todo |-> todo, event |-> NoEvent, found |-> {}, watch |-> NoWatch]

IdleSweep == Between("idle", {})

Digest == [at : {"idle", "listed", "bundles", "mute", "sent", "unsent"},
           listed : SUBSET Pair, muted : SUBSET Watch,
           watch : Watch \cup {NoWatch}]

IdleDigest == [at |-> "idle", listed |-> {}, muted |-> {}, watch |-> NoWatch]

TypeOK ==
    /\ cooled \subseteq Topic
    /\ event \in [Event -> EventRow]
    /\ watch \in [Watch -> WatchRow]
    /\ alert \in [Pair -> AlertRow]
    /\ told \in [Pair -> 0..2]
    /\ sweep \in [Sweeper -> Sweep]
    /\ digest \in [Digester -> Digest]
    /\ settings \in 0..MaxSettings
    /\ mishaps \in 0..MaxMishaps
    /\ hist \in [stopped : BOOLEAN, raced : SUBSET Pair,
                 due : SUBSET (Event \X Watch), matched : SUBSET Event]

Init ==
    /\ cooled \in SUBSET Topic
    /\ event = [e \in Event |->
                    [state |-> "none", window |-> NoWindow, backfill |-> FALSE]]
    /\ watch \in [Watch -> [cadence : Cadence, muted : BOOLEAN, before : {{}}]]
    /\ alert = [p \in Pair |-> NoAlert]
    /\ told = [p \in Pair |-> 0]
    /\ sweep = [s \in Sweeper |-> IdleSweep]
    /\ digest = [d \in Digester |-> IdleDigest]
    /\ settings = 0
    /\ mishaps = 0
    /\ hist = [stopped |-> FALSE, raced |-> {}, due |-> {}, matched |-> {}]

-----------------------------------------------------------------------------
Queued == {e \in Event : event[e].state = "queued"}

\* Faulty CooldownBucketFor: a sentinel instead of NULL.
CooldownBucketOrZero(e) ==
    IF TopicOf[ChangeOf[e]] \in cooled THEN event[e].window ELSE 0

\* cooldownBucketFor: the window of the occurrence, NULL without a cooldown.
CooldownBucketFor(e) ==
    IF TopicOf[ChangeOf[e]] \in cooled THEN event[e].window ELSE NoWindow

\* The alerts a sweep or a digest has in its hands: claimed or listed and not
\* yet recorded as sent, failed or suppressed.
SweepPair(s) == <<sweep[s].watch, ChangeOf[sweep[s].event]>>

AtAlert == {"mute", "count", "limit", "send", "sent", "unsent"}

InSweep(s) == IF sweep[s].at \in AtAlert THEN {SweepPair(s)} ELSE {}

InDigest(d) == digest[d].listed

InHand == UNION ({InSweep(s) : s \in Sweeper} \cup {InDigest(d) : d \in Digester})

\* Where a sweep goes on after an event, and after a watch.
AfterEvent(todo) == IF todo = {} THEN IdleSweep ELSE Between("events", todo)

AtWatch(run, at, w) ==
    [at |-> at, todo |-> run.todo, event |-> run.event, found |-> run.found, watch |-> w]

AfterWatch(run) ==
    IF run.found = {} THEN AfterEvent(run.todo) ELSE AtWatch(run, "watches", NoWatch)

AtBundle(run, at, w) ==
    [at |-> at, listed |-> run.listed, muted |-> run.muted, watch |-> w]

\* Where a digest goes on after a bundle.
AfterBundle(run) ==
    LET rest == {p \in run.listed : p[1] # run.watch}
    IN  IF rest = {} THEN IdleDigest
        ELSE [at |-> "bundles", listed |-> rest, muted |-> run.muted, watch |-> NoWatch]

Bundle(d) == {p \in digest[d].listed : p[1] = digest[d].watch}

MarkAlert(p, state) == alert' = [alert EXCEPT ![p].state = state]

Tell(pairs) ==
    told' = [p \in Pair |->
                IF p \in pairs /\ told[p] < 2 THEN told[p] + 1 ELSE told[p]]

Mishap == mishaps < MaxMishaps /\ mishaps' = mishaps + 1

-----------------------------------------------------------------------------
(***************************************************************************)
(* Producers and people.                                                   *)
(***************************************************************************)

\* recordHousingDomainEvent, by one of the recordProperty... producers.
RecordDomainEvent(e, window, backfill) ==
    /\ event[e].state = "none"
    /\ event' = [event EXCEPT ![e] =
                    [state |-> "queued", window |-> window, backfill |-> backfill]]
    /\ UNCHANGED <<cooled, watch, alert, told, sweep, digest, settings, mishaps, hist>>

Setting == settings < MaxSettings /\ settings' = settings + 1

\* updateSavedSearch with a cadence: waking a silent watch restamps when it
\* started watching.
SetCadence(w, cadence) ==
    /\ watch[w].cadence # cadence
    /\ LET woken == watch[w].cadence = "off"
           past == {e \in Event : event[e].state # "none"}
       IN  watch' = [watch EXCEPT ![w] =
               [cadence |-> cadence, muted |-> watch[w].muted,
                before |-> IF woken THEN past ELSE watch[w].before]]
    /\ Setting
    /\ UNCHANGED <<cooled, event, alert, told, sweep, digest, mishaps, hist>>

\* updateSavedSearch with mutedUntil, and a mute that runs out.
SetMuted(w, muted) ==
    /\ watch[w].muted # muted
    /\ watch' = [watch EXCEPT ![w] =
           [cadence |-> watch[w].cadence, muted |-> muted, before |-> watch[w].before]]
    /\ Setting
    /\ UNCHANGED <<cooled, event, alert, told, sweep, digest, mishaps, hist>>

-----------------------------------------------------------------------------
(***************************************************************************)
(* A sweep: runHousingAlertSweep.                                          *)
(***************************************************************************)

SetSweep(s, run) == sweep' = [sweep EXCEPT ![s] = run]

\* claimUnprocessedEvents, the SELECT: the oldest 200, without those that
\* another SELECT has locked. It is no transaction, so its locks end with it.
SelectUnprocessed(s, batch) ==
    /\ sweep[s].at = "idle"
    /\ batch # {} /\ batch \subseteq Queued
    /\ SetSweep(s, Between("claim", batch))
    /\ UNCHANGED <<cooled, event, watch, alert, told, digest, settings, mishaps, hist>>

\* claimUnprocessedEvents, the UPDATE: by id, processed or not.
StampProcessed(s) ==
    /\ sweep[s].at = "claim"
    /\ event' = [e \in Event |->
                    IF e \in sweep[s].todo THEN [event[e] EXCEPT !.state = "processed"]
                    ELSE event[e]]
    /\ SetSweep(s, Between("events", sweep[s].todo))
    /\ UNCHANGED <<cooled, watch, alert, told, digest, settings, mishaps, hist>>

\* The watches that are on, started before the fact and care about the change.
\* History: who was to hear of a fact when it was matched.
Attentive(e) ==
    IF event[e].backfill THEN {}
    ELSE {w \in Watch : /\ watch[w].cadence # "off"
                        /\ e \notin watch[w].before
                        /\ ChangeOf[e] \in Interest[w]}

\* findMatchingWatches and the threshold of explanationFor.
MatchingWatches(e) ==
    {w \in Watch : /\ watch[w].cadence # "off"
                   /\ e \notin watch[w].before
                   /\ ChangeOf[e] \in Interest[w]}

\* matchDomainEvent up to the loop: a backfilled fact is refused.
MatchDomainEvent(s, e) ==
    /\ sweep[s].at = "events" /\ e \in sweep[s].todo
    /\ LET found == IF event[e].backfill THEN {}
                    ELSE {[watch |-> w, cadence |-> watch[w].cadence,
                           muted |-> watch[w].muted] : w \in MatchingWatches(e)}
       IN  SetSweep(s, AfterWatch(
               [at |-> "watches", todo |-> sweep[s].todo \ {e}, event |-> e,
                found |-> found, watch |-> NoWatch]))
    /\ hist' = [stopped |-> hist.stopped, raced |-> hist.raced,
                due |-> hist.due \cup ({e} \X Attentive(e)),
                matched |-> hist.matched \cup {e}]
    /\ UNCHANGED <<cooled, event, watch, alert, told, digest, settings, mishaps>>

\* Faulty Claimable: a change of a subject is news once and never again.
ClaimableOnce(w, e) ==
    \A c \in Change :
        TopicOf[c] = TopicOf[ChangeOf[e]] => alert[<<w, c>>].state = "none"

\* Faulty Claimable: no idempotency key.
ClaimableAgain(w, e) == TRUE

\* claimAlert: ON CONFLICT DO NOTHING on the idempotency key and on the cooldown
\* key, in which a NULL bucket conflicts with nothing.
Claimable(w, e) ==
    /\ alert[<<w, ChangeOf[e]>>].state = "none"
    /\ \A c \in Change :
           /\ TopicOf[c] = TopicOf[ChangeOf[e]]
           /\ alert[<<w, c>>].state # "none"
           => \/ alert[<<w, c>>].cooldownBucket # CooldownBucketFor(e)
              \/ CooldownBucketFor(e) = NoWindow

\* claimAlert and the first decisions of deliverAlert, which only look at what
\* was read with the watch. A daily or weekly alert is left pending.
ClaimAlert(s, c) ==
    /\ sweep[s].at = "watches" /\ c \in sweep[s].found
    /\ LET e == sweep[s].event
           rest == [sweep[s] EXCEPT !.found = sweep[s].found \ {c}]
           next == IF c.muted THEN "mute" ELSE "count"
       IN  IF Claimable(c.watch, e)
           THEN /\ alert' = [alert EXCEPT ![<<c.watch, ChangeOf[e]>>] =
                       [state |-> "pending", cooldownBucket |-> CooldownBucketFor(e)]]
                /\ IF c.muted \/ c.cadence = "instant"
                   THEN SetSweep(s, AtWatch(rest, next, c.watch))
                   ELSE SetSweep(s, AfterWatch(rest))
           ELSE /\ SetSweep(s, AfterWatch(rest))
                /\ UNCHANGED alert
    /\ UNCHANGED <<cooled, event, watch, told, digest, settings, mishaps, hist>>

Delivered == {p \in Pair : alert[p].state = "delivered"}

\* deliverAlert: countDeliveredSince, of this watch and of the person. recent are
\* the deliveries of the rolling day.
CountDeliveries(s, recent) ==
    /\ sweep[s].at = "count"
    /\ recent \subseteq Delivered
    /\ LET ofWatch == {p \in recent : p[1] = sweep[s].watch}
           over == Cardinality(ofWatch) >= WatchCap \/ Cardinality(recent) >= UserCap
       IN  SetSweep(s, [sweep[s] EXCEPT !.at = IF over THEN "limit" ELSE "send"])
    /\ UNCHANGED <<cooled, event, watch, alert, told, digest, settings, mishaps, hist>>

\* markAlertSuppressed, for 'muted' or for 'rate_limited'.
Suppress(s) ==
    /\ sweep[s].at \in {"mute", "limit"}
    /\ MarkAlert(SweepPair(s), "suppressed")
    /\ SetSweep(s, AfterWatch(sweep[s]))
    /\ UNCHANGED <<cooled, event, watch, told, digest, settings, mishaps, hist>>

\* createForUser, which answers null when the mailbox could not be written.
Notify(s) ==
    /\ sweep[s].at = "send"
    /\ Tell({SweepPair(s)})
    /\ SetSweep(s, [sweep[s] EXCEPT !.at = "sent"])
    /\ UNCHANGED <<cooled, event, watch, alert, digest, settings, mishaps, hist>>

NotifyFails(s) ==
    /\ sweep[s].at = "send"
    /\ Mishap
    /\ SetSweep(s, [sweep[s] EXCEPT !.at = "unsent"])
    /\ UNCHANGED <<cooled, event, watch, alert, told, digest, settings, hist>>

\* deliverAlert with one: markAlertDelivered.
MarkSent(s) ==
    /\ sweep[s].at = "sent"
    /\ MarkAlert(SweepPair(s), "delivered")
    /\ SetSweep(s, AfterWatch(sweep[s]))
    /\ UNCHANGED <<cooled, event, watch, told, digest, settings, mishaps, hist>>

\* Faulty MarkUnsent: does not look at what createForUser answered.
MarkUnsentDelivered(s) ==
    /\ sweep[s].at = "unsent"
    /\ MarkAlert(SweepPair(s), "delivered")
    /\ SetSweep(s, AfterWatch(sweep[s]))
    /\ UNCHANGED <<cooled, event, watch, told, digest, settings, mishaps, hist>>

\* deliverAlert without a notification: markAlertFailed.
MarkUnsent(s) ==
    /\ sweep[s].at = "unsent"
    /\ MarkAlert(SweepPair(s), "failed")
    /\ SetSweep(s, AfterWatch(sweep[s]))
    /\ UNCHANGED <<cooled, event, watch, told, digest, settings, mishaps, hist>>

\* A statement throws. Before the matching the sweep ends; in the matching of an
\* event it goes on with the next event; at a watch with the next watch.
SweepThrows(s) ==
    /\ sweep[s].at # "idle"
    /\ Mishap
    /\ \/ sweep[s].at = "claim" /\ SetSweep(s, IdleSweep)
       \/ /\ sweep[s].at = "events"
          /\ \E e \in sweep[s].todo : SetSweep(s, AfterEvent(sweep[s].todo \ {e}))
       \/ /\ sweep[s].at = "watches"
          /\ \E c \in sweep[s].found :
                SetSweep(s, AfterWatch([sweep[s] EXCEPT !.found = sweep[s].found \ {c}]))
       \/ sweep[s].at \in AtAlert /\ SetSweep(s, AfterWatch(sweep[s]))
    /\ hist' = [hist EXCEPT !.stopped = TRUE]
    /\ UNCHANGED <<cooled, event, watch, alert, told, digest, settings>>

SweepCrashes(s) ==
    /\ sweep[s].at # "idle"
    /\ Mishap
    /\ SetSweep(s, IdleSweep)
    /\ hist' = [hist EXCEPT !.stopped = TRUE]
    /\ UNCHANGED <<cooled, event, watch, alert, told, digest, settings>>

-----------------------------------------------------------------------------
(***************************************************************************)
(* A digest: deliverDueDigests.                                            *)
(***************************************************************************)

SetDigest(d, run) == digest' = [digest EXCEPT ![d] = run]

\* Faulty Pending: what was held back is listed again.
PendingOrSuppressed == {p \in Pair : alert[p].state \in {"pending", "suppressed"}}

\* listPendingAlerts
Pending == {p \in Pair : alert[p].state = "pending"}

ListPending(d) ==
    /\ digest[d].at = "idle" /\ Pending # {}
    /\ SetDigest(d, [at |-> "listed", listed |-> Pending, muted |-> {}, watch |-> NoWatch])
    /\ hist' = [hist EXCEPT !.raced = hist.raced \cup (Pending \cap InHand)]
    /\ UNCHANGED <<cooled, event, watch, alert, told, sweep, settings, mishaps>>

\* The watches of this digest's cadence.
OnCadence(d) == {w \in Watch : watch[w].cadence = CadenceOf[d]}

\* The second read: the watches, and the bundles that are made of them.
ReadWatches(d) ==
    /\ digest[d].at = "listed"
    /\ LET bundled == {p \in digest[d].listed : p[1] \in OnCadence(d)}
       IN  SetDigest(d, IF bundled = {} THEN IdleDigest
                        ELSE [at |-> "bundles", listed |-> bundled,
                              muted |-> {w \in OnCadence(d) : watch[w].muted},
                              watch |-> NoWatch])
    /\ UNCHANGED <<cooled, event, watch, alert, told, sweep, settings, mishaps, hist>>

\* One bundle: suppressed if the watch is paused, sent as one notification if
\* not.
SkipBundle(d, w) ==
    /\ digest[d].at = "bundles" /\ w \in digest[d].muted
    /\ \E p \in digest[d].listed : p[1] = w
    /\ SetDigest(d, AtBundle(digest[d], "mute", w))
    /\ UNCHANGED <<cooled, event, watch, alert, told, sweep, settings, mishaps, hist>>

SendBundle(d, w) ==
    /\ digest[d].at = "bundles" /\ w \notin digest[d].muted
    /\ LET bundle == {p \in digest[d].listed : p[1] = w}
       IN  bundle # {} /\ Tell(bundle)
    /\ SetDigest(d, AtBundle(digest[d], "sent", w))
    /\ UNCHANGED <<cooled, event, watch, alert, sweep, settings, mishaps, hist>>

SendBundleFails(d, w) ==
    /\ digest[d].at = "bundles" /\ w \notin digest[d].muted
    /\ \E p \in digest[d].listed : p[1] = w
    /\ Mishap
    /\ SetDigest(d, AtBundle(digest[d], "unsent", w))
    /\ UNCHANGED <<cooled, event, watch, alert, told, sweep, settings, hist>>

\* One of the loops over alertIds: an alert is marked suppressed, delivered or
\* failed, whatever it is by then.
MarkBundled(d, p) ==
    /\ p \in Bundle(d)
    /\ \/ digest[d].at = "mute" /\ MarkAlert(p, "suppressed")
       \/ digest[d].at = "sent" /\ MarkAlert(p, "delivered")
       \/ digest[d].at = "unsent" /\ MarkAlert(p, "failed")
    /\ LET rest == [digest[d] EXCEPT !.listed = digest[d].listed \ {p}]
       IN  SetDigest(d, IF Bundle(d) = {p} THEN AfterBundle(rest) ELSE rest)
    /\ UNCHANGED <<cooled, event, watch, told, sweep, settings, mishaps, hist>>

\* A statement throws: the reads end the run, the others end their bundle.
DigestThrows(d) ==
    /\ digest[d].at # "idle"
    /\ Mishap
    /\ IF digest[d].at = "listed" THEN SetDigest(d, IdleDigest)
       ELSE \E w \in Watch :
                /\ digest[d].at = "bundles" \/ w = digest[d].watch
                /\ \E p \in digest[d].listed : p[1] = w
                /\ SetDigest(d, AfterBundle(AtBundle(digest[d], "bundles", w)))
    /\ hist' = [hist EXCEPT !.stopped = TRUE]
    /\ UNCHANGED <<cooled, event, watch, alert, told, sweep, settings>>

DigestCrashes(d) ==
    /\ digest[d].at # "idle"
    /\ Mishap
    /\ SetDigest(d, IdleDigest)
    /\ hist' = [hist EXCEPT !.stopped = TRUE]
    /\ UNCHANGED <<cooled, event, watch, alert, told, sweep, settings>>

-----------------------------------------------------------------------------
SweepStep(s) ==
    \/ \E batch \in SUBSET Queued : SelectUnprocessed(s, batch)
    \/ StampProcessed(s)
    \/ \E e \in Event : MatchDomainEvent(s, e)
    \/ \E c \in sweep[s].found : ClaimAlert(s, c)
    \/ \E recent \in SUBSET Delivered : CountDeliveries(s, recent)
    \/ Suppress(s) \/ Notify(s) \/ MarkSent(s) \/ MarkUnsent(s)

DigestStep(d) ==
    \/ ListPending(d) \/ ReadWatches(d)
    \/ \E w \in Watch : SkipBundle(d, w) \/ SendBundle(d, w)
    \/ \E p \in Bundle(d) : MarkBundled(d, p)

Next ==
    \/ \E e \in Event, x \in Window, b \in BOOLEAN : RecordDomainEvent(e, x, b)
    \/ \E w \in Watch : \/ \E c \in Cadence : SetCadence(w, c)
                        \/ \E b \in BOOLEAN : SetMuted(w, b)
    \/ \E s \in Sweeper :
           SweepStep(s) \/ NotifyFails(s) \/ SweepThrows(s) \/ SweepCrashes(s)
    \/ \E d \in Digester :
           \/ DigestStep(d)
           \/ \E w \in Watch : SendBundleFails(d, w)
           \/ DigestThrows(d) \/ DigestCrashes(d)

Spec == Init /\ [][Next]_vars

-----------------------------------------------------------------------------
(***************************************************************************)
(* Properties.                                                             *)
(***************************************************************************)

\* A person is told of a change at most once, and at most once of one subject
\* and rule in a cooldown window, however often the fact is recorded, claimed
\* and matched; unless a run was stopped halfway or a digest listed an alert
\* that another run had in its hands (housingAlertMatcher.ts:11-21,
\* db/schema/watches.ts:26-52).
ToldOnce ==
    \A p, q \in Pair :
        /\ told[p] > 0 /\ told[q] > 0 /\ p[1] = q[1]
        /\ TopicOf[p[2]] = TopicOf[q[2]]
        /\ \/ p = q
           \/ /\ alert[p].cooldownBucket = alert[q].cooldownBucket
              /\ alert[p].cooldownBucket # NoWindow
        /\ ~hist.stopped /\ {p, q} \cap hist.raced = {}
        => p = q /\ told[p] = 1

\* The history a person reads is true: an alert that nobody is working on is
\* delivered if and only if a notification said so, except where a run was
\* stopped or raced (housingAlertMatcher.ts:23-36).
HistoryIsTrue ==
    ~hist.stopped =>
        \A p \in Pair \ (InHand \cup hist.raced) :
            alert[p].state = "delivered" <=> told[p] > 0

\* A fact that is marked processed and that no sweep is working on was matched,
\* and every watch that was to hear of it then has an alert about it, or about
\* its subject in its cooldown window; unless a run was stopped halfway
\* (domainEventRepository.ts:165-202, housingAlertMatcher.ts:23-29).
ProcessedWasMatched ==
    ~hist.stopped =>
        \A e \in Event :
            /\ event[e].state = "processed"
            /\ \A s \in Sweeper : e \notin sweep[s].todo \cup {sweep[s].event}
            => /\ e \in hist.matched
               /\ \A w \in Watch : <<e, w>> \in hist.due =>
                      \E c \in Change :
                          /\ alert[<<w, c>>].state # "none"
                          /\ \/ c = ChangeOf[e]
                             \/ /\ TopicOf[c] = TopicOf[ChangeOf[e]]
                                /\ TopicOf[c] \in cooled
                                /\ alert[<<w, c>>].cooldownBucket = event[e].window

\* What was decided about an alert stands: what a pause or a limit held back is not
\* replayed as news, a delivery is not taken back, unless two runs had the alert in
\* their hands (housingAlertMatcher.ts:28-36, alertRepository.ts:153-186). A failure
\* is no decision: the comments promise to try again (alertRepository.ts:188,
\* housingAlertMatcher.ts:293, 441-443), no code does, and nothing is said of it here.
OutcomeStands ==
    [][\A p \in Pair :
           /\ alert[p].state \in {"delivered", "suppressed"}
           /\ p \notin hist.raced
           => alert'[p] = alert[p]]_vars
=============================================================================
