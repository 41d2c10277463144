------------------------- MODULE HousingAlertsProofs -------------------------
(***************************************************************************)
(* Theorems about HousingAlerts, for any facts, watches, sweeps, digests   *)
(* and any number of mishaps and changed settings.                         *)
(*                                                                         *)
(* The inductive invariant AlertsInv says who has an alert in hand and     *)
(* what its row and the mailbox then say:                                  *)
(*   - whoever has an alert in hand, its row exists; two runs have it only *)
(*     if it is in hist.raced; in one pair of hands it is pending;         *)
(*   - a row in nobody's hands is delivered exactly if it was told once;   *)
(*     in hand it was told exactly by a run that is about to say so;       *)
(*   - no two rows of a subject and rule share a window;                   *)
(*   - a fact that was matched is settled for each watch it was due to, or *)
(*     a sweep still has that watch before it.                             *)
(***************************************************************************)
EXTENDS HousingAlerts, TLAPS

SweepShape(run) ==
    /\ run.at = "idle" => run = IdleSweep
    /\ run.at \in {"claim", "events"} => run.event = NoEvent /\ run.found = {}
    /\ run.at \in AtAlert \cup {"watches"} => run.event \in Event
    /\ run.at \in AtAlert => run.watch \in Watch

ShapeInv ==
    /\ \A s \in Sweeper : SweepShape(sweep[s])
    /\ \A d \in Digester : digest[d].at = "idle" => digest[d].listed = {}

KnownInv ==
    /\ \A s \in Sweeper : \A e \in Event :
           e \in sweep[s].todo \/ e = sweep[s].event => event[e].state # "none"
    /\ \A e \in Event, w \in Watch : <<e, w>> \in hist.due => event[e].state # "none"

RowInv == \A p \in Pair :
    /\ \A s \in Sweeper : p \in InSweep(s) => alert[p].state # "none"
    /\ \A d \in Digester : p \in InDigest(d) => alert[p].state # "none"
    /\ told[p] > 0 => alert[p].state # "none"

ExclusiveInv == \A p \in Pair :
    /\ \A s, t \in Sweeper : p \in InSweep(s) /\ p \in InSweep(t) => s = t
    /\ \A s \in Sweeper, d \in Digester :
           p \in InSweep(s) /\ p \in InDigest(d) => p \in hist.raced
    /\ \A d, f \in Digester :
           p \in InDigest(d) /\ p \in InDigest(f) /\ d # f => p \in hist.raced

PendingInv == \A p \in Pair : p \notin hist.raced =>
    /\ \A s \in Sweeper : p \in InSweep(s) => alert[p].state = "pending"
    /\ \A d \in Digester : p \in InDigest(d) => alert[p].state = "pending"

Announced(at) == IF at THEN 1 ELSE 0

ToldInv == ~hist.stopped => \A p \in Pair : p \notin hist.raced =>
    /\ \A s \in Sweeper : p \in InSweep(s) => told[p] = Announced(sweep[s].at = "sent")
    /\ \A d \in Digester : p \in InDigest(d) =>
           told[p] = Announced(digest[d].at = "sent" /\ p[1] = digest[d].watch)
    /\ (/\ \A s \in Sweeper : p \notin InSweep(s)
        /\ \A d \in Digester : p \notin InDigest(d))
           => told[p] = Announced(alert[p].state = "delivered")

CooldownInv == \A p, q \in Pair :
    /\ p[1] = q[1] /\ TopicOf[p[2]] = TopicOf[q[2]]
    /\ alert[p].state # "none" /\ alert[q].state # "none"
    /\ alert[p].cooldownBucket = alert[q].cooldownBucket
    /\ alert[p].cooldownBucket # NoWindow
    => p = q

\* The watch has an alert about the fact, or about its subject in its window.
Answered(e, w) ==
    \E c \in Change :
        /\ alert[<<w, c>>].state # "none"
        /\ \/ c = ChangeOf[e]
           \/ /\ TopicOf[c] = TopicOf[ChangeOf[e]]
              /\ TopicOf[c] \in cooled
              /\ alert[<<w, c>>].cooldownBucket = event[e].window

Before(e, w) ==
    \E s \in Sweeper : sweep[s].event = e /\ \E c \in sweep[s].found : c.watch = w

DueInv == ~hist.stopped =>
    /\ \A e \in Event, w \in Watch : <<e, w>> \in hist.due =>
           Answered(e, w) \/ Before(e, w)
    /\ \A e \in Event : event[e].state = "processed" =>
           e \in hist.matched \/ \E s \in Sweeper : e \in sweep[s].todo

AlertsInv ==
    /\ TypeOK /\ ShapeInv /\ KnownInv /\ RowInv /\ ExclusiveInv /\ PendingInv
    /\ ToldInv /\ CooldownInv /\ DueInv

-----------------------------------------------------------------------------
(***************************************************************************)
(* What the steps of a run look like.                                      *)
(***************************************************************************)

\* After an event a sweep has nothing but the events that are left.
LEMMA AfterEventIs ==
    ASSUME NEW todo \in SUBSET Event
    PROVE  /\ AfterEvent(todo) \in Sweep
           /\ SweepShape(AfterEvent(todo))
           /\ AfterEvent(todo).at \notin AtAlert
           /\ AfterEvent(todo).todo = todo
           /\ AfterEvent(todo).found = {}
           /\ AfterEvent(todo).event = NoEvent
  BY DEF AfterEvent, Sweep, SweepShape, IdleSweep, Between, AtAlert

\* After a watch a sweep keeps the watches and the events that are left, and the
\* event as long as there are watches.
LEMMA AfterWatchIs ==
    ASSUME NEW r \in Sweep, r.event \in Event
    PROVE  /\ AfterWatch(r) \in Sweep
           /\ SweepShape(AfterWatch(r))
           /\ AfterWatch(r).at \notin AtAlert
           /\ AfterWatch(r).todo = r.todo
           /\ AfterWatch(r).found = r.found
           /\ AfterWatch(r).event \in {r.event, NoEvent}
           /\ r.found # {} => AfterWatch(r).event = r.event
<1>1. CASE r.found = {}
  BY <1>1, AfterEventIs DEF AfterWatch, Sweep
<1>2. CASE r.found # {}
  BY <1>2 DEF AfterWatch, AtWatch, Sweep, SweepShape, AtAlert
<1>3. QED BY <1>1, <1>2

\* After a bundle a digest has the alerts of the other watches.
LEMMA AfterBundleIs ==
    ASSUME NEW r \in Digest
    PROVE  /\ AfterBundle(r) \in Digest
           /\ AfterBundle(r).at \in {"idle", "bundles"}
           /\ AfterBundle(r).at = "idle" => AfterBundle(r).listed = {}
           /\ AfterBundle(r).listed = {p \in r.listed : p[1] # r.watch}
  BY DEF AfterBundle, Digest, IdleDigest, Pair

\* A sweep goes on as run, a digest goes on as run: what the others have in hand
\* is as it was.
SweepMoved(s, run) ==
    /\ run \in Sweep
    /\ sweep' \in [Sweeper -> Sweep] /\ ShapeInv'
    /\ sweep'[s] = run
    /\ \A t \in Sweeper : t # s => sweep'[t] = sweep[t]
    /\ \A p \in Pair :
           /\ p \in InSweep(s)' <=>
                  run.at \in AtAlert /\ p = <<run.watch, ChangeOf[run.event]>>
           /\ \A t \in Sweeper : t # s => (p \in InSweep(t)' <=> p \in InSweep(t))
           /\ \A d \in Digester : p \in InDigest(d)' <=> p \in InDigest(d)

DigestMoved(d, run) ==
    /\ run \in Digest
    /\ digest' \in [Digester -> Digest] /\ ShapeInv'
    /\ digest'[d] = run
    /\ \A f \in Digester : f # d => digest'[f] = digest[f]
    /\ \A p \in Pair :
           /\ p \in InDigest(d)' <=> p \in run.listed
           /\ \A f \in Digester : f # d => (p \in InDigest(f)' <=> p \in InDigest(f))
           /\ \A s \in Sweeper : p \in InSweep(s)' <=> p \in InSweep(s)

LEMMA SweepMoves ==
    ASSUME AlertsInv, NEW s \in Sweeper, NEW run \in Sweep, SweepShape(run),
           SetSweep(s, run), UNCHANGED digest
    PROVE  SweepMoved(s, run)
<1>1. /\ sweep' \in [Sweeper -> Sweep]
      /\ sweep'[s] = run
      /\ \A t \in Sweeper : t # s => sweep'[t] = sweep[t]
  BY DEF AlertsInv, TypeOK, SetSweep
<1>2. ShapeInv'
  BY <1>1 DEF AlertsInv, ShapeInv
<1>3. QED BY <1>1, <1>2 DEF SweepMoved, InSweep, SweepPair, InDigest

LEMMA DigestMoves ==
    ASSUME AlertsInv, NEW d \in Digester, NEW run \in Digest,
           run.at = "idle" => run.listed = {},
           SetDigest(d, run), UNCHANGED sweep
    PROVE  DigestMoved(d, run)
<1>1. /\ digest' \in [Digester -> Digest]
      /\ digest'[d] = run
      /\ \A f \in Digester : f # d => digest'[f] = digest[f]
  BY DEF AlertsInv, TypeOK, SetDigest
<1>2. ShapeInv'
  BY <1>1 DEF AlertsInv, ShapeInv
<1>3. QED BY <1>1, <1>2 DEF DigestMoved, InSweep, SweepPair, InDigest

-----------------------------------------------------------------------------
LEMMA AlertsInvInit == Init => AlertsInv
<1> SUFFICES ASSUME Init PROVE AlertsInv OBVIOUS
<1> USE AlertsAssumption
<1>1. TypeOK
  BY DEF Init, TypeOK, EventRow, WatchRow, AlertRow, NoAlert, Sweep, IdleSweep, Between, Digest,
         IdleDigest
<1>2. /\ \A s \in Sweeper : sweep[s] = IdleSweep
      /\ \A d \in Digester : digest[d] = IdleDigest
      /\ \A p \in Pair : told[p] = 0 /\ alert[p].state = "none"
  BY DEF Init, NoAlert
<1>3. /\ \A s \in Sweeper : InSweep(s) = {}
      /\ \A d \in Digester : InDigest(d) = {}
  BY <1>2 DEF InSweep, InDigest, IdleSweep, Between, IdleDigest, AtAlert
<1>4. ShapeInv /\ KnownInv
  BY <1>2 DEF Init, ShapeInv, KnownInv, SweepShape, IdleSweep, Between, IdleDigest,
         AtAlert
<1>5. RowInv /\ ExclusiveInv /\ PendingInv /\ ToldInv /\ CooldownInv
  BY <1>2, <1>3 DEF RowInv, ExclusiveInv, PendingInv, ToldInv, CooldownInv, Announced
<1>6. DueInv
  BY DEF Init, DueInv
<1>7. QED BY <1>1, <1>4, <1>5, <1>6 DEF AlertsInv

-----------------------------------------------------------------------------
(***************************************************************************)
(* One lemma per kind of step.                                             *)
(***************************************************************************)

\* A step that neither moves a run nor changes an alert keeps what is said of
\* runs and alerts.
LEMMA NothingInHandMoves ==
    ASSUME AlertsInv, UNCHANGED <<sweep, digest, alert, told, hist>>
    PROVE  ShapeInv' /\ RowInv' /\ ExclusiveInv' /\ PendingInv' /\ ToldInv' /\ CooldownInv'
  BY DEF AlertsInv, ShapeInv, RowInv, ExclusiveInv, PendingInv, ToldInv, CooldownInv,
         InSweep, SweepPair, InDigest

\* A fact whose window is settled keeps its answers.
LEMMA AnswersStay ==
    ASSUME UNCHANGED cooled, NEW e \in Event, NEW w \in Watch, Answered(e, w),
           event'[e].window = event[e].window,
           \A p \in Pair : alert[p].state # "none" =>
               /\ alert'[p].state # "none"
               /\ alert'[p].cooldownBucket = alert[p].cooldownBucket
    PROVE  Answered(e, w)'
  BY DEF Answered, Pair

LEMMA RecordKeeps ==
    ASSUME AlertsInv, NEW e \in Event, NEW x \in Window, NEW b \in BOOLEAN,
           RecordDomainEvent(e, x, b)
    PROVE  AlertsInv'
<1>1. TypeOK'
  BY DEF AlertsInv, TypeOK, RecordDomainEvent, EventRow
<1>2. KnownInv'
  BY DEF AlertsInv, KnownInv, TypeOK, RecordDomainEvent
<1>3. \A f \in Event : f # e => event'[f] = event[f]
  BY DEF AlertsInv, TypeOK, RecordDomainEvent
<1>4. \A f \in Event, w \in Watch : <<f, w>> \in hist.due => f # e
  BY DEF AlertsInv, KnownInv, RecordDomainEvent
<1>5. DueInv'
  BY <1>3, <1>4, AnswersStay DEF AlertsInv, DueInv, TypeOK, Before, RecordDomainEvent
<1>6. QED
  BY <1>1, <1>2, <1>5, NothingInHandMoves DEF AlertsInv, RecordDomainEvent

\* A step of the person.
LEMMA SettingKeeps ==
    ASSUME AlertsInv, NEW w \in Watch,
           \/ \E c \in Cadence : SetCadence(w, c)
           \/ \E b \in BOOLEAN : SetMuted(w, b)
    PROVE  AlertsInv'
<1>1. TypeOK'
  <2> USE AlertsAssumption
  <2>1. ASSUME NEW c \in Cadence, SetCadence(w, c) PROVE TypeOK'
    BY <2>1 DEF AlertsInv, TypeOK, SetCadence, Setting, WatchRow
  <2>2. ASSUME NEW b \in BOOLEAN, SetMuted(w, b) PROVE TypeOK'
    BY <2>2 DEF AlertsInv, TypeOK, SetMuted, Setting, WatchRow
  <2>3. QED BY <2>1, <2>2
<1>2. UNCHANGED <<cooled, event, alert, told, sweep, digest, mishaps, hist>>
  BY DEF SetCadence, SetMuted
<1>3. KnownInv'
  BY <1>2 DEF AlertsInv, KnownInv
<1>4. DueInv'
  BY <1>2, AnswersStay DEF AlertsInv, DueInv, Before
<1>5. QED BY <1>1, <1>2, <1>3, <1>4, NothingInHandMoves DEF AlertsInv

\* A sweep that lets go of what it had in hand, and changes no alert.
LEMMA SweepLetsGo ==
    ASSUME AlertsInv, NEW s \in Sweeper, NEW run, SweepMoved(s, run),
           run.at \notin AtAlert, run.event \in {sweep[s].event, NoEvent},
           \A e \in Event : event[e].state # "none" => event'[e].state # "none",
           \A e \in run.todo : event[e].state # "none",
           UNCHANGED <<alert, told>>, hist'.raced = hist.raced, hist'.due = hist.due
    PROVE  KnownInv' /\ RowInv' /\ ExclusiveInv' /\ PendingInv' /\ CooldownInv'
<1>1. KnownInv'
  BY AlertsAssumption DEF AlertsInv, KnownInv, SweepMoved
<1>2. RowInv' /\ CooldownInv'
  BY DEF AlertsInv, RowInv, CooldownInv, SweepMoved
<1>3. ExclusiveInv'
  BY DEF AlertsInv, ExclusiveInv, SweepMoved
<1>4. PendingInv'
  BY DEF AlertsInv, PendingInv, SweepMoved
<1>5. QED BY <1>1, <1>2, <1>3, <1>4

LEMMA SelectKeeps ==
    ASSUME AlertsInv, NEW s \in Sweeper, NEW batch \in SUBSET Queued,
           SelectUnprocessed(s, batch)
    PROVE  AlertsInv'
<1> DEFINE run == Between("claim", batch)
<1>1. InSweep(s) = {} /\ sweep[s].todo = {} /\ sweep[s].found = {}
  BY DEF SelectUnprocessed, AlertsInv, ShapeInv, SweepShape, IdleSweep, Between,
         InSweep, AtAlert
<1>2. /\ run.at \notin AtAlert /\ run.todo = batch /\ run.event = NoEvent
      /\ UNCHANGED <<event, digest, alert, told, hist>>
  BY DEF SelectUnprocessed, Between, AtAlert
<1>3. SweepMoved(s, run)
  BY SweepMoves DEF SelectUnprocessed, Between, Sweep, SweepShape, AtAlert, Queued
<1> HIDE DEF run
<1>4. TypeOK'
  BY <1>3 DEF AlertsInv, TypeOK, SelectUnprocessed, SweepMoved
<1>5. KnownInv' /\ RowInv' /\ ExclusiveInv' /\ PendingInv' /\ CooldownInv'
  <2>1. \A e \in run.todo : event[e].state # "none"
    BY <1>2 DEF Queued
  <2>2. QED BY <2>1, <1>2, <1>3, SweepLetsGo
<1>6. ToldInv'
  BY <1>1, <1>2, <1>3 DEF AlertsInv, ToldInv, SweepMoved
<1>7. DueInv'
  BY <1>1, <1>2, <1>3, AnswersStay DEF AlertsInv, DueInv, Before, SelectUnprocessed,
     SweepMoved
<1>8. QED BY <1>3, <1>4, <1>5, <1>6, <1>7 DEF AlertsInv, SweepMoved

LEMMA StampKeeps ==
    ASSUME AlertsInv, NEW s \in Sweeper, StampProcessed(s)
    PROVE  AlertsInv'
<1> DEFINE run == Between("events", sweep[s].todo)
<1>1. InSweep(s) = {} /\ sweep[s].found = {} /\ sweep[s] \in Sweep
  BY DEF StampProcessed, AlertsInv, TypeOK, ShapeInv, SweepShape, InSweep, AtAlert
<1>2. /\ run.at \notin AtAlert /\ run.todo = sweep[s].todo /\ run.event = NoEvent
      /\ UNCHANGED <<digest, alert, told, hist>>
  BY DEF StampProcessed, Between, AtAlert
<1>3. SweepMoved(s, run)
  BY <1>1, SweepMoves DEF StampProcessed, Between, Sweep, SweepShape, AtAlert
<1> HIDE DEF run
<1>4. \A e \in Event :
          /\ event'[e] \in EventRow /\ event'[e].window = event[e].window
          /\ e \in sweep[s].todo => event'[e].state = "processed"
          /\ e \notin sweep[s].todo => event'[e] = event[e]
  BY DEF AlertsInv, TypeOK, StampProcessed, EventRow
<1>5. TypeOK'
  BY <1>3, <1>4 DEF AlertsInv, TypeOK, StampProcessed, SweepMoved
<1>6. KnownInv' /\ RowInv' /\ ExclusiveInv' /\ PendingInv' /\ CooldownInv'
  <2>1. \A e \in run.todo : event[e].state # "none"
    BY <1>1, <1>2 DEF AlertsInv, KnownInv, Sweep
  <2>2. \A e \in Event : event[e].state # "none" => event'[e].state # "none"
    BY <1>4
  <2>3. QED BY <2>1, <2>2, <1>2, <1>3, SweepLetsGo
<1>7. ToldInv'
  BY <1>1, <1>2, <1>3 DEF AlertsInv, ToldInv, SweepMoved
<1>8. DueInv'
  BY <1>1, <1>2, <1>3, <1>4, AnswersStay DEF AlertsInv, DueInv, Before, StampProcessed,
     SweepMoved
<1>9. QED BY <1>3, <1>5, <1>6, <1>7, <1>8 DEF AlertsInv, SweepMoved

LEMMA MatchKeeps ==
    ASSUME AlertsInv, NEW s \in Sweeper, NEW e \in Event, MatchDomainEvent(s, e)
    PROVE  AlertsInv'
<1> DEFINE found == IF event[e].backfill THEN {}
                    ELSE {[watch |-> w, cadence |-> watch[w].cadence,
                           muted |-> watch[w].muted] : w \in MatchingWatches(e)}
           begun == [at |-> "watches", todo |-> sweep[s].todo \ {e}, event |-> e,
                     found |-> found, watch |-> NoWatch]
           run == AfterWatch(begun)
<1>1. /\ InSweep(s) = {} /\ sweep[s].event = NoEvent /\ sweep[s] \in Sweep
      /\ e \in sweep[s].todo
  BY DEF MatchDomainEvent, AlertsInv, TypeOK, ShapeInv, SweepShape, InSweep, AtAlert
<1>2. begun \in Sweep /\ begun.event = e
  <2>1. found \in SUBSET Candidate
    BY DEF MatchingWatches, AlertsInv, TypeOK, WatchRow, Candidate
  <2>2. QED BY <1>1, <2>1 DEF Sweep
<1>3. \A w \in Attentive(e) : \E c \in found : c.watch = w
  <2> TAKE w \in Attentive(e)
  <2>1. w \in MatchingWatches(e) /\ ~event[e].backfill
    BY DEF Attentive, MatchingWatches
  <2>2. [watch |-> w, cadence |-> watch[w].cadence, muted |-> watch[w].muted] \in found
    BY <2>1
  <2>3. QED BY <2>2
<1>4. begun.found = found /\ begun.todo = sweep[s].todo \ {e}
  OBVIOUS
<1>5. SetSweep(s, run) /\ UNCHANGED <<cooled, event, digest, alert, told>>
  BY DEF MatchDomainEvent
<1> HIDE DEF begun, found
<1>6. /\ run.at \notin AtAlert /\ run.todo = sweep[s].todo \ {e}
      /\ run.found = found /\ run.event \in {e, NoEvent}
      /\ found # {} => run.event = e
      /\ SweepMoved(s, run)
  BY <1>2, <1>4, <1>5, AfterWatchIs, SweepMoves
<1> HIDE DEF run
<1>7. /\ hist' \in [stopped : BOOLEAN, raced : SUBSET Pair,
                    due : SUBSET (Event \X Watch), matched : SUBSET Event]
      /\ hist'.stopped = hist.stopped /\ hist'.raced = hist.raced
      /\ hist'.due = hist.due \cup ({e} \X Attentive(e))
      /\ hist'.matched = hist.matched \cup {e}
  BY DEF MatchDomainEvent, AlertsInv, TypeOK, Attentive
<1>8. TypeOK'
  BY <1>5, <1>6, <1>7 DEF AlertsInv, TypeOK, MatchDomainEvent, SweepMoved
<1>9. KnownInv'
  BY <1>1, <1>5, <1>6, <1>7, AlertsAssumption DEF AlertsInv, KnownInv, SweepMoved
<1>10. RowInv' /\ CooldownInv'
  BY <1>5, <1>6 DEF AlertsInv, RowInv, CooldownInv, SweepMoved
<1>11. ExclusiveInv' /\ PendingInv'
  BY <1>5, <1>6, <1>7 DEF AlertsInv, ExclusiveInv, PendingInv, SweepMoved
<1>12. ToldInv'
  BY <1>1, <1>5, <1>6, <1>7 DEF AlertsInv, ToldInv, SweepMoved
<1>13. DueInv'
  <2>1. ASSUME NEW w \in Watch, w \in Attentive(e) PROVE Before(e, w)'
    BY <2>1, <1>3, <1>6 DEF Before, SweepMoved
  <2>2. ASSUME NEW f \in Event, NEW w \in Watch, Before(f, w) PROVE Before(f, w)'
    BY <2>2, <1>1, <1>6, AlertsAssumption DEF Before, SweepMoved
  <2>3. ASSUME NEW f \in Event, NEW w \in Watch, Answered(f, w) PROVE Answered(f, w)'
    BY <2>3, <1>5, AnswersStay
  <2>4. ASSUME ~hist'.stopped, NEW f \in Event, NEW w \in Watch, <<f, w>> \in hist'.due
        PROVE  (Answered(f, w) \/ Before(f, w))'
    BY <2>1, <2>2, <2>3, <2>4, <1>7 DEF AlertsInv, DueInv
  <2>5. ASSUME ~hist'.stopped, NEW f \in Event, event'[f].state = "processed"
        PROVE  f \in hist'.matched \/ \E t \in Sweeper : f \in sweep'[t].todo
    BY <2>5, <1>5, <1>6, <1>7 DEF AlertsInv, DueInv, SweepMoved
  <2>6. QED BY <2>4, <2>5 DEF DueInv
<1>14. QED BY <1>6, <1>8, <1>9, <1>10, <1>11, <1>12, <1>13 DEF AlertsInv, SweepMoved

\* A claim that is refused: the person has heard, or will.
LEMMA RefusedIsAnswered ==
    ASSUME NEW w \in Watch, NEW e \in Event, ~Claimable(w, e)
    PROVE  Answered(e, w)
  BY AlertsAssumption DEF Claimable, Answered, CooldownBucketFor

LEMMA ClaimKeeps ==
    ASSUME AlertsInv, NEW s \in Sweeper, NEW c \in sweep[s].found, ClaimAlert(s, c)
    PROVE  AlertsInv'
<1> USE AlertsAssumption
<1>e. PICK e \in Event : e = sweep[s].event
  BY DEF ClaimAlert, AlertsInv, ShapeInv, SweepShape
<1> DEFINE w == c.watch
           p == <<w, ChangeOf[e]>>
           rest == [sweep[s] EXCEPT !.found = sweep[s].found \ {c}]
           inHand == c.muted \/ c.cadence = "instant"
           next == IF c.muted THEN "mute" ELSE "count"
<1>1. /\ sweep[s] \in Sweep /\ sweep[s].at = "watches" /\ w \in Watch
      /\ p \in Pair /\ InSweep(s) = {} /\ c \in Candidate
  BY DEF ClaimAlert, AlertsInv, TypeOK, ShapeInv, SweepShape, InSweep, AtAlert, Sweep,
         Candidate, Pair
<1>2. /\ rest \in Sweep /\ rest.found = sweep[s].found \ {c}
      /\ rest.event = e /\ rest.todo = sweep[s].todo
  BY <1>e, <1>1 DEF Sweep
<1>3. PICK run : /\ SetSweep(s, run)
                 /\ run = IF Claimable(w, e) /\ inHand THEN AtWatch(rest, next, w)
                          ELSE AfterWatch(rest)
  BY <1>e DEF ClaimAlert
<1>4. UNCHANGED <<cooled, event, watch, digest, told, settings, mishaps, hist>>
  BY DEF ClaimAlert
<1>5. /\ SweepMoved(s, run)
      /\ run.todo = sweep[s].todo /\ run.found = sweep[s].found \ {c}
      /\ run.event \in {e, NoEvent} /\ (run.found # {} => run.event = e)
      /\ run.at # "sent"
      /\ run.at \in AtAlert => Claimable(w, e) /\ run.watch = w /\ run.event = e
  <2>1. CASE Claimable(w, e) /\ inHand
    <3>1. /\ run = [at |-> next, todo |-> rest.todo, event |-> e, found |-> rest.found,
                    watch |-> w]
          /\ next \in {"mute", "count"}
      BY <2>1, <1>2, <1>3 DEF AtWatch
    <3>2. run \in Sweep /\ SweepShape(run)
      BY <3>1, <1>1, <1>2 DEF Sweep, SweepShape, AtAlert
    <3>3. QED BY <2>1, <3>1, <3>2, <1>2, <1>3, <1>4, SweepMoves
  <2>2. CASE ~(Claimable(w, e) /\ inHand)
    BY <2>2, <1>1, <1>2, <1>3, <1>4, AfterWatchIs, SweepMoves DEF AtAlert
  <2>3. QED BY <2>1, <2>2
<1>6. /\ alert' \in [Pair -> AlertRow]
      /\ \A q \in Pair : q # p => alert'[q] = alert[q]
      /\ Claimable(w, e) => /\ alert[p].state = "none" /\ alert'[p].state = "pending"
                            /\ alert'[p].cooldownBucket = CooldownBucketFor(e)
      /\ ~Claimable(w, e) => alert'[p] = alert[p]
  <2>1. CooldownBucketFor(e) \in Window \cup {NoWindow}
    BY <1>1 DEF CooldownBucketFor, AlertsInv, TypeOK, EventRow
  <2>2. alert' = IF Claimable(w, e)
                 THEN [alert EXCEPT ![p] = [state |-> "pending",
                                            cooldownBucket |-> CooldownBucketFor(e)]]
                 ELSE alert
    BY <1>e DEF ClaimAlert
  <2>3. Claimable(w, e) => alert[p].state = "none"
    BY DEF Claimable
  <2>4. QED BY <1>1, <2>1, <2>2, <2>3 DEF AlertsInv, TypeOK, AlertRow
<1> HIDE DEF w, p, rest, inHand, next
<1>7. \A q \in Pair : /\ q \in InSweep(s)' => Claimable(w, e) /\ q = p
                      /\ alert[q].state # "none" => alert'[q] = alert[q]
  BY <1>5, <1>6 DEF SweepMoved, p
<1>8. TypeOK'
  BY <1>4, <1>5, <1>6 DEF AlertsInv, TypeOK, SweepMoved
<1>9. KnownInv'
  BY <1>e, <1>1, <1>4, <1>5 DEF AlertsInv, KnownInv, SweepMoved
<1>10. RowInv'
  BY <1>4, <1>5, <1>6, <1>7 DEF AlertsInv, RowInv, SweepMoved
<1>11. ExclusiveInv'
  BY <1>4, <1>5, <1>6, <1>7 DEF AlertsInv, RowInv, ExclusiveInv, SweepMoved
<1>12. PendingInv'
  BY <1>4, <1>5, <1>6, <1>7 DEF AlertsInv, RowInv, PendingInv, SweepMoved
<1>13. ToldInv'
  <2>1. Claimable(w, e) => told[p] = 0
    BY <1>1, <1>6 DEF AlertsInv, TypeOK, RowInv
  <2>2. QED
    BY <1>1, <1>4, <1>5, <1>6, <1>7, <2>1
    DEF AlertsInv, RowInv, ToldInv, SweepMoved, Announced
<1>14. CooldownInv'
  <2>1. ASSUME NEW q \in Pair, q # p, Claimable(w, e), q[1] = w,
               TopicOf[q[2]] = TopicOf[ChangeOf[e]], alert[q].state # "none"
        PROVE  \/ alert[q].cooldownBucket # CooldownBucketFor(e)
               \/ CooldownBucketFor(e) = NoWindow
    BY <2>1 DEF Claimable, Pair
  <2>2. p[1] = w /\ p[2] = ChangeOf[e]
    BY DEF p
  <2>3. QED BY <1>1, <1>6, <2>1, <2>2 DEF AlertsInv, CooldownInv
<1>15. DueInv'
  <2>1. ASSUME NEW f \in Event, NEW v \in Watch, Answered(f, v) PROVE Answered(f, v)'
    BY <2>1, <1>4, <1>7, AnswersStay
  <2>2. Answered(e, w)'
    <3>1. CASE Claimable(w, e)
      BY <3>1, <1>1, <1>6 DEF Answered, p
    <3>2. CASE ~Claimable(w, e)
      BY <3>2, <1>1, <2>1, RefusedIsAnswered
    <3>3. QED BY <3>1, <3>2
  <2>3. ASSUME NEW f \in Event, NEW v \in Watch, Before(f, v), ~(f = e /\ v = w)
        PROVE  Before(f, v)'
    BY <2>3, <1>e, <1>1, <1>5 DEF Before, SweepMoved, w
  <2>4. QED
    BY <1>1, <1>4, <1>5, <2>1, <2>2, <2>3 DEF AlertsInv, DueInv, SweepMoved
<1>16. QED
  BY <1>5, <1>8, <1>9, <1>10, <1>11, <1>12, <1>13, <1>14, <1>15 DEF AlertsInv, SweepMoved

\* A step of a sweep that keeps its alert: it counts, or tries to tell.
LEMMA AtAlertKeeps ==
    ASSUME AlertsInv, NEW s \in Sweeper,
           \/ \E recent \in SUBSET Delivered : CountDeliveries(s, recent)
           \/ Notify(s) \/ NotifyFails(s)
    PROVE  AlertsInv'
<1>1. PICK at : /\ SetSweep(s, [sweep[s] EXCEPT !.at = at]) /\ at \in AtAlert
                /\ \/ Notify(s) /\ at = "sent"
                   \/ at # "sent" /\ UNCHANGED told
  <2>1. ASSUME NEW recent \in SUBSET Delivered, CountDeliveries(s, recent)
        PROVE  \E at \in {"limit", "send"} :
                   SetSweep(s, [sweep[s] EXCEPT !.at = at]) /\ UNCHANGED told
    BY <2>1 DEF CountDeliveries
  <2>2. CASE Notify(s)
    BY <2>2 DEF Notify, AtAlert
  <2>3. CASE NotifyFails(s)
    BY <2>3 DEF NotifyFails, AtAlert
  <2>4. QED BY <2>1, <2>2, <2>3 DEF AtAlert
<1>2. UNCHANGED <<cooled, event, watch, alert, digest, settings, hist>>
  BY DEF CountDeliveries, Notify, NotifyFails
<1> DEFINE run == [sweep[s] EXCEPT !.at = at]
<1>3. /\ sweep[s] \in Sweep /\ SweepShape(sweep[s])
      /\ sweep[s].at \in AtAlert \ {"sent"}
  BY DEF CountDeliveries, Notify, NotifyFails, AtAlert, AlertsInv, TypeOK, ShapeInv
<1>4. /\ run \in Sweep /\ SweepShape(run)
      /\ run.at = at /\ run.todo = sweep[s].todo /\ run.event = sweep[s].event
      /\ run.found = sweep[s].found /\ run.watch = sweep[s].watch
  BY <1>1, <1>3 DEF Sweep, SweepShape, AtAlert
<1> HIDE DEF run
<1>5. SweepMoved(s, run)
  BY <1>1, <1>2, <1>4, SweepMoves DEF run
<1>6. PICK p \in Pair : p = SweepPair(s)
  BY <1>3, AlertsAssumption DEF SweepPair, SweepShape, Pair
<1>7. \A q \in Pair : /\ q \in InSweep(s)' <=> q = p
                      /\ q \in InSweep(s) <=> q = p
  BY <1>1, <1>3, <1>4, <1>5, <1>6 DEF SweepMoved, InSweep, SweepPair
<1>8. \A q \in Pair : /\ q # p => told'[q] = told[q]
                      /\ at = "sent" => (told[p] = 0 => told'[p] = 1)
                      /\ at # "sent" => told'[p] = told[p]
  BY <1>1, <1>6 DEF Notify, Tell, AlertsInv, TypeOK
<1>9. TypeOK'
  <2>1. told' \in [Pair -> 0..2]
    <3>1. CASE UNCHANGED told
      BY <3>1 DEF AlertsInv, TypeOK
    <3>2. CASE Notify(s)
      BY <3>2 DEF Notify, Tell, AlertsInv, TypeOK
    <3>3. QED BY <3>1, <3>2, <1>1
  <2>2. mishaps' \in 0..MaxMishaps
    <3>1. UNCHANGED mishaps \/ Mishap
      BY DEF CountDeliveries, Notify, NotifyFails
    <3>2. QED BY <3>1, AlertsAssumption DEF Mishap, AlertsInv, TypeOK
  <2>3. QED BY <1>2, <1>5, <2>1, <2>2 DEF AlertsInv, TypeOK, SweepMoved
<1>10. KnownInv'
  BY <1>2, <1>4, <1>5 DEF AlertsInv, KnownInv, SweepMoved
<1>11. RowInv'
  BY <1>2, <1>5, <1>7, <1>8 DEF AlertsInv, RowInv, SweepMoved
<1>12. ExclusiveInv' /\ PendingInv' /\ CooldownInv'
  BY <1>2, <1>5, <1>7 DEF AlertsInv, ExclusiveInv, PendingInv, CooldownInv, SweepMoved
<1>13. ToldInv'
  <2> SUFFICES ASSUME ~hist.stopped, NEW q \in Pair, q \notin hist.raced
               PROVE  /\ \A t \in Sweeper : q \in InSweep(t)' =>
                             told'[q] = Announced(sweep'[t].at = "sent")
                      /\ \A d \in Digester : q \in InDigest(d)' =>
                             told'[q] = Announced(digest[d].at = "sent" /\ q[1] = digest[d].watch)
                      /\ (/\ \A t \in Sweeper : q \notin InSweep(t)'
                          /\ \A d \in Digester : q \notin InDigest(d)')
                             => told'[q] = Announced(alert[q].state = "delivered")
    BY <1>2 DEF ToldInv
  <2>1. CASE q # p
    BY <2>1, <1>2, <1>5, <1>7, <1>8 DEF AlertsInv, ToldInv, SweepMoved
  <2>2. CASE q = p
    <3>1. told[p] = 0
      BY <2>2, <1>3, <1>7 DEF AlertsInv, ToldInv, Announced
    <3>2. /\ \A d \in Digester : p \notin InDigest(d)
          /\ \A t \in Sweeper : t # s => p \notin InSweep(t)
      BY <2>2, <1>7 DEF AlertsInv, ExclusiveInv
    <3>3. told'[p] = Announced(at = "sent")
      BY <3>1, <1>8 DEF Announced
    <3>4. QED BY <2>2, <3>2, <3>3, <1>4, <1>5, <1>7 DEF SweepMoved
  <2>3. QED BY <2>1, <2>2
<1>14. DueInv'
  BY <1>2, <1>4, <1>5, AnswersStay DEF AlertsInv, DueInv, Before, SweepMoved
<1>15. QED
  BY <1>5, <1>9, <1>10, <1>11, <1>12, <1>13, <1>14 DEF AlertsInv, SweepMoved

\* A step of a sweep that records what became of its alert.
LEMMA MarkKeeps ==
    ASSUME AlertsInv, NEW s \in Sweeper, Suppress(s) \/ MarkSent(s) \/ MarkUnsent(s)
    PROVE  AlertsInv'
<1>1. PICK p \in Pair : p = SweepPair(s)
  BY AlertsAssumption DEF Suppress, MarkSent, MarkUnsent, AlertsInv, ShapeInv, SweepShape,
     AtAlert, SweepPair, Pair
<1>2. PICK state \in {"suppressed", "delivered", "failed"} :
          MarkAlert(p, state) /\ (state = "delivered" <=> sweep[s].at = "sent")
  BY <1>1 DEF Suppress, MarkSent, MarkUnsent
<1> DEFINE run == AfterWatch(sweep[s])
<1>3. /\ SetSweep(s, run)
      /\ UNCHANGED <<cooled, event, watch, told, digest, settings, mishaps, hist>>
  BY DEF Suppress, MarkSent, MarkUnsent
<1>4. sweep[s] \in Sweep /\ sweep[s].event \in Event /\ sweep[s].at \in AtAlert
  BY DEF Suppress, MarkSent, MarkUnsent, AlertsInv, TypeOK, ShapeInv, SweepShape, AtAlert
<1>5. /\ run.at \notin AtAlert /\ run.todo = sweep[s].todo
      /\ run.found = sweep[s].found /\ run.event \in {sweep[s].event, NoEvent}
      /\ run.found # {} => run.event = sweep[s].event
      /\ SweepMoved(s, run)
  BY <1>3, <1>4, AfterWatchIs, SweepMoves
<1> HIDE DEF run
<1>6. \A q \in Pair : q \in InSweep(s) <=> q = p
  BY <1>1, <1>4 DEF InSweep
<1>7. /\ alert' \in [Pair -> AlertRow] /\ alert'[p].state = state
      /\ \A q \in Pair : /\ alert'[q].cooldownBucket = alert[q].cooldownBucket
                         /\ q # p => alert'[q] = alert[q]
  BY <1>2 DEF MarkAlert, AlertsInv, TypeOK, AlertRow
<1>8. alert[p].state # "none"
  BY <1>6 DEF AlertsInv, RowInv
<1>9. TypeOK'
  BY <1>3, <1>5, <1>7 DEF AlertsInv, TypeOK, SweepMoved
<1>10. KnownInv'
  BY <1>3, <1>4, <1>5, AlertsAssumption DEF AlertsInv, KnownInv, SweepMoved
<1>11. RowInv' /\ CooldownInv'
  BY <1>3, <1>5, <1>7, <1>8 DEF AlertsInv, RowInv, CooldownInv, SweepMoved
<1>12. ExclusiveInv'
  BY <1>3, <1>5 DEF AlertsInv, ExclusiveInv, SweepMoved
<1>13. PendingInv'
  BY <1>3, <1>5, <1>6, <1>7 DEF AlertsInv, ExclusiveInv, PendingInv, SweepMoved
<1>14. ToldInv'
  <2>1. ~hist.stopped /\ p \notin hist.raced => told[p] = Announced(state = "delivered")
    BY <1>2, <1>6 DEF AlertsInv, ToldInv
  <2>2. QED
    BY <1>3, <1>5, <1>6, <1>7, <2>1 DEF AlertsInv, ExclusiveInv, ToldInv, SweepMoved
<1>15. DueInv'
  BY <1>3, <1>5, <1>7, <1>8, AnswersStay DEF AlertsInv, DueInv, Before, SweepMoved
<1>16. QED
  BY <1>5, <1>9, <1>10, <1>11, <1>12, <1>13, <1>14, <1>15 DEF AlertsInv, SweepMoved

\* What a mishap leaves a sweep with.
LeftWith(s, run) ==
    /\ run \in Sweep /\ SweepShape(run) /\ SetSweep(s, run)
    /\ run.at \notin AtAlert /\ run.event \in {sweep[s].event, NoEvent}
    /\ run.todo \subseteq sweep[s].todo

\* A sweep that a mishap stops at a statement or for good.
LEMMA SweepStops ==
    ASSUME AlertsInv, NEW s \in Sweeper, SweepThrows(s) \/ SweepCrashes(s)
    PROVE  AlertsInv'
<1>1. PICK run : LeftWith(s, run)
  <2>1. sweep[s] \in Sweep /\ SweepShape(sweep[s])
    BY DEF AlertsInv, TypeOK, ShapeInv
  <2>2. IdleSweep \in Sweep /\ SweepShape(IdleSweep)
    BY DEF IdleSweep, Between, Sweep, SweepShape, AtAlert
  <2>3. IdleSweep.at \notin AtAlert /\ IdleSweep.event = NoEvent /\ IdleSweep.todo = {}
    BY DEF IdleSweep, Between, AtAlert
  <2>4. CASE SetSweep(s, IdleSweep)
    BY <2>2, <2>3, <2>4 DEF LeftWith
  <2>5. CASE \E e \in sweep[s].todo : SetSweep(s, AfterEvent(sweep[s].todo \ {e}))
    <3>1. PICK e \in sweep[s].todo : SetSweep(s, AfterEvent(sweep[s].todo \ {e}))
      BY <2>5
    <3>2. sweep[s].todo \ {e} \in SUBSET Event
      BY <2>1 DEF Sweep
    <3>3. QED BY <3>1, <3>2, AfterEventIs DEF LeftWith
  <2>6. ASSUME sweep[s].event \in Event, NEW c,
               SetSweep(s, AfterWatch([sweep[s] EXCEPT !.found = sweep[s].found \ {c}]))
        PROVE  \E run : LeftWith(s, run)
    <3> DEFINE rest == [sweep[s] EXCEPT !.found = sweep[s].found \ {c}]
    <3>1. rest \in Sweep /\ rest.event = sweep[s].event /\ rest.todo = sweep[s].todo
      BY <2>1 DEF Sweep
    <3>2. SetSweep(s, AfterWatch(rest))
      BY <2>6
    <3> HIDE DEF rest
    <3>3. QED BY <2>6, <3>1, <3>2, AfterWatchIs DEF LeftWith
  <2>7. ASSUME sweep[s].event \in Event, SetSweep(s, AfterWatch(sweep[s]))
        PROVE  \E run : LeftWith(s, run)
    BY <2>1, <2>7, AfterWatchIs DEF LeftWith
  <2>8. sweep[s].at \in AtAlert \cup {"watches"} => sweep[s].event \in Event
    BY <2>1 DEF SweepShape
  <2>9. QED BY <2>4, <2>5, <2>6, <2>7, <2>8 DEF SweepThrows, SweepCrashes
<1>2. /\ UNCHANGED <<cooled, event, watch, alert, told, digest, settings>>
      /\ mishaps' \in 0..MaxMishaps
      /\ hist' = [hist EXCEPT !.stopped = TRUE]
  BY AlertsAssumption DEF SweepThrows, SweepCrashes, Mishap, AlertsInv, TypeOK
<1>3. SweepMoved(s, run)
  BY <1>1, <1>2, SweepMoves DEF LeftWith
<1>4. TypeOK' /\ hist'.raced = hist.raced /\ hist'.due = hist.due /\ hist'.stopped
  BY <1>2, <1>3 DEF AlertsInv, TypeOK, SweepMoved
<1>5. KnownInv' /\ RowInv' /\ ExclusiveInv' /\ PendingInv' /\ CooldownInv'
  <2>1. \A e \in run.todo : event[e].state # "none"
    BY <1>1 DEF AlertsInv, KnownInv, TypeOK, Sweep, LeftWith
  <2>2. QED BY <2>1, <1>1, <1>2, <1>3, <1>4, SweepLetsGo DEF LeftWith
<1>6. ToldInv' /\ DueInv'
  BY <1>4 DEF ToldInv, DueInv
<1>7. QED BY <1>3, <1>4, <1>5, <1>6 DEF AlertsInv, SweepMoved

\* A digest that lists nothing new and changes no alert.
LEMMA DigestLetsGo ==
    ASSUME AlertsInv, NEW d \in Digester, NEW run, DigestMoved(d, run),
           run.listed \subseteq digest[d].listed,
           UNCHANGED <<cooled, event, alert, sweep>>,
           \A p \in Pair : told'[p] = told[p] \/ p \in digest[d].listed,
           hist'.raced = hist.raced, hist'.due = hist.due, hist'.matched = hist.matched,
           hist.stopped => hist'.stopped
    PROVE  /\ KnownInv' /\ RowInv' /\ ExclusiveInv' /\ PendingInv' /\ CooldownInv'
           /\ DueInv'
<1>1. KnownInv' /\ CooldownInv'
  BY DEF AlertsInv, KnownInv, CooldownInv
<1>2. run.listed \subseteq InDigest(d)
  BY DEF InDigest
<1>3. RowInv'
  BY <1>2 DEF AlertsInv, RowInv, DigestMoved, InDigest
<1>4. ExclusiveInv'
  BY <1>2 DEF AlertsInv, ExclusiveInv, DigestMoved
<1>5. PendingInv'
  BY <1>2 DEF AlertsInv, PendingInv, DigestMoved
<1>6. DueInv'
  BY AnswersStay DEF AlertsInv, DueInv, Before
<1>7. QED BY <1>1, <1>3, <1>4, <1>5, <1>6

LEMMA ListKeeps ==
    ASSUME AlertsInv, NEW d \in Digester, ListPending(d)
    PROVE  AlertsInv'
<1> DEFINE run == [at |-> "listed", listed |-> Pending, muted |-> {}, watch |-> NoWatch]
<1>1. /\ SetDigest(d, run)
      /\ UNCHANGED <<cooled, event, watch, alert, told, sweep, settings, mishaps>>
      /\ hist' = [hist EXCEPT !.raced = hist.raced \cup (Pending \cap InHand)]
  BY DEF ListPending
<1>2. run \in Digest
  BY DEF Digest, Pending
<1>3. DigestMoved(d, run)
  BY <1>1, <1>2, DigestMoves
<1> HIDE DEF run
<1>4. InDigest(d) = {}
  BY DEF ListPending, AlertsInv, ShapeInv, InDigest
<1>5. /\ hist'.raced = hist.raced \cup (Pending \cap InHand)
      /\ hist'.stopped = hist.stopped /\ hist'.due = hist.due
      /\ hist'.matched = hist.matched
      /\ hist' \in [stopped : BOOLEAN, raced : SUBSET Pair,
                    due : SUBSET (Event \X Watch), matched : SUBSET Event]
  BY <1>1 DEF AlertsInv, TypeOK, Pending
<1>6. \A p \in Pair :
          /\ p \in run.listed <=> alert[p].state = "pending"
          /\ p \in run.listed /\ p \notin hist'.raced =>
                 /\ \A s \in Sweeper : p \notin InSweep(s)
                 /\ \A f \in Digester : p \notin InDigest(f)
  BY <1>5 DEF run, Pending, InHand
<1>7. TypeOK'
  BY <1>1, <1>3, <1>5 DEF AlertsInv, TypeOK, DigestMoved
<1>8. KnownInv' /\ CooldownInv' /\ DueInv'
  <2>1. KnownInv' /\ CooldownInv'
    BY <1>1, <1>5 DEF AlertsInv, KnownInv, CooldownInv
  <2>2. DueInv'
    BY <1>1, <1>5, AnswersStay DEF AlertsInv, DueInv, Before
  <2>3. QED BY <2>1, <2>2
<1>9. RowInv'
  BY <1>1, <1>3, <1>6 DEF AlertsInv, RowInv, DigestMoved
<1>10. ExclusiveInv'
  BY <1>3, <1>5, <1>6 DEF AlertsInv, ExclusiveInv, DigestMoved
<1>11. PendingInv'
  BY <1>1, <1>3, <1>5, <1>6 DEF AlertsInv, PendingInv, DigestMoved
<1>12. ToldInv'
  <2>1. run.at # "sent"
    BY DEF run
  <2>2. QED
    BY <1>1, <1>3, <1>4, <1>5, <1>6, <2>1 DEF AlertsInv, ToldInv, Announced, DigestMoved
<1>13. QED
  BY <1>3, <1>7, <1>8, <1>9, <1>10, <1>11, <1>12 DEF AlertsInv, DigestMoved

\* What a digest in its second read, or about to make a bundle, goes on with.
LEMMA BundleKeeps ==
    ASSUME AlertsInv, NEW d \in Digester,
           \/ ReadWatches(d)
           \/ \E w \in Watch : SkipBundle(d, w) \/ SendBundle(d, w) \/ SendBundleFails(d, w)
    PROVE  AlertsInv'
<1>1. digest[d] \in Digest /\ digest[d].at \in {"listed", "bundles"}
  BY DEF AlertsInv, TypeOK, ReadWatches, SkipBundle, SendBundle, SendBundleFails
<1>2. PICK run : /\ run \in Digest /\ (run.at = "idle" => run.listed = {})
                 /\ SetDigest(d, run) /\ run.listed \subseteq digest[d].listed
                 /\ \/ run.at # "sent" /\ UNCHANGED told
                    \/ /\ run.at = "sent" /\ run.listed = digest[d].listed
                       /\ Tell({p \in digest[d].listed : p[1] = run.watch})
  <2>1. CASE ReadWatches(d)
    <3> DEFINE bundled == {p \in digest[d].listed : p[1] \in OnCadence(d)}
               muted == {w \in OnCadence(d) : watch[w].muted}
               run == IF bundled = {} THEN IdleDigest
                      ELSE [at |-> "bundles", listed |-> bundled, muted |-> muted,
                            watch |-> NoWatch]
    <3>1. SetDigest(d, run) /\ UNCHANGED told
      BY <2>1 DEF ReadWatches
    <3>2. muted \in SUBSET Watch
      BY DEF OnCadence
    <3>3. run \in Digest /\ (run.at = "idle" => run.listed = {}) /\ run.at # "sent"
      BY <1>1, <3>2 DEF Digest, IdleDigest
    <3>4. run.listed \subseteq digest[d].listed
      BY DEF IdleDigest
    <3>5. QED BY <3>1, <3>3, <3>4
  <2>2. ASSUME NEW w \in Watch, NEW at \in {"mute", "sent", "unsent"}
        PROVE  /\ AtBundle(digest[d], at, w) \in Digest
               /\ AtBundle(digest[d], at, w).at = at
               /\ AtBundle(digest[d], at, w).watch = w
               /\ AtBundle(digest[d], at, w).listed = digest[d].listed
    BY <1>1 DEF AtBundle, Digest
  <2>3. ASSUME NEW w \in Watch, SkipBundle(d, w)
        PROVE  /\ SetDigest(d, AtBundle(digest[d], "mute", w)) /\ UNCHANGED told
    BY <2>3 DEF SkipBundle
  <2>4. ASSUME NEW w \in Watch, SendBundle(d, w)
        PROVE  /\ SetDigest(d, AtBundle(digest[d], "sent", w))
               /\ Tell({p \in digest[d].listed : p[1] = w})
    BY <2>4 DEF SendBundle
  <2>5. ASSUME NEW w \in Watch, SendBundleFails(d, w)
        PROVE  /\ SetDigest(d, AtBundle(digest[d], "unsent", w)) /\ UNCHANGED told
    BY <2>5 DEF SendBundleFails
  <2>6. CASE \E w \in Watch : SkipBundle(d, w)
    BY <2>2, <2>3, <2>6
  <2>7. CASE \E w \in Watch : SendBundle(d, w)
    <3>1. PICK w \in Watch : SendBundle(d, w)
      BY <2>7
    <3> DEFINE run == AtBundle(digest[d], "sent", w)
    <3>2. /\ run \in Digest /\ run.at = "sent" /\ run.watch = w
          /\ run.listed = digest[d].listed
      BY <2>2
    <3>3. SetDigest(d, run) /\ Tell({p \in digest[d].listed : p[1] = w})
      BY <2>4, <3>1
    <3> HIDE DEF run
    <3>4. QED BY <3>2, <3>3
  <2>8. CASE \E w \in Watch : SendBundleFails(d, w)
    BY <2>2, <2>5, <2>8
  <2>9. QED BY <2>1, <2>6, <2>7, <2>8
<1>3. UNCHANGED <<cooled, event, watch, alert, sweep, settings, hist>>
  BY DEF ReadWatches, SkipBundle, SendBundle, SendBundleFails
<1>4. DigestMoved(d, run)
  BY <1>2, <1>3, DigestMoves
<1>5. \A p \in Pair :
          /\ p \in digest[d].listed /\ run.at = "sent" /\ p[1] = run.watch =>
                 (told[p] = 0 => told'[p] = 1)
          /\ ~(p \in digest[d].listed /\ run.at = "sent" /\ p[1] = run.watch) =>
                 told'[p] = told[p]
  BY <1>2 DEF Tell, AlertsInv, TypeOK
<1>6. TypeOK'
  <2>1. told' \in [Pair -> 0..2]
    <3>1. CASE UNCHANGED told
      BY <3>1 DEF AlertsInv, TypeOK
    <3>2. CASE Tell({p \in digest[d].listed : p[1] = run.watch})
      BY <3>2 DEF Tell, AlertsInv, TypeOK
    <3>3. QED BY <3>1, <3>2, <1>2
  <2>2. mishaps' \in 0..MaxMishaps
    <3>1. UNCHANGED mishaps \/ Mishap
      BY DEF ReadWatches, SkipBundle, SendBundle, SendBundleFails
    <3>2. QED BY <3>1, AlertsAssumption DEF Mishap, AlertsInv, TypeOK
  <2>3. QED BY <1>3, <1>4, <2>1, <2>2 DEF AlertsInv, TypeOK, DigestMoved
<1>7. /\ KnownInv' /\ RowInv' /\ ExclusiveInv' /\ PendingInv' /\ CooldownInv'
      /\ DueInv'
  BY <1>2, <1>3, <1>4, <1>5, DigestLetsGo
<1>8. ToldInv'
  <2> SUFFICES ASSUME ~hist.stopped, NEW p \in Pair, p \notin hist.raced
               PROVE  /\ \A t \in Sweeper : p \in InSweep(t)' =>
                             told'[p] = Announced(sweep[t].at = "sent")
                      /\ \A f \in Digester : p \in InDigest(f)' =>
                             told'[p] = Announced(digest'[f].at = "sent" /\ p[1] = digest'[f].watch)
                      /\ (/\ \A t \in Sweeper : p \notin InSweep(t)'
                          /\ \A f \in Digester : p \notin InDigest(f)')
                             => told'[p] = Announced(alert[p].state = "delivered")
    BY <1>3 DEF ToldInv
  <2>1. CASE p \notin digest[d].listed
    <3>1. told'[p] = told[p] /\ p \notin run.listed /\ p \notin InDigest(d)
      BY <2>1, <1>2, <1>5 DEF InDigest
    <3>2. QED BY <3>1, <1>4 DEF AlertsInv, ToldInv, DigestMoved
  <2>2. CASE p \in digest[d].listed
    <3>1. told[p] = 0 /\ alert[p].state = "pending" /\ p \in InDigest(d)
      BY <2>2, <1>1 DEF AlertsInv, ToldInv, PendingInv, Announced, InDigest
    <3>2. /\ \A s \in Sweeper : p \notin InSweep(s)
          /\ \A f \in Digester : f # d => p \notin InDigest(f)
      BY <3>1 DEF AlertsInv, ExclusiveInv
    <3>3. told'[p] = Announced(run.at = "sent" /\ p[1] = run.watch)
      BY <2>2, <3>1, <1>5 DEF Announced
    <3>4. p \notin run.listed => run.at # "sent"
      BY <2>2, <1>2
    <3>5. QED BY <3>1, <3>2, <3>3, <3>4, <1>4 DEF DigestMoved, Announced
  <2>3. QED BY <2>1, <2>2
<1>9. QED BY <1>4, <1>6, <1>7, <1>8 DEF AlertsInv, DigestMoved

LEMMA MarkBundledKeeps ==
    ASSUME AlertsInv, NEW d \in Digester, NEW p \in Bundle(d), MarkBundled(d, p)
    PROVE  AlertsInv'
<1>1. /\ digest[d] \in Digest /\ digest[d].at \in {"mute", "sent", "unsent"}
      /\ p \in Pair /\ p \in digest[d].listed /\ p[1] = digest[d].watch
  BY DEF MarkBundled, Bundle, AlertsInv, TypeOK, Digest
<1>2. PICK state \in {"suppressed", "delivered", "failed"} :
          MarkAlert(p, state) /\ (state = "delivered" <=> digest[d].at = "sent")
  BY DEF MarkBundled
<1> DEFINE rest == [digest[d] EXCEPT !.listed = digest[d].listed \ {p}]
           run == IF Bundle(d) = {p} THEN AfterBundle(rest) ELSE rest
<1>3. /\ SetDigest(d, run)
      /\ UNCHANGED <<cooled, event, watch, told, sweep, settings, mishaps, hist>>
  BY DEF MarkBundled
<1>4. /\ rest \in Digest /\ rest.at = digest[d].at /\ rest.watch = digest[d].watch
      /\ rest.listed = digest[d].listed \ {p}
  BY <1>1 DEF Digest
<1> HIDE DEF rest
<1>5. /\ run \in Digest /\ (run.at = "idle" => run.listed = {})
      /\ run.listed = digest[d].listed \ {p}
      /\ \A q \in run.listed : /\ run.at = "sent" => run.watch = digest[d].watch
                               /\ (run.at = "sent" /\ q[1] = run.watch)
                                  <=> (digest[d].at = "sent" /\ q[1] = digest[d].watch)
  <2>1. CASE Bundle(d) = {p}
    <3>1. \A q \in digest[d].listed \ {p} : q[1] # digest[d].watch
      BY <2>1 DEF Bundle
    <3>2. QED BY <2>1, <3>1, <1>4, AfterBundleIs
  <2>2. CASE Bundle(d) # {p}
    BY <2>2, <1>1, <1>4
  <2>3. QED BY <2>1, <2>2
<1> HIDE DEF run
<1>6. DigestMoved(d, run)
  BY <1>3, <1>5, DigestMoves
<1>7. /\ alert' \in [Pair -> AlertRow] /\ alert'[p].state = state
      /\ \A q \in Pair : /\ alert'[q].cooldownBucket = alert[q].cooldownBucket
                         /\ q # p => alert'[q] = alert[q]
  BY <1>1, <1>2 DEF MarkAlert, AlertsInv, TypeOK, AlertRow
<1>8. alert[p].state # "none" /\ p \in InDigest(d)
  BY <1>1 DEF AlertsInv, RowInv, InDigest
<1>9. \A q \in Pair : q \in run.listed <=> q \in InDigest(d) /\ q # p
  BY <1>5 DEF InDigest
<1>10. TypeOK'
  BY <1>3, <1>6, <1>7 DEF AlertsInv, TypeOK, DigestMoved
<1>11. KnownInv' /\ CooldownInv'
  BY <1>3, <1>7, <1>8 DEF AlertsInv, KnownInv, CooldownInv
<1>12. RowInv'
  BY <1>3, <1>6, <1>7, <1>9 DEF AlertsInv, RowInv, DigestMoved
<1>13. ExclusiveInv'
  BY <1>3, <1>6, <1>9 DEF AlertsInv, ExclusiveInv, DigestMoved
<1>14. PendingInv'
  BY <1>3, <1>6, <1>7, <1>8, <1>9 DEF AlertsInv, ExclusiveInv, PendingInv, DigestMoved
<1>15. ToldInv'
  <2> SUFFICES ASSUME ~hist.stopped, NEW q \in Pair, q \notin hist.raced
               PROVE  /\ \A t \in Sweeper : q \in InSweep(t)' =>
                             told[q] = Announced(sweep[t].at = "sent")
                      /\ \A f \in Digester : q \in InDigest(f)' =>
                             told[q] = Announced(digest'[f].at = "sent" /\ q[1] = digest'[f].watch)
                      /\ (/\ \A t \in Sweeper : q \notin InSweep(t)'
                          /\ \A f \in Digester : q \notin InDigest(f)')
                             => told[q] = Announced(alert'[q].state = "delivered")
    BY <1>3 DEF ToldInv
  <2>1. CASE q = p
    <3>1. /\ \A s \in Sweeper : p \notin InSweep(s)
          /\ \A f \in Digester : f # d => p \notin InDigest(f)
      BY <2>1, <1>8 DEF AlertsInv, ExclusiveInv
    <3>2. told[p] = Announced(state = "delivered")
      BY <2>1, <1>1, <1>2, <1>8 DEF AlertsInv, ToldInv
    <3>3. QED BY <2>1, <3>1, <3>2, <1>6, <1>7, <1>9 DEF DigestMoved
  <2>2. CASE q # p /\ q \in InDigest(d)
    <3>1. told[q] = Announced(digest[d].at = "sent" /\ q[1] = digest[d].watch)
      BY <2>2 DEF AlertsInv, ToldInv
    <3>2. /\ \A s \in Sweeper : q \notin InSweep(s)
          /\ \A f \in Digester : f # d => q \notin InDigest(f)
      BY <2>2 DEF AlertsInv, ExclusiveInv
    <3>3. q \in run.listed
      BY <2>2, <1>9
    <3>4. told[q] = Announced(run.at = "sent" /\ q[1] = run.watch)
      BY <3>1, <3>3, <1>5 DEF Announced
    <3>5. QED BY <3>2, <3>3, <3>4, <1>6 DEF DigestMoved
  <2>3. CASE q # p /\ q \notin InDigest(d)
    BY <2>3, <1>6, <1>7, <1>9 DEF AlertsInv, ToldInv, DigestMoved
  <2>4. QED BY <2>1, <2>2, <2>3
<1>16. DueInv'
  BY <1>3, <1>7, <1>8, AnswersStay DEF AlertsInv, DueInv, Before
<1>17. QED
  BY <1>6, <1>10, <1>11, <1>12, <1>13, <1>14, <1>15, <1>16 DEF AlertsInv, DigestMoved

\* A digest that a mishap stops.
LEMMA DigestStops ==
    ASSUME AlertsInv, NEW d \in Digester, DigestThrows(d) \/ DigestCrashes(d)
    PROVE  AlertsInv'
<1>1. PICK run : /\ run \in Digest /\ (run.at = "idle" => run.listed = {})
                 /\ SetDigest(d, run) /\ run.listed \subseteq digest[d].listed
  <2>1. CASE SetDigest(d, IdleDigest)
    BY <2>1 DEF IdleDigest, Digest
  <2>2. CASE \E w \in Watch : SetDigest(d, AfterBundle(AtBundle(digest[d], "bundles", w)))
    <3>1. PICK w \in Watch : SetDigest(d, AfterBundle(AtBundle(digest[d], "bundles", w)))
      BY <2>2
    <3> DEFINE r == AtBundle(digest[d], "bundles", w)
    <3>2. r \in Digest /\ r.listed = digest[d].listed
      BY DEF AtBundle, Digest, AlertsInv, TypeOK
    <3>3. SetDigest(d, AfterBundle(r))
      BY <3>1
    <3> HIDE DEF r
    <3>4. QED BY <3>2, <3>3, AfterBundleIs
  <2>3. QED BY <2>1, <2>2 DEF DigestThrows, DigestCrashes
<1>2. /\ UNCHANGED <<cooled, event, watch, alert, told, sweep, settings>>
      /\ mishaps' \in 0..MaxMishaps
      /\ hist' = [hist EXCEPT !.stopped = TRUE]
  BY AlertsAssumption DEF DigestThrows, DigestCrashes, Mishap, AlertsInv, TypeOK
<1>3. DigestMoved(d, run)
  BY <1>1, <1>2, DigestMoves
<1>4. /\ TypeOK' /\ hist'.raced = hist.raced /\ hist'.due = hist.due
      /\ hist'.matched = hist.matched /\ hist'.stopped
  BY <1>2, <1>3 DEF AlertsInv, TypeOK, DigestMoved
<1>5. /\ KnownInv' /\ RowInv' /\ ExclusiveInv' /\ PendingInv' /\ CooldownInv'
      /\ DueInv'
  BY <1>1, <1>2, <1>3, <1>4, DigestLetsGo
<1>6. ToldInv'
  BY <1>4 DEF ToldInv
<1>7. QED BY <1>3, <1>4, <1>5, <1>6 DEF AlertsInv, DigestMoved

-----------------------------------------------------------------------------
LEMMA AlertsInvStep == AlertsInv /\ [Next]_vars => AlertsInv'
<1> SUFFICES ASSUME AlertsInv, [Next]_vars PROVE AlertsInv' OBVIOUS
<1>1. ASSUME NEW e \in Event, NEW x \in Window, NEW b \in BOOLEAN,
             RecordDomainEvent(e, x, b)
      PROVE  AlertsInv'
  BY <1>1, RecordKeeps
<1>2. ASSUME NEW w \in Watch, \/ \E c \in Cadence : SetCadence(w, c)
                              \/ \E b \in BOOLEAN : SetMuted(w, b)
      PROVE  AlertsInv'
  BY <1>2, SettingKeeps
<1>3. ASSUME NEW s \in Sweeper,
             SweepStep(s) \/ NotifyFails(s) \/ SweepThrows(s) \/ SweepCrashes(s)
      PROVE  AlertsInv'
  BY <1>3, SelectKeeps, StampKeeps, MatchKeeps, ClaimKeeps, AtAlertKeeps, MarkKeeps,
     SweepStops DEF SweepStep
<1>4. ASSUME NEW d \in Digester,
             \/ DigestStep(d)
             \/ \E w \in Watch : SendBundleFails(d, w)
             \/ DigestThrows(d) \/ DigestCrashes(d)
      PROVE  AlertsInv'
  BY <1>4, ListKeeps, BundleKeeps, MarkBundledKeeps, DigestStops DEF DigestStep
<1>5. CASE UNCHANGED vars
  <2>1. UNCHANGED <<cooled, event, watch, alert, told, sweep, digest, settings, mishaps,
                    hist>>
    BY <1>5 DEF vars
  <2>2. TypeOK' /\ KnownInv'
    BY <2>1 DEF AlertsInv, TypeOK, KnownInv
  <2>3. DueInv'
    BY <2>1, AnswersStay DEF AlertsInv, DueInv, Before
  <2>4. QED BY <2>1, <2>2, <2>3, NothingInHandMoves DEF AlertsInv
<1>6. QED BY <1>1, <1>2, <1>3, <1>4, <1>5 DEF Next

\* AlertsInv holds in every state.
THEOREM AlertsInvariant == Spec => []AlertsInv
<1>1. QED BY AlertsInvInit, AlertsInvStep, PTL DEF Spec

\* The state stays well typed.
THEOREM TypeCorrect == Spec => []TypeOK
<1>1. AlertsInv => TypeOK
  BY DEF AlertsInv
<1>2. QED BY <1>1, AlertsInvariant, PTL

\* A person is told of a change at most once, and once of a subject and rule in a
\* cooldown window, whatever the number of sweeps and digests, unless one of them
\* was stopped halfway or an alert was in two pairs of hands.
THEOREM PeopleAreToldOnce == Spec => []ToldOnce
<1>1. AlertsInv => ToldOnce
  <2> SUFFICES ASSUME AlertsInv, NEW p \in Pair, NEW q \in Pair,
                      told[p] > 0, told[q] > 0, p[1] = q[1],
                      TopicOf[p[2]] = TopicOf[q[2]],
                      \/ p = q
                      \/ /\ alert[p].cooldownBucket = alert[q].cooldownBucket
                         /\ alert[p].cooldownBucket # NoWindow,
                      ~hist.stopped, {p, q} \cap hist.raced = {}
               PROVE  p = q /\ told[p] = 1
    BY DEF ToldOnce
  <2>1. p = q
    BY DEF AlertsInv, RowInv, CooldownInv
  <2>2. told[p] = 1
    BY DEF AlertsInv, ToldInv, Announced
  <2>3. QED BY <2>1, <2>2
<1>2. QED BY <1>1, AlertsInvariant, PTL

\* What the history says of an alert is what happened: it is delivered exactly if
\* the person was told.
THEOREM TheHistoryIsTrue == Spec => []HistoryIsTrue
<1>1. AlertsInv => HistoryIsTrue
  <2> SUFFICES ASSUME AlertsInv, ~hist.stopped, NEW p \in Pair, p \notin InHand,
                      p \notin hist.raced
               PROVE  alert[p].state = "delivered" <=> told[p] > 0
    BY DEF HistoryIsTrue
  <2>1. /\ \A s \in Sweeper : p \notin InSweep(s)
        /\ \A d \in Digester : p \notin InDigest(d)
    BY DEF InHand
  <2>2. told[p] = Announced(alert[p].state = "delivered")
    BY <2>1 DEF AlertsInv, ToldInv
  <2>3. QED BY <2>2 DEF Announced
<1>2. QED BY <1>1, AlertsInvariant, PTL

\* No fact is lost between being claimed and being matched, and each watch it was
\* due to has an alert that answers it, unless a run was stopped halfway.
THEOREM ProcessedFactsWereMatched == Spec => []ProcessedWasMatched
<1>1. AlertsInv => ProcessedWasMatched
  <2> SUFFICES ASSUME AlertsInv, ~hist.stopped, NEW e \in Event,
                      event[e].state = "processed",
                      \A s \in Sweeper : e \notin sweep[s].todo \cup {sweep[s].event}
               PROVE  /\ e \in hist.matched
                      /\ \A w \in Watch : <<e, w>> \in hist.due => Answered(e, w)
    BY DEF ProcessedWasMatched, Answered
  <2>1. \A w \in Watch : ~Before(e, w)
    BY DEF Before
  <2>2. QED BY <2>1 DEF AlertsInv, DueInv
<1>2. QED BY <1>1, AlertsInvariant, PTL

\* An alert that was delivered or held back on purpose is not changed by later sweeps
\* and digests, unless two had it in hand.
THEOREM OutcomesStand == Spec => OutcomeStands
<1> DEFINE Stands ==
        \A p \in Pair :
            /\ alert[p].state \in {"delivered", "suppressed"}
            /\ p \notin hist.raced
            => alert'[p] = alert[p]
<1>1. AlertsInv /\ [Next]_vars => Stands
  <2> SUFFICES ASSUME AlertsInv, [Next]_vars, NEW p \in Pair,
                      alert[p].state \in {"delivered", "suppressed"},
                      p \notin hist.raced
               PROVE  alert'[p] = alert[p]
    OBVIOUS
  <2> USE AlertsAssumption
  <2>1. /\ \A s \in Sweeper : p \notin InSweep(s)
        /\ \A d \in Digester : p \notin InDigest(d)
    BY DEF AlertsInv, PendingInv
  <2>2. ASSUME NEW q \in Pair, q # p, NEW state, MarkAlert(q, state)
        PROVE  alert'[p] = alert[p]
    BY <2>2 DEF MarkAlert, AlertsInv, TypeOK
  <2>3. ASSUME NEW s \in Sweeper, Suppress(s) \/ MarkSent(s) \/ MarkUnsent(s)
        PROVE  alert'[p] = alert[p]
    <3>1. SweepPair(s) \in Pair /\ SweepPair(s) \in InSweep(s)
      BY <2>3 DEF Suppress, MarkSent, MarkUnsent, AlertsInv, ShapeInv, SweepShape,
         AtAlert, SweepPair, Pair, InSweep
    <3>2. \E state : MarkAlert(SweepPair(s), state)
      BY <2>3 DEF Suppress, MarkSent, MarkUnsent
    <3>3. QED BY <2>1, <2>2, <3>1, <3>2
  <2>4. ASSUME NEW s \in Sweeper, NEW c \in sweep[s].found, ClaimAlert(s, c)
        PROVE  alert'[p] = alert[p]
    <3>1. PICK q : /\ q = <<c.watch, ChangeOf[sweep[s].event]>>
      OBVIOUS
    <3>2. \/ UNCHANGED alert
          \/ /\ alert[q].state = "none"
             /\ \E row : alert' = [alert EXCEPT ![q] = row]
      BY <2>4, <3>1 DEF ClaimAlert, Claimable
    <3>3. QED BY <3>2 DEF AlertsInv, TypeOK
  <2>5. ASSUME NEW d \in Digester, NEW q \in Bundle(d), MarkBundled(d, q)
        PROVE  alert'[p] = alert[p]
    <3>1. q \in Pair /\ q \in InDigest(d)
      BY DEF Bundle, InDigest, AlertsInv, TypeOK, Digest
    <3>2. \E state : MarkAlert(q, state)
      BY <2>5 DEF MarkBundled
    <3>3. QED BY <2>1, <2>2, <3>1, <3>2
  <2>6. ASSUME NEW s \in Sweeper,
               SweepStep(s) \/ NotifyFails(s) \/ SweepThrows(s) \/ SweepCrashes(s)
        PROVE  alert'[p] = alert[p]
    BY <2>6, <2>3, <2>4 DEF SweepStep, SelectUnprocessed, StampProcessed,
       MatchDomainEvent, CountDeliveries, Notify, NotifyFails, SweepThrows, SweepCrashes
  <2>7. ASSUME NEW d \in Digester,
               \/ DigestStep(d)
               \/ \E w \in Watch : SendBundleFails(d, w)
               \/ DigestThrows(d) \/ DigestCrashes(d)
        PROVE  alert'[p] = alert[p]
    BY <2>7, <2>5 DEF DigestStep, ListPending, ReadWatches, SkipBundle, SendBundle,
       SendBundleFails, DigestThrows, DigestCrashes
  <2>8. CASE UNCHANGED vars
    BY <2>8 DEF vars
  <2>9. QED
    BY <2>6, <2>7, <2>8 DEF Next, RecordDomainEvent, SetCadence, SetMuted
<1>2. QED BY <1>1, AlertsInvariant, PTL DEF Spec, OutcomeStands
=============================================================================
