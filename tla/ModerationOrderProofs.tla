------------------------ MODULE ModerationOrderProofs ------------------------
(***************************************************************************)
(* What ModerationEnforcement does to the object when revisions are        *)
(* applied in order, and what every plan is like, for any number of        *)
(* workers, revisions and mishaps.                                         *)
(*                                                                         *)
(* As long as no run crashed or lost its lease, a revision has one run at  *)
(* a time (AloneInv). Then a claimed row is in the hands of that run       *)
(* (ClaimedInv), what it has left behind is on record (CarriedInv), and so *)
(* is every action of a revision that was told (ToldInv) or is done        *)
(* (DoneInv): an effect that threw has given its row back.                 *)
(*                                                                         *)
(* If the revisions are applied in order besides, there is one run at all, *)
(* and it is of the newest revision that was begun (SingleInv); OutcomeInv *)
(* ties the records of that revision to the object.                        *)
(*                                                                         *)
(* BackInv is what a review's restore finds: the newest restriction on     *)
(* record is the last one that was carried out, and says what it replaced. *)
(***************************************************************************)
EXTENDS ModerationEnforcementProofs

Lever == {"restrict", "restore", "flag_for_review"}

PlannedRun(w) ==
    /\ run[w].pc = "idle" => run[w].rev = 0
    /\ run[w].pc # "idle" => run[w].todo \subseteq Plan(run[w].rev)
    /\ InEffect(w) => run[w].action \in Plan(run[w].rev)
    /\ run[w].pc = "complete" => run[w].todo = {}
    /\ run[w].pc = "decline" => mode # "automatic"
    /\ run[w].pc \in {"lookup", "write", "mark"} => run[w].action \in Lever
    /\ run[w].pc = "lookup" => run[w].action = "restore"
    /\ run[w].pc \in {"lookup", "write"} =>
          (run[w].target = "removed" <=> run[w].action = "restrict")
    /\ run[w].pc \in {"write", "mark"} /\ run[w].action = "restrict" =>
          run[w].previous # "removed"

PlannedInv == \A w \in Worker : PlannedRun(w)

ReplacedInv == \A r \in Revision :
    /\ ledger[r]["restrict"].status = "applied" =>
          ledger[r]["restrict"].previous # "removed"
    /\ \A a \in Action : ledger[r][a].status = "none" => ledger[r][a] = NoLedgerRow

BegunInv ==
    /\ \A r \in Revision : work[r] = "absent" => r \notin hist.begun
    /\ \A r \in Revision : work[r] = "done" => r \in hist.begun
    /\ \A w \in Worker : run[w].pc # "idle" => run[w].rev \in hist.begun
    /\ \A r \in Revision, a \in Action :
          ledger[r][a] # NoLedgerRow => r \in hist.begun

Ordered == hist.calm /\ hist.inOrder

AloneInv == \A v, w \in Worker :
    run[v].pc # "idle" /\ run[w].pc # "idle" /\ run[v].rev = run[w].rev => v = w

SingleInv == \A v, w \in Worker : run[v].pc # "idle" =>
    /\ \A q \in hist.begun : q <= run[v].rev
    /\ run[w].pc # "idle" => v = w

Closed == {"skipped", "applied"}

OnRecord(r, a) == ledger[r][a].status \in Closed

ClaimedInv == \A r \in Revision, a \in Action :
    ledger[r][a].status = "claimed" =>
        \E w \in Worker : InEffect(w) /\ run[w].rev = r /\ run[w].action = a

CarriedInv == \A w \in Worker : run[w].pc # "idle" =>
    \A a \in Plan(run[w].rev) \ run[w].todo :
        OnRecord(run[w].rev, a) \/ (InEffect(w) /\ run[w].action = a)

DoneInv == \A r \in Revision :
    work[r] = "done" => \A a \in Plan(r) : OnRecord(r, a)

ToldInv == \A r \in hist.told : \A a \in Plan(r) : OnRecord(r, a)

CalmInv == hist.calm => AloneInv /\ ClaimedInv /\ CarriedInv /\ DoneInv /\ ToldInv

OrderedInv == Ordered => SingleInv

\* The object while an action is being recorded, and once it is on record.
EffectDone(a) ==
    /\ a = "restrict" => subject = "removed"
    /\ a = "restore" => subject # "removed"

Newest(r) == r \in hist.begun /\ \A q \in hist.begun : q <= r

OutcomeInv == Ordered /\ Enforceable =>
    /\ \A w \in Worker : run[w].pc \in {"mark", "skip"} => EffectDone(run[w].action)
    /\ \A r \in Revision, a \in Action :
          Newest(r) /\ a \in Plan(r) /\ OnRecord(r, a) => EffectDone(a)

OrderInv ==
    /\ EnforcementInv /\ PlannedInv /\ ReplacedInv /\ BegunInv
    /\ CalmInv /\ OrderedInv /\ OutcomeInv

\* A listing is shown or hidden and nothing else: no run asks the ledger what
\* its removal replaced.
PropertyRun(w) ==
    /\ run[w].pc # "lookup"
    /\ run[w].pc = "write" => run[w].target # "under_review"

PropertyInv == type # "review" =>
    /\ subject # "under_review" /\ hist.taken = "active"
    /\ \A w \in Worker : PropertyRun(w)

Undisturbed == Ordered /\ ~hist.raced /\ mishaps = 0 /\ subject # "gone"

Marking(w) == run[w].pc = "mark" /\ run[w].action = "restrict"

IsLatest(r) == r \in AppliedRestrictions /\ \A q \in AppliedRestrictions : q <= r

\* created_at of the restrict rows follows the revisions.
OlderInv == \A r \in Revision : ledger[r]["restrict"] # NoLedgerRow =>
    older[r] = {q \in Revision : q < r /\ ledger[q]["restrict"] # NoLedgerRow}

RemovedInv == subject = "removed" =>
    AppliedRestrictions # {} \/ \E w \in Worker : Marking(w)

MarkingInv == \A w \in Worker : Marking(w) => run[w].previous = hist.taken

LatestInv == (\A w \in Worker : ~Marking(w)) =>
    \A r \in Revision : IsLatest(r) => ledger[r]["restrict"].previous = hist.taken

\* What a run has read still holds when it writes.
FreshRun(w) ==
    /\ run[w].pc # "release"
    /\ run[w].pc = "write" /\ run[w].action = "restrict" => subject = run[w].previous
    /\ run[w].pc = "write" /\ run[w].action = "flag_for_review" => subject # "removed"
    /\ run[w].pc = "lookup" => subject = "removed"
    /\ run[w].pc = "write" /\ run[w].action = "restore" /\ type = "review" =>
          run[w].target = hist.taken

BackInv == Undisturbed =>
    /\ OlderInv /\ RemovedInv /\ MarkingInv /\ LatestInv
    /\ \A w \in Worker : FreshRun(w)

-----------------------------------------------------------------------------
(* Plans.                                                                  *)

\* A plan that takes down does nothing else to the object, nor one that gives
\* back, and no plan lifts a mark.
LEMMA PlanShape ==
    ASSUME NEW decision
    PROVE  /\ "unflag" \notin PlanEnforcement(decision)
           /\ "restrict" \in PlanEnforcement(decision) =>
                 /\ "restore" \notin PlanEnforcement(decision)
                 /\ "flag_for_review" \notin PlanEnforcement(decision)
           /\ "restore" \in PlanEnforcement(decision) =>
                 "flag_for_review" \notin PlanEnforcement(decision)
<1> DEFINE R == decision.recommended
           A == WithRestoreForNoViolation(decision.outcome, {ActionFor(r) : r \in R})
           F == FallbackFor(decision.outcome, decision.severities)
<1>1. CASE R # {}
  <2>1. PlanEnforcement(decision) = Collapse(A) BY <1>1 DEF PlanEnforcement
  <2>2. "unflag" \notin A
    <3>1. \A r : ActionFor(r) # "unflag" BY DEF ActionFor
    <3>2. QED BY <3>1 DEF WithRestoreForNoViolation
  <2> HIDE DEF A
  <2>3. QED BY <2>1, <2>2 DEF Collapse
<1>2. CASE R = {}
  <2>1. PlanEnforcement(decision) = {F} BY <1>2 DEF PlanEnforcement
  <2>2. F # "unflag" BY DEF FallbackFor, SeverityFallback
  <2> HIDE DEF F
  <2>3. QED BY <2>1, <2>2
<1>3. QED BY <1>1, <1>2

\* PlanIsSound, for any recommendations and severities whatsoever.
LEMMA PlansAreSound ==
    ASSUME type \in SubjectType, NEW o \in Outcome, NEW R, NEW S
    PROVE  SoundFor([outcome |-> o, recommended |-> R, severities |-> S])
<1> DEFINE decision == [outcome |-> o, recommended |-> R, severities |-> S]
           plan == PlanEnforcement(decision)
           A == WithRestoreForNoViolation(o, {ActionFor(r) : r \in R})
           F == FallbackFor(o, S)
           told == R \cap Restricting # {}
<1>1. decision.outcome = o /\ decision.recommended = R /\ decision.severities = S
  OBVIOUS
<1>2. \A a, b \in plan : ActsOn(a) # {} /\ ActsOn(b) # {} => a = b
  <2>1. \A a \in Action : ActsOn(a) # {} => a \in Lever \cup {"unflag"}
    BY DEF ActsOn, Action, Lever
  <2>2. plan \subseteq Action BY PlanType
  <2>3. /\ "unflag" \notin plan
        /\ "restrict" \in plan => "restore" \notin plan /\ "flag_for_review" \notin plan
        /\ "restore" \in plan => "flag_for_review" \notin plan
    BY PlanShape
  <2> HIDE DEF plan
  <2>4. QED BY <2>1, <2>2, <2>3 DEF Lever
<1>3. CASE R # {}
  <2>1. plan = Collapse(A) BY <1>1, <1>3 DEF PlanEnforcement
  <2>2. /\ A # {}
        /\ o = "no_violation" => "restore" \in A
        /\ "restrict" \in A <=> told
        /\ "suspend_user" \in R => "manual_review" \in A
    <3>1. \A r : ActionFor(r) = "restrict" <=> r \in Restricting
      BY DEF ActionFor, Restricting, Flagging, Permitting
    <3>2. ActionFor("suspend_user") = "manual_review"
      BY DEF ActionFor, Restricting, Flagging, Permitting
    <3>3. QED BY <1>3, <3>1, <3>2 DEF WithRestoreForNoViolation
  <2> HIDE DEF A
  <2>3. /\ Collapse(A) # {}
        /\ "none" \in Collapse(A) => Collapse(A) = {"none"}
        /\ "restore" \in A /\ "restrict" \notin A => "restore" \in Collapse(A)
        /\ "restrict" \in Collapse(A) => "restrict" \in A
        /\ "manual_review" \in A => "manual_review" \in Collapse(A)
    BY <2>2 DEF Collapse
  <2> HIDE DEF plan, told
  <2>4. /\ plan # {}
        /\ "none" \in plan => plan = {"none"}
        /\ o = "no_violation" /\ ~told => "restore" \in plan
        /\ "restrict" \in plan => told
        /\ "suspend_user" \in R => "manual_review" \in plan
    BY <2>1, <2>2, <2>3
  <2>5. QED BY <1>1, <1>2, <2>4 DEF SoundFor, plan, told
<1>4. CASE R = {}
  <2>1. plan = {F} BY <1>1, <1>4 DEF PlanEnforcement
  <2>2. /\ o = "no_violation" => F = "restore"
        /\ F = "restrict" => o = "violation" /\ "high" \in S /\ "critical" \notin S
    BY DEF FallbackFor, SeverityFallback, Outcome
  <2> HIDE DEF F
  <2>3. /\ plan # {}
        /\ "none" \in plan => plan = {"none"}
        /\ o = "no_violation" => "restore" \in plan
        /\ "restrict" \in plan => o = "violation" /\ "high" \in S /\ "critical" \notin S
    BY <2>1, <2>2
  <2> HIDE DEF plan
  <2>4. QED BY <1>1, <1>2, <1>4, <2>3 DEF SoundFor, plan
<1>5. QED BY <1>3, <1>4

-----------------------------------------------------------------------------
(* What a step does to a run, to a row and to the object.                  *)

\* The run u takes a step of its own.
Acts(u) ==
    \/ \E r \in Revision : Start(u, r)
    \/ \E a \in Action : ClaimAction(u, a)
    \/ Decline(u) \/ ReadSubject(u) \/ ReadLedger(u) \/ WriteSubject(u)
    \/ MarkApplied(u) \/ MarkSkipped(u) \/ EffectThrows(u) \/ ReleaseClaim(u)
    \/ CacheDecision(u) \/ Complete(u) \/ Crash(u)

LEMMA StepIs ==
    ASSUME [Next]_vars
    PROVE  \/ \E u \in Worker : Acts(u)
           \/ \E r \in Revision : Arrive(r)
           \/ Escalate \/ Delete \/ UNCHANGED vars
  BY DEF Next, Acts

\* The others wait.
LEMMA ActsAlone ==
    ASSUME TypeOK, NEW u \in Worker, Acts(u), NEW v \in Worker, v # u
    PROVE  run'[v] = run[v]
  BY DEF TypeOK, Acts, Start, ClaimAction, Decline, ReadSubject, ReadLedger,
         WriteSubject, MarkApplied, MarkSkipped, EffectThrows, ReleaseClaim,
         CacheDecision, Complete, Crash, Goto

LEMMA NobodyActs ==
    ASSUME \/ \E r \in Revision : Arrive(r)
           \/ Escalate \/ Delete \/ UNCHANGED vars
    PROVE  UNCHANGED <<run, ledger, older, mishaps, type, mode, decided>>
  BY DEF Arrive, Escalate, Delete, vars, config

\* What a case is about, the mode and the decisions are fixed.
LEMMA Fixed ==
    ASSUME [Next]_vars
    PROVE  UNCHANGED <<type, mode, decided>>
  BY DEF Next, vars, config, Arrive, Start, ClaimAction, Decline, ReadSubject,
         ReadLedger, WriteSubject, MarkApplied, MarkSkipped, EffectThrows,
         ReleaseClaim, CacheDecision, Complete, Crash, Escalate, Delete

\* A run that goes on keeps everything but its place.
LEMMA GoesOn ==
    ASSUME TypeOK, NEW w \in Worker,
           NEW pc \in {"next", "write", "mark", "skip", "release", "complete"},
           Goto(w, pc)
    PROVE  /\ run'[w].pc = pc /\ run'[w].rev = run[w].rev
           /\ run'[w].todo = run[w].todo /\ run'[w].action = run[w].action
           /\ run'[w].target = run[w].target /\ run'[w].previous = run[w].previous
  BY DEF Goto, TypeOK, Run

LEMMA StartIs ==
    ASSUME TypeOK, NEW w \in Worker, NEW r \in Revision, Start(w, r)
    PROVE  /\ run[w].pc = "idle" /\ work[r] = "owed"
           /\ run'[w].pc = "next" /\ run'[w].rev = r /\ run'[w].todo = Plan(r)
           /\ UNCHANGED <<work, ledger, older, subject>>
<1> DEFINE started == [IdleRun EXCEPT !.pc = "next", !.rev = r, !.todo = Plan(r)]
<1>1. run' = [run EXCEPT ![w] = started] BY DEF Start
<1>2. started.pc = "next" /\ started.rev = r /\ started.todo = Plan(r)
  BY DEF IdleRun
<1> HIDE DEF started
<1>3. run'[w] = started BY <1>1 DEF TypeOK
<1>4. QED BY <1>2, <1>3 DEF Start

\* An action is claimed, or found on the ledger and passed over.
LEMMA ClaimIs ==
    ASSUME TypeOK, NEW w \in Worker, NEW a \in Action, ClaimAction(w, a)
    PROVE  /\ run[w].pc = "next" /\ a \in run[w].todo
           /\ run'[w].rev = run[w].rev /\ run'[w].todo = run[w].todo \ {a}
           /\ UNCHANGED <<work, subject, mishaps, hist>>
           /\ \/ /\ ledger[run[w].rev][a] # NoLedgerRow
                 /\ run'[w].pc = "next" /\ UNCHANGED <<ledger, older>>
              \/ /\ ledger[run[w].rev][a] = NoLedgerRow
                 /\ run'[w].action = a
                 /\ run'[w].pc = IF ModeAllows(a) THEN "read" ELSE "decline"
                 /\ older' = IF a = "restrict" THEN RestrictClaimed(run[w].rev)
                             ELSE older
<1>1. /\ run[w].pc = "next" /\ a \in run[w].todo
      /\ UNCHANGED <<work, subject, mishaps, hist>>
  BY DEF ClaimAction
<1>2. CASE ledger[run[w].rev][a] # NoLedgerRow
  <2>1. run' = [run EXCEPT ![w].todo = @ \ {a}] /\ UNCHANGED <<ledger, older>>
    BY <1>2 DEF ClaimAction
  <2>2. /\ run'[w].pc = run[w].pc /\ run'[w].rev = run[w].rev
        /\ run'[w].todo = run[w].todo \ {a}
    BY <2>1 DEF TypeOK, Run
  <2>3. QED BY <1>1, <1>2, <2>1, <2>2
<1>3. CASE ledger[run[w].rev][a] = NoLedgerRow
  <2> DEFINE pc == IF ModeAllows(a) THEN "read" ELSE "decline"
             next == [run[w] EXCEPT !.todo = run[w].todo \ {a}, !.action = a, !.pc = pc]
  <2>1. run' = [run EXCEPT ![w] = next]
        /\ older' = IF a = "restrict" THEN RestrictClaimed(run[w].rev) ELSE older
    BY <1>3 DEF ClaimAction
  <2>2. /\ next.pc = pc /\ next.rev = run[w].rev /\ next.action = a
        /\ next.todo = run[w].todo \ {a}
    BY DEF TypeOK, Run
  <2> HIDE DEF next
  <2>3. run'[w] = next BY <2>1 DEF TypeOK
  <2>4. QED BY <1>1, <1>3, <2>1, <2>2, <2>3
<1>4. QED BY <1>2, <1>3

LEMMA ReadIs ==
    ASSUME TypeOK, NEW w \in Worker, ReadSubject(w)
    PROVE  /\ run[w].pc = "read"
           /\ run'[w].rev = run[w].rev /\ run'[w].todo = run[w].todo
           /\ run'[w].action = run[w].action
           /\ UNCHANGED <<work, ledger, older, subject, mishaps, hist>>
           /\ \/ /\ subject \in ActsOn(run[w].action) /\ type \in {"property", "review"}
                 /\ run'[w].pc = IF AsksLedger(run[w].action) THEN "lookup" ELSE "write"
                 /\ run'[w].target = Target(run[w].action)
                 /\ run'[w].previous = subject
              \/ /\ ~(subject \in ActsOn(run[w].action) /\ type \in {"property", "review"})
                 /\ run'[w].pc = "skip"
<1> DEFINE a == run[w].action
<1>1. /\ run[w].pc = "read"
      /\ UNCHANGED <<work, ledger, older, subject, mishaps, hist>>
  BY DEF ReadSubject
<1>2. CASE subject \in ActsOn(a) /\ type \in {"property", "review"}
  <2> DEFINE pc == IF AsksLedger(a) THEN "lookup" ELSE "write"
             next == [run[w] EXCEPT !.pc = pc, !.target = Target(a), !.previous = subject]
  <2>1. run' = [run EXCEPT ![w] = next] BY <1>2 DEF ReadSubject
  <2>2. /\ next.pc = pc /\ next.rev = run[w].rev /\ next.action = a
        /\ next.todo = run[w].todo /\ next.target = Target(a) /\ next.previous = subject
    BY DEF TypeOK, Run
  <2> HIDE DEF next
  <2>3. run'[w] = next BY <2>1 DEF TypeOK
  <2>4. QED BY <1>1, <1>2, <2>2, <2>3
<1>3. CASE ~(subject \in ActsOn(a) /\ type \in {"property", "review"})
  <2>1. Goto(w, "skip") BY <1>3 DEF ReadSubject
  <2>2. QED BY <1>1, <1>3, <2>1, GoesOn
<1>4. QED BY <1>2, <1>3

\* A restore that asked the ledger.
LEMMA LookupIs ==
    ASSUME TypeOK, NEW w \in Worker, ReadLedger(w), run[w].action = "restore"
    PROVE  /\ run[w].pc = "lookup" /\ run'[w].pc = "write"
           /\ run'[w].rev = run[w].rev /\ run'[w].todo = run[w].todo
           /\ run'[w].action = run[w].action /\ run'[w].target \in RestoreTarget
           /\ run'[w].previous = run[w].previous
           /\ UNCHANGED <<work, ledger, older, subject, mishaps, hist>>
<1>1. PICK status \in RestoreTarget :
        run' = [run EXCEPT ![w] = [@ EXCEPT !.pc = "write", !.target = status]]
  BY DEF ReadLedger
<1> DEFINE next == [run[w] EXCEPT !.pc = "write", !.target = status]
<1>2. run' = [run EXCEPT ![w] = next] BY <1>1
<1>3. /\ next.pc = "write" /\ next.rev = run[w].rev /\ next.todo = run[w].todo
      /\ next.action = run[w].action /\ next.target = status
      /\ next.previous = run[w].previous
  BY DEF TypeOK, Run
<1> HIDE DEF next
<1>4. run'[w] = next BY <1>2 DEF TypeOK
<1>5. QED BY <1>3, <1>4 DEF ReadLedger

\* The steps that only move on, and the steps that end a run.
LEMMA MoveIs ==
    ASSUME TypeOK, NEW w \in Worker,
           \/ Decline(w) \/ MarkApplied(w) \/ MarkSkipped(w)
           \/ WriteSubject(w) \/ EffectThrows(w) \/ CacheDecision(w)
    PROVE  /\ run'[w].rev = run[w].rev /\ run'[w].todo = run[w].todo
           /\ run'[w].action = run[w].action /\ run'[w].target = run[w].target
           /\ run'[w].previous = run[w].previous
           /\ Decline(w) => run[w].pc = "decline" /\ run'[w].pc = "next"
           /\ MarkApplied(w) => run[w].pc = "mark" /\ run'[w].pc = "next"
           /\ MarkSkipped(w) => run[w].pc = "skip" /\ run'[w].pc = "next"
           /\ WriteSubject(w) => run[w].pc = "write" /\ run'[w].pc = "mark"
           /\ EffectThrows(w) =>
                 /\ run[w].pc \in {"read", "lookup", "write", "mark", "skip"}
                 /\ run'[w].pc = "release"
           /\ CacheDecision(w) =>
                 run[w].pc = "next" /\ run[w].todo = {} /\ run'[w].pc = "complete"
<1>1. CASE Decline(w) \/ MarkApplied(w) \/ MarkSkipped(w)
  <2>1. Goto(w, "next") /\ run[w].pc \in {"decline", "mark", "skip"}
    BY <1>1 DEF Decline, MarkApplied, MarkSkipped
  <2>2. QED
    BY <1>1, <2>1, GoesOn
    DEF Decline, MarkApplied, MarkSkipped, WriteSubject, EffectThrows, CacheDecision
<1>2. CASE WriteSubject(w)
  <2>1. Goto(w, "mark") /\ run[w].pc = "write" BY <1>2 DEF WriteSubject
  <2>2. QED
    BY <2>1, GoesOn DEF Decline, MarkApplied, MarkSkipped, EffectThrows, CacheDecision
<1>3. CASE EffectThrows(w)
  <2>1. Goto(w, "release") BY <1>3 DEF EffectThrows
  <2>2. QED
    BY <1>3, <2>1, GoesOn
    DEF Decline, MarkApplied, MarkSkipped, WriteSubject, EffectThrows, CacheDecision
<1>4. CASE CacheDecision(w)
  <2>1. Goto(w, "complete") /\ run[w].pc = "next" /\ run[w].todo = {}
    BY <1>4 DEF CacheDecision
  <2>2. QED
    BY <2>1, GoesOn DEF Decline, MarkApplied, MarkSkipped, WriteSubject, EffectThrows
<1>5. QED BY <1>1, <1>2, <1>3, <1>4

LEMMA EndIs ==
    ASSUME TypeOK, NEW w \in Worker, ReleaseClaim(w) \/ Complete(w) \/ Crash(w)
    PROVE  run'[w] = IdleRun
  BY DEF TypeOK, ReleaseClaim, Complete, Crash

\* Only the row a run is working on changes.
LEMMA RowChanges ==
    ASSUME TypeOK, RunInv, NEW u \in Worker, Acts(u),
           NEW r \in Revision, NEW a \in Action, ledger'[r][a] # ledger[r][a]
    PROVE  /\ run[u].pc # "idle" /\ run[u].rev = r
           /\ \/ /\ ClaimAction(u, a) /\ ledger[r][a] = NoLedgerRow
                 /\ ledger'[r][a] = [status |-> "claimed", previous |-> "null"]
              \/ /\ Decline(u) \/ MarkSkipped(u)
                 /\ run[u].action = a
                 /\ ledger'[r][a] = [status |-> "skipped", previous |-> "null"]
              \/ /\ MarkApplied(u) /\ run[u].action = a
                 /\ ledger'[r][a] = [status |-> "applied", previous |-> run[u].previous]
              \/ /\ ReleaseClaim(u) /\ run[u].action = a
                 /\ ledger'[r][a] = NoLedgerRow
<1>1. CASE \E q \in Revision : Start(u, q) BY <1>1 DEF Start
<1>2. ASSUME NEW b \in Action, ClaimAction(u, b)
      PROVE  /\ run[u].pc # "idle" /\ run[u].rev = r /\ b = a
             /\ ledger[r][a] = NoLedgerRow
             /\ ledger'[r][a] = [status |-> "claimed", previous |-> "null"]
  <2>1. run[u].pc = "next" /\ run[u].rev \in Revision BY <1>2 DEF ClaimAction, RunInv
  <2>2. /\ ledger[run[u].rev][b] = NoLedgerRow
        /\ ledger' = [ledger EXCEPT ![run[u].rev][b].status = "claimed"]
    BY <1>2 DEF ClaimAction
  <2>3. run[u].rev = r /\ b = a BY <2>1, <2>2 DEF TypeOK
  <2>4. ledger'[r][a] = [ledger[r][a] EXCEPT !.status = "claimed"]
    BY <2>2, <2>3 DEF TypeOK
  <2>5. QED BY <2>1, <2>2, <2>3, <2>4 DEF NoLedgerRow
<1>3. ASSUME NEW row, run[u].pc # "idle",
             ledger' = [ledger EXCEPT ![run[u].rev][run[u].action] = row]
      PROVE  run[u].rev = r /\ run[u].action = a /\ ledger'[r][a] = row
  <2>1. run[u].rev \in Revision BY <1>3 DEF RunInv
  <2>2. run[u].action \in Action BY DEF TypeOK, Run
  <2>3. QED BY <1>3, <2>1, <2>2 DEF TypeOK
<1>4. CASE Decline(u) \/ MarkSkipped(u)
  BY <1>3, <1>4 DEF Decline, MarkSkipped, SetLedger
<1>5. CASE MarkApplied(u) BY <1>3, <1>5 DEF MarkApplied, SetLedger
<1>6. CASE ReleaseClaim(u)
  <2>1. /\ run[u].pc # "idle"
        /\ ledger' = [ledger EXCEPT ![run[u].rev][run[u].action] = NoLedgerRow]
    BY <1>6 DEF ReleaseClaim
  <2>2. QED BY <1>3, <1>6, <2>1
<1>7. CASE \/ ReadSubject(u) \/ ReadLedger(u) \/ WriteSubject(u) \/ EffectThrows(u)
           \/ CacheDecision(u) \/ Complete(u) \/ Crash(u)
  BY <1>7 DEF ReadSubject, ReadLedger, WriteSubject, EffectThrows, CacheDecision,
     Complete, Crash
<1>8. QED BY <1>1, <1>2, <1>4, <1>5, <1>6, <1>7 DEF Acts

\* And a row a run writes is what it wrote.
LEMMA RowWritten ==
    ASSUME TypeOK, RunInv, NEW u \in Worker
    PROVE  /\ \A a \in Action : ClaimAction(u, a) /\ run'[u].pc # "next" =>
                 ledger'[run[u].rev][a].status = "claimed"
           /\ Decline(u) \/ MarkSkipped(u) =>
                 ledger'[run[u].rev][run[u].action].status \in Closed
           /\ MarkApplied(u) => ledger'[run[u].rev][run[u].action] =
                 [status |-> "applied", previous |-> run[u].previous]
<1>1. ASSUME NEW a \in Action, ClaimAction(u, a), run'[u].pc # "next"
      PROVE  ledger'[run[u].rev][a].status = "claimed"
  <2>1. run[u].pc = "next" /\ run[u].rev \in Revision BY <1>1 DEF ClaimAction, RunInv
  <2>2. ledger[run[u].rev][a] = NoLedgerRow BY <1>1, ClaimIs
  <2>3. ledger' = [ledger EXCEPT ![run[u].rev][a].status = "claimed"]
    BY <1>1, <2>2 DEF ClaimAction
  <2>4. QED BY <2>1, <2>3 DEF TypeOK, LedgerRow
<1>2. ASSUME NEW row, run[u].pc # "idle",
             ledger' = [ledger EXCEPT ![run[u].rev][run[u].action] = row]
      PROVE  ledger'[run[u].rev][run[u].action] = row
  <2>1. run[u].rev \in Revision BY <1>2 DEF RunInv
  <2>2. run[u].action \in Action BY DEF TypeOK, Run
  <2>3. QED BY <1>2, <2>1, <2>2 DEF TypeOK
<1>3. ASSUME Decline(u) \/ MarkSkipped(u)
      PROVE  ledger'[run[u].rev][run[u].action].status \in Closed
  <2>1. ledger'[run[u].rev][run[u].action] = [status |-> "skipped", previous |-> "null"]
    BY <1>2, <1>3 DEF Decline, MarkSkipped, SetLedger
  <2>2. QED BY <2>1 DEF Closed
<1>4. ASSUME MarkApplied(u)
      PROVE  ledger'[run[u].rev][run[u].action] =
                 [status |-> "applied", previous |-> run[u].previous]
  BY <1>2, <1>4 DEF MarkApplied, SetLedger
<1>5. QED BY <1>1, <1>3, <1>4

\* The object is written by an effect, by the community's counter, or deleted.
LEMMA SubjectChanges ==
    ASSUME [Next]_vars, subject' # subject
    PROVE  \/ Delete \/ Escalate
           \/ subject # "gone" /\ \E u \in Worker : WriteSubject(u) /\ subject' = run[u].target
  BY DEF Next, vars, config, Arrive, Start, ClaimAction, Decline, ReadSubject,
         ReadLedger, WriteSubject, MarkApplied, MarkSkipped, EffectThrows,
         ReleaseClaim, CacheDecision, Complete, Crash

\* What the steps remember.
LEMMA HistIs ==
    ASSUME TypeOK, NEW u \in Worker
    PROVE  /\ \A r \in Revision : Start(u, r) =>
                 /\ hist'.calm => hist.calm /\ \A v \in Worker : run[v].rev # r
                 /\ hist'.inOrder => hist.inOrder /\ \A q \in Revision :
                      /\ q > r => q \notin hist.begun
                      /\ q < r => \A v \in Worker : run[v].rev # q
                 /\ hist'.begun = hist.begun \cup {r} /\ hist'.told = hist.told
                 /\ hist'.raced = hist.raced /\ hist'.taken = hist.taken
           /\ Crash(u) => /\ hist'.calm = FALSE /\ hist'.begun = hist.begun
                          /\ hist'.told = hist.told
           /\ CacheDecision(u) =>
                 /\ hist'.calm = hist.calm /\ hist'.inOrder = hist.inOrder
                 /\ hist'.begun = hist.begun /\ hist'.raced = hist.raced
                 /\ hist'.taken = hist.taken
                 /\ hist'.told = hist.told \cup {run[u].rev}
           /\ WriteSubject(u) =>
                 /\ hist'.calm = hist.calm /\ hist'.inOrder = hist.inOrder
                 /\ hist'.told = hist.told
                 /\ hist'.begun = hist.begun /\ hist'.raced = hist.raced
                 /\ hist'.taken = IF run[u].target = "removed"
                                     /\ subject \in Status \ {"removed"}
                                  THEN subject ELSE hist.taken
           /\ \/ ReadSubject(u) \/ ReadLedger(u) \/ Decline(u) \/ MarkApplied(u)
              \/ MarkSkipped(u) \/ EffectThrows(u) \/ ReleaseClaim(u)
              \/ Complete(u)
              \/ (\E a \in Action : ClaimAction(u, a))
              => hist' = hist
<1> DEFINE H == [calm : BOOLEAN, inOrder : BOOLEAN, begun : SUBSET Revision,
                 raced : BOOLEAN, taken : Status, told : SUBSET Revision]
<1>1. hist \in H BY DEF TypeOK
<1>2. ASSUME NEW r \in Revision, Start(u, r)
      PROVE  /\ hist'.calm => hist.calm /\ \A v \in Worker : run[v].rev # r
             /\ hist'.inOrder => hist.inOrder /\ \A q \in Revision :
                  /\ q > r => q \notin hist.begun
                  /\ q < r => \A v \in Worker : run[v].rev # q
             /\ hist'.begun = hist.begun \cup {r} /\ hist'.told = hist.told
             /\ hist'.raced = hist.raced /\ hist'.taken = hist.taken
  <2> DEFINE calm == hist.calm /\ \A v \in Worker : run[v].rev # r
             inOrder == hist.inOrder /\ \A q \in Revision :
                 /\ q > r => q \notin hist.begun
                 /\ q < r => work[q] # "owed" /\ \A v \in Worker : run[v].rev # q
  <2>1. hist' = [hist EXCEPT !.calm = calm, !.begun = @ \cup {r}, !.inOrder = inOrder]
    BY <1>2 DEF Start
  <2> HIDE DEF calm, inOrder
  <2>2. /\ hist'.calm = calm /\ hist'.inOrder = inOrder
        /\ hist'.begun = hist.begun \cup {r} /\ hist'.told = hist.told
        /\ hist'.raced = hist.raced /\ hist'.taken = hist.taken
    BY <1>1, <2>1
  <2>3. QED BY <2>2 DEF calm, inOrder
<1>3. ASSUME Crash(u)
      PROVE  hist'.calm = FALSE /\ hist'.begun = hist.begun /\ hist'.told = hist.told
  BY <1>1, <1>3 DEF Crash
<1>4. ASSUME WriteSubject(u)
      PROVE  /\ hist'.calm = hist.calm /\ hist'.inOrder = hist.inOrder
             /\ hist'.told = hist.told
             /\ hist'.begun = hist.begun /\ hist'.raced = hist.raced
             /\ hist'.taken = IF run[u].target = "removed" /\ subject \in Status \ {"removed"}
                              THEN subject ELSE hist.taken
  BY <1>1, <1>4 DEF WriteSubject
<1>5. ASSUME \/ ReadSubject(u) \/ ReadLedger(u) \/ Decline(u) \/ MarkApplied(u)
             \/ MarkSkipped(u) \/ EffectThrows(u) \/ ReleaseClaim(u)
             \/ Complete(u)
             \/ (\E a \in Action : ClaimAction(u, a))
      PROVE  hist' = hist
  BY <1>5 DEF ClaimAction, Decline, ReadSubject, ReadLedger, MarkApplied,
     MarkSkipped, EffectThrows, ReleaseClaim, Complete
<1>6. ASSUME CacheDecision(u)
      PROVE  /\ hist'.calm = hist.calm /\ hist'.inOrder = hist.inOrder
             /\ hist'.begun = hist.begun /\ hist'.raced = hist.raced
             /\ hist'.taken = hist.taken /\ hist'.told = hist.told \cup {run[u].rev}
  BY <1>1, <1>6 DEF CacheDecision
<1>7. QED BY <1>2, <1>3, <1>4, <1>5, <1>6

LEMMA NobodysHist ==
    ASSUME TypeOK, \/ \E r \in Revision : Arrive(r)
                   \/ Escalate \/ Delete \/ UNCHANGED vars
    PROVE  /\ hist'.calm = hist.calm /\ hist'.inOrder = hist.inOrder
           /\ hist'.begun = hist.begun /\ hist'.taken = hist.taken
           /\ hist'.told = hist.told
           /\ hist'.raced = (hist.raced \/ (Escalate /\ \E w \in Worker : run[w].pc = "write"))
<1> DEFINE H == [calm : BOOLEAN, inOrder : BOOLEAN, begun : SUBSET Revision,
                 raced : BOOLEAN, taken : Status, told : SUBSET Revision]
           raced == \E w \in Worker : run[w].pc = "write"
<1>1. hist \in H BY DEF TypeOK
<1>2. CASE Escalate
  <2>1. hist' = [hist EXCEPT !.raced = @ \/ raced] BY <1>2 DEF Escalate
  <2> HIDE DEF raced
  <2>2. /\ hist'.calm = hist.calm /\ hist'.inOrder = hist.inOrder
        /\ hist'.begun = hist.begun /\ hist'.taken = hist.taken
        /\ hist'.told = hist.told
        /\ hist'.raced = (hist.raced \/ raced)
    BY <1>1, <2>1
  <2>3. QED BY <1>2, <2>2 DEF raced
<1>3. CASE ~Escalate
  <2>1. hist' = hist BY <1>3 DEF Arrive, Delete, vars
  <2> HIDE DEF raced
  <2>2. hist'.raced = (hist.raced \/ (Escalate /\ raced)) BY <1>1, <1>3, <2>1
  <2>3. QED BY <2>1, <2>2 DEF raced
<1>4. QED BY <1>2, <1>3

-----------------------------------------------------------------------------
(* The parts of the invariant that hold in any order.                      *)

\* A run keeps to its plan, and writes what its action is for.
LEMMA PlannedStep ==
    ASSUME TypeOK, PlannedInv, ReplacedInv, [Next]_vars
    PROVE  PlannedInv'
<1>1. \A r : Plan(r)' = Plan(r) /\ mode' = mode BY Fixed DEF Plan
<1>2. \A w \in Worker : PlannedRun(w) BY DEF PlannedInv
<1>3. ASSUME NEW w \in Worker, run'[w] = run[w] PROVE PlannedRun(w)'
  BY <1>1, <1>2, <1>3 DEF PlannedRun, InEffect
<1>4. ASSUME NEW w \in Worker, Acts(w) PROVE PlannedRun(w)'
  <2>0. PlannedRun(w) BY <1>2
  <2> USE <1>1, <2>0 DEF PlannedRun
  <2>1. ASSUME NEW r \in Revision, Start(w, r)
        PROVE  /\ run'[w].pc = "next" /\ run'[w].todo \subseteq Plan(run'[w].rev)
               /\ ~InEffect(w)'
    BY <2>1, StartIs DEF InEffect
  <2>2. ASSUME NEW a \in Action, ClaimAction(w, a)
        PROVE  /\ run'[w].pc \in {"next", "read", "decline"}
               /\ run'[w].todo \subseteq Plan(run'[w].rev)
               /\ InEffect(w)' => run'[w].action \in Plan(run'[w].rev)
               /\ run'[w].pc = "decline" => mode # "automatic"
    <3>1. /\ run[w].pc = "next" /\ a \in run[w].todo
          /\ run'[w].rev = run[w].rev /\ run'[w].todo = run[w].todo \ {a}
          /\ \/ run'[w].pc = "next"
             \/ /\ run'[w].action = a
                /\ run'[w].pc = IF ModeAllows(a) THEN "read" ELSE "decline"
      BY <2>2, ClaimIs
    <3>2. run[w].todo \subseteq Plan(run[w].rev) BY <3>1
    <3>3. QED BY <3>1, <3>2 DEF InEffect, ModeAllows
  <2>3. CASE ReadSubject(w)
    <3>1. /\ run[w].pc = "read"
          /\ run'[w].rev = run[w].rev /\ run'[w].todo = run[w].todo
          /\ run'[w].action = run[w].action
          /\ \/ /\ subject \in ActsOn(run[w].action)
                /\ type \in {"property", "review"}
                /\ run'[w].pc = IF AsksLedger(run[w].action) THEN "lookup" ELSE "write"
                /\ run'[w].target = Target(run[w].action)
                /\ run'[w].previous = subject
             \/ run'[w].pc = "skip"
      BY <2>3, ReadIs
    <3>2. run[w].action \in Plan(run[w].rev) /\ run[w].todo \subseteq Plan(run[w].rev)
      BY <3>1 DEF InEffect
    <3>3. "unflag" \notin Plan(run[w].rev) BY PlanShape DEF Plan
    <3>4. CASE run'[w].pc = "skip" BY <3>1, <3>2, <3>4 DEF InEffect
    <3>5. CASE subject \in ActsOn(run[w].action) /\ run'[w].pc # "skip"
      <4>1. run[w].action \in Lever BY <3>2, <3>3, <3>5 DEF ActsOn, Lever
      <4>2. AsksLedger(run[w].action) => run[w].action = "restore"
        BY <4>1 DEF AsksLedger, Lever
      <4>3. Target(run[w].action) = "removed" <=> run[w].action = "restrict"
        BY DEF Target
      <4>4. run[w].action = "restrict" => subject # "removed" BY <3>5 DEF ActsOn
      <4>5. QED BY <3>1, <3>2, <3>5, <4>1, <4>2, <4>3, <4>4 DEF InEffect
    <3>6. QED BY <3>1, <3>4, <3>5
  <2>4. CASE ReadLedger(w)
    <3>1. run[w].pc = "lookup" BY <2>4 DEF ReadLedger
    <3>2. run[w].action = "restore" BY <3>1
    <3>3. /\ run'[w].pc = "write" /\ run'[w].rev = run[w].rev
          /\ run'[w].todo = run[w].todo /\ run'[w].action = run[w].action
          /\ run'[w].target \in RestoreTarget
      BY <2>4, <3>2, LookupIs
    <3>4. run[w].action \in Plan(run[w].rev) /\ run[w].todo \subseteq Plan(run[w].rev)
      BY <3>1 DEF InEffect
    <3>5. "removed" \notin RestoreTarget
      BY DEF ReplacedInv, RestoreTarget, LatestRestrictions, AppliedRestrictions
    <3>6. QED BY <3>1, <3>2, <3>3, <3>4, <3>5 DEF InEffect, Lever
  <2>5. CASE \/ Decline(w) \/ MarkApplied(w) \/ MarkSkipped(w)
             \/ WriteSubject(w) \/ EffectThrows(w) \/ CacheDecision(w)
    <3>1. /\ run'[w].rev = run[w].rev /\ run'[w].todo = run[w].todo
          /\ run'[w].action = run[w].action /\ run'[w].previous = run[w].previous
          /\ run[w].pc # "idle"
          /\ \/ run'[w].pc = "next"
             \/ run[w].pc = "write" /\ run'[w].pc = "mark"
             \/ /\ run[w].pc \in {"read", "lookup", "write", "mark", "skip"}
                /\ run'[w].pc = "release"
             \/ run[w].todo = {} /\ run'[w].pc = "complete"
      BY <2>5, MoveIs
    <3>2. QED BY <3>1 DEF InEffect
  <2>6. CASE ReleaseClaim(w) \/ Complete(w) \/ Crash(w)
    BY <2>6, EndIs DEF IdleRun, InEffect
  <2>7. QED BY <1>4, <2>1, <2>2, <2>3, <2>4, <2>5, <2>6 DEF Acts
<1>5. ASSUME NEW w \in Worker PROVE PlannedRun(w)'
  BY <1>3, <1>4, StepIs, ActsAlone, NobodyActs
<1>6. QED BY <1>5 DEF PlannedInv

\* A row that says a removal was carried out says what the removal replaced, and
\* a row without a status is no row.
LEMMA ReplacedStep ==
    ASSUME TypeOK, RunInv, PlannedInv, ReplacedInv, [Next]_vars
    PROVE  ReplacedInv'
<1> SUFFICES ASSUME NEW r \in Revision, NEW a \in Action
             PROVE  /\ ledger'[r]["restrict"].status = "applied" =>
                          ledger'[r]["restrict"].previous # "removed"
                    /\ ledger'[r][a].status = "none" => ledger'[r][a] = NoLedgerRow
  <2>1. "none" \in Action BY DEF Action
  <2>2. QED BY <2>1 DEF ReplacedInv
<1>1. /\ ledger[r]["restrict"].status = "applied" =>
            ledger[r]["restrict"].previous # "removed"
      /\ ledger[r][a].status = "none" => ledger[r][a] = NoLedgerRow
  BY DEF ReplacedInv
<1>2. CASE \E u \in Worker : Acts(u)
  <2>1. PICK u \in Worker : Acts(u) BY <1>2
  <2>2. ASSUME ledger'[r]["restrict"] # ledger[r]["restrict"],
               ledger'[r]["restrict"].status = "applied"
        PROVE  ledger'[r]["restrict"].previous # "removed"
    <3>1. /\ MarkApplied(u) /\ run[u].action = "restrict"
          /\ ledger'[r]["restrict"] = [status |-> "applied", previous |-> run[u].previous]
      BY <2>1, <2>2, RowChanges DEF Action, NoLedgerRow
    <3>2. run[u].pc = "mark" BY <3>1, MoveIs
    <3>3. run[u].previous # "removed" BY <3>1, <3>2 DEF PlannedInv, PlannedRun
    <3>4. QED BY <3>1, <3>3
  <2>3. ASSUME ledger'[r][a] # ledger[r][a], ledger'[r][a].status = "none"
        PROVE  ledger'[r][a] = NoLedgerRow
    <3>1. \/ ledger'[r][a] = [status |-> "claimed", previous |-> "null"]
          \/ ledger'[r][a] = [status |-> "skipped", previous |-> "null"]
          \/ ledger'[r][a] = [status |-> "applied", previous |-> run[u].previous]
          \/ ledger'[r][a] = NoLedgerRow
      BY <2>1, <2>3, RowChanges
    <3>2. QED BY <2>3, <3>1
  <2>4. QED BY <1>1, <2>2, <2>3
<1>3. CASE ~\E u \in Worker : Acts(u)
  <2>1. ledger' = ledger BY <1>3, StepIs, NobodyActs
  <2>2. QED BY <1>1, <2>1
<1>4. QED BY <1>2, <1>3

\* A run that does not start is at work already, and stays with its revision.
LEMMA GoesOnOrEnds ==
    ASSUME TypeOK, NEW u \in Worker, Acts(u), \A r \in Revision : ~Start(u, r)
    PROVE  /\ run[u].pc # "idle" /\ hist'.begun = hist.begun
           /\ run'[u].pc = "idle" \/ run'[u].rev = run[u].rev
<1>1. CASE \E a \in Action : ClaimAction(u, a) BY <1>1, ClaimIs
<1>2. CASE ReadSubject(u) BY <1>2, ReadIs
<1>3. CASE ReadLedger(u)
  <2>1. CASE run[u].action = "restore" BY <1>3, <2>1, LookupIs
  <2>2. CASE run[u].action # "restore"
    <3>1. /\ run[u].pc = "lookup" /\ hist' = hist
          /\ Goto(u, IF FlaggedByModeration THEN "write" ELSE "skip")
      BY <1>3, <2>2 DEF ReadLedger
    <3>2. run'[u].rev = run[u].rev
      <4>1. Goto(u, "write") \/ Goto(u, "skip") BY <3>1
      <4>2. QED BY <4>1, GoesOn
    <3>3. QED BY <3>1, <3>2
  <2>3. QED BY <2>1, <2>2
<1>4. CASE \/ Decline(u) \/ MarkApplied(u) \/ MarkSkipped(u)
           \/ WriteSubject(u) \/ EffectThrows(u) \/ CacheDecision(u)
  <2>1. run[u].pc # "idle" /\ run'[u].rev = run[u].rev BY <1>4, MoveIs
  <2>2. hist'.begun = hist.begun BY <1>4, HistIs
  <2>3. QED BY <2>1, <2>2
<1>5. CASE ReleaseClaim(u) \/ Complete(u) \/ Crash(u)
  <2>1. run'[u].pc = "idle" BY <1>5, EndIs DEF IdleRun
  <2>2. hist'.begun = hist.begun BY <1>5, HistIs
  <2>3. run[u].pc # "idle" BY <1>5 DEF ReleaseClaim, Complete, Crash
  <2>4. QED BY <2>1, <2>2, <2>3
<1>6. QED BY <1>1, <1>2, <1>3, <1>4, <1>5 DEF Acts

\* What the queue says of each event.
LEMMA WorkIs ==
    ASSUME TypeOK, [Next]_vars, NEW r \in Revision
    PROVE  /\ work'[r] = "absent" => work[r] = "absent"
           /\ work'[r] = "done" /\ work[r] # "done" =>
                 \E u \in Worker : Complete(u) /\ run[u].rev = r
<1>1. CASE \E q \in Revision : Arrive(q) BY <1>1 DEF Arrive, TypeOK
<1>2. CASE \E u \in Worker : Complete(u) BY <1>2 DEF Complete, TypeOK
<1>3. CASE \/ \E u \in Worker : Acts(u) /\ ~Complete(u)
           \/ Escalate \/ Delete \/ UNCHANGED vars
  BY <1>3 DEF Acts, Start, ClaimAction, Decline, ReadSubject, ReadLedger,
     WriteSubject, MarkApplied, MarkSkipped, EffectThrows, ReleaseClaim,
     CacheDecision, Crash, Escalate, Delete, vars
<1>4. QED BY <1>1, <1>2, <1>3, StepIs

\* What a revision left on the ledger, it was begun for.
LEMMA BegunStep ==
    ASSUME TypeOK, RunInv, BegunInv, [Next]_vars
    PROVE  BegunInv'
<1> USE DEF BegunInv
<1>1. CASE \E u \in Worker, q \in Revision : Start(u, q)
  <2>1. PICK u \in Worker, q \in Revision : Start(u, q) BY <1>1
  <2>2. /\ work[q] = "owed" /\ run'[u].rev = q
        /\ UNCHANGED <<work, ledger>> /\ hist'.begun = hist.begun \cup {q}
    BY <2>1, StartIs, HistIs
  <2>3. \A v \in Worker : v # u => run'[v] = run[v] BY <2>1, ActsAlone DEF Acts
  <2>4. QED BY <2>2, <2>3
<1>2. CASE \E u \in Worker : Acts(u) /\ \A q \in Revision : ~Start(u, q)
  <2>1. PICK u \in Worker : Acts(u) /\ \A q \in Revision : ~Start(u, q) BY <1>2
  <2>2. /\ run[u].pc # "idle" /\ hist'.begun = hist.begun
        /\ run'[u].pc = "idle" \/ run'[u].rev = run[u].rev
    BY <2>1, GoesOnOrEnds
  <2>3. \A v \in Worker : v # u => run'[v] = run[v] BY <2>1, ActsAlone
  <2>4. \A r \in Revision, a \in Action :
          ledger'[r][a] # ledger[r][a] => r \in hist.begun
    <3> SUFFICES ASSUME NEW r \in Revision, NEW a \in Action,
                        ledger'[r][a] # ledger[r][a]
                 PROVE  r \in hist.begun
      OBVIOUS
    <3>1. run[u].rev = r BY <2>1, RowChanges
    <3>2. QED BY <2>2, <3>1
  <2>5. \A r \in Revision : work'[r] = "done" /\ work[r] # "done" => r \in hist.begun
    <3>1. \A w \in Worker : Complete(w) => run[w].pc # "idle" BY DEF Complete
    <3>2. QED BY <3>1, WorkIs
  <2>6. \A r \in Revision : work'[r] = "absent" => work[r] = "absent" BY WorkIs
  <2>7. QED BY <2>2, <2>3, <2>4, <2>5, <2>6
<1>3. CASE \/ \E r \in Revision : Arrive(r)
           \/ Escalate \/ Delete \/ UNCHANGED vars
  <2>1. UNCHANGED <<run, ledger>> /\ hist'.begun = hist.begun
    BY <1>3, NobodyActs, NobodysHist
  <2>2. \A r \in Revision : work'[r] = "done" => work[r] = "done"
    BY <1>3 DEF Arrive, Escalate, Delete, vars, TypeOK
  <2>3. \A r \in Revision : work'[r] = "absent" => work[r] = "absent" BY WorkIs
  <2>4. QED BY <2>1, <2>2, <2>3
<1>4. QED BY <1>1, <1>2, <1>3, StepIs

-----------------------------------------------------------------------------
(* As long as no run crashes or loses its lease.                           *)

LEMMA CalmBefore ==
    ASSUME TypeOK, [Next]_vars, hist'.calm
    PROVE  hist.calm /\ \A u \in Worker : ~Crash(u)
<1>1. \A u \in Worker : Acts(u) => hist.calm /\ ~Crash(u)
  BY HistIs DEF Acts
<1>2. (\E r \in Revision : Arrive(r)) \/ Escalate \/ Delete \/ UNCHANGED vars => hist.calm
  BY NobodysHist
<1>3. \A u \in Worker : Crash(u) => Acts(u) BY DEF Acts
<1>4. QED BY <1>1, <1>2, <1>3, StepIs

\* One run of a revision at a time.
LEMMA AloneStep ==
    ASSUME TypeOK, AloneInv, hist'.calm, [Next]_vars
    PROVE  AloneInv'
<1>1. CASE \E u \in Worker : Acts(u)
  <2>1. PICK u \in Worker : Acts(u) BY <1>1
  <2>2. \A v \in Worker : v # u => run'[v] = run[v] BY <2>1, ActsAlone
  <2>3. CASE \E r \in Revision : Start(u, r)
    <3>1. PICK r \in Revision : Start(u, r) BY <2>3
    <3>2. run'[u].rev = r /\ \A v \in Worker : run[v].rev # r
      BY <3>1, StartIs, HistIs
    <3>3. QED BY <2>2, <3>2 DEF AloneInv
  <2>4. CASE \A r \in Revision : ~Start(u, r)
    <3>1. run[u].pc # "idle" /\ (run'[u].pc = "idle" \/ run'[u].rev = run[u].rev)
      BY <2>1, <2>4, GoesOnOrEnds
    <3>2. QED BY <2>2, <3>1 DEF AloneInv
  <2>5. QED BY <2>3, <2>4
<1>2. CASE \/ \E r \in Revision : Arrive(r)
           \/ Escalate \/ Delete \/ UNCHANGED vars
  BY <1>2, NobodyActs DEF AloneInv
<1>3. QED BY <1>1, <1>2, StepIs

\* The steps that leave a run inside its effect.
LEMMA StaysInEffect ==
    ASSUME TypeOK, NEW w \in Worker, InEffect(w),
           ReadSubject(w) \/ ReadLedger(w) \/ WriteSubject(w) \/ EffectThrows(w)
    PROVE  /\ InEffect(w)' /\ run'[w].rev = run[w].rev
           /\ run'[w].action = run[w].action /\ run'[w].todo = run[w].todo
<1>1. CASE ReadSubject(w) BY <1>1, ReadIs DEF InEffect
<1>2. CASE ReadLedger(w)
  <2>1. CASE run[w].action = "restore" BY <1>2, <2>1, LookupIs DEF InEffect
  <2>2. CASE run[w].action # "restore"
    <3>1. Goto(w, "write") \/ Goto(w, "skip") BY <1>2, <2>2 DEF ReadLedger
    <3>2. QED BY <3>1, GoesOn DEF InEffect
  <2>3. QED BY <2>1, <2>2
<1>3. CASE WriteSubject(w) \/ EffectThrows(w) BY <1>3, MoveIs DEF InEffect
<1>4. QED BY <1>1, <1>2, <1>3

LEMMA ClaimedStep ==
    ASSUME EnforcementInv, ReplacedInv, ClaimedInv, hist'.calm, [Next]_vars
    PROVE  ClaimedInv'
<1> USE DEF EnforcementInv
<1> SUFFICES ASSUME NEW r \in Revision, NEW a \in Action,
                    ledger'[r][a].status = "claimed"
             PROVE  \E w \in Worker :
                        InEffect(w)' /\ run'[w].rev = r /\ run'[w].action = a
  BY DEF ClaimedInv
<1>1. CASE ledger'[r][a] = ledger[r][a]
  <2>1. PICK w \in Worker : InEffect(w) /\ run[w].rev = r /\ run[w].action = a
    BY <1>1 DEF ClaimedInv
  <2>2. CASE Acts(w)
    <3>1. /\ \A q \in Revision : ~Start(w, q)
          /\ \A b \in Action : ~ClaimAction(w, b)
          /\ ~CacheDecision(w) /\ ~Complete(w)
      BY <2>1 DEF InEffect, Start, ClaimAction, CacheDecision, Complete
    <3>2. ~Crash(w) BY CalmBefore
    <3>3. ~Decline(w) /\ ~MarkSkipped(w)
      <4> SUFFICES ASSUME Decline(w) \/ MarkSkipped(w) PROVE FALSE OBVIOUS
      <4>1. ledger'[r][a].status \in Closed BY <2>1, RowWritten
      <4>2. QED BY <4>1 DEF Closed
    <3>4. ~MarkApplied(w)
      <4> SUFFICES ASSUME MarkApplied(w) PROVE FALSE OBVIOUS
      <4>1. ledger'[r][a] = [status |-> "applied", previous |-> run[w].previous]
        BY <2>1, RowWritten
      <4>2. QED BY <4>1
    <3>5. ~ReleaseClaim(w)
      <4> SUFFICES ASSUME ReleaseClaim(w) PROVE FALSE OBVIOUS
      <4>1. ledger' = [ledger EXCEPT ![r][a] = NoLedgerRow]
        BY <2>1 DEF ReleaseClaim
      <4>2. ledger'[r][a] = NoLedgerRow BY <4>1 DEF TypeOK
      <4>3. QED BY <4>2 DEF NoLedgerRow
    <3>6. ReadSubject(w) \/ ReadLedger(w) \/ WriteSubject(w) \/ EffectThrows(w)
      BY <2>2, <3>1, <3>2, <3>3, <3>4, <3>5 DEF Acts
    <3>7. QED BY <2>1, <3>6, StaysInEffect
  <2>3. CASE ~Acts(w)
    <3>1. run'[w] = run[w] BY <2>3, StepIs, ActsAlone, NobodyActs
    <3>2. QED BY <2>1, <3>1 DEF InEffect
  <2>4. QED BY <2>2, <2>3
<1>2. CASE ledger'[r][a] # ledger[r][a]
  <2>1. PICK u \in Worker : Acts(u) BY <1>2, StepIs, NobodyActs
  <2>2. /\ ClaimAction(u, a) /\ run[u].rev = r /\ ledger[r][a] = NoLedgerRow
    <3>1. /\ run[u].rev = r
          /\ \/ ClaimAction(u, a) /\ ledger[r][a] = NoLedgerRow
             \/ ledger'[r][a] = [status |-> "skipped", previous |-> "null"]
             \/ ledger'[r][a] = [status |-> "applied", previous |-> run[u].previous]
             \/ ledger'[r][a] = NoLedgerRow
      BY <1>2, <2>1, RowChanges
    <3>2. NoLedgerRow.status = "none" BY DEF NoLedgerRow
    <3>3. QED BY <3>1, <3>2
  <2>3. run'[u].rev = r /\ run'[u].action = a /\ run'[u].pc \in {"read", "decline"}
    <3>1. run'[u].rev = run[u].rev BY <2>2, ClaimIs
    <3>2. /\ run'[u].action = a
          /\ run'[u].pc = IF ModeAllows(a) THEN "read" ELSE "decline"
      <4>1. ledger[run[u].rev][a] = NoLedgerRow BY <2>2
      <4>2. QED BY <2>2, <4>1, ClaimIs
    <3>3. QED BY <2>2, <3>1, <3>2
  <2>4. QED BY <2>3 DEF InEffect
<1>3. QED BY <1>1, <1>2

\* What is on record stays so.
LEMMA StaysOnRecord ==
    ASSUME EnforcementInv, [Next]_vars, NEW r \in Revision, NEW a \in Action,
           OnRecord(r, a)
    PROVE  OnRecord(r, a)'
  BY RecordedRowsStay DEF OnRecord, Closed

\* What a run has behind it is on record, or being done.
LEMMA CarriedStep ==
    ASSUME EnforcementInv, ReplacedInv, BegunInv, AloneInv, ClaimedInv, CarriedInv,
           hist'.calm, [Next]_vars
    PROVE  CarriedInv'
<1> USE DEF EnforcementInv
<1>1. \A r : Plan(r)' = Plan(r) /\ Plan(r) \subseteq Action BY Fixed, PlanType DEF Plan
<1>2. \A w \in Worker : run[w].pc # "idle" => run[w].rev \in Revision BY DEF RunInv
<1> SUFFICES ASSUME NEW w \in Worker, run'[w].pc # "idle",
                    NEW a \in Plan(run'[w].rev) \ run'[w].todo
             PROVE  ledger'[run'[w].rev][a].status \in Closed \/ (InEffect(w)' /\ run'[w].action = a)
  BY <1>1 DEF CarriedInv, OnRecord
<1>3. a \in Action BY <1>1
<1>4. CASE run'[w] = run[w]
  <2>1. OnRecord(run[w].rev, a) \/ (InEffect(w) /\ run[w].action = a)
    BY <1>4 DEF CarriedInv
  <2>2. CASE OnRecord(run[w].rev, a)
    <3>1. ledger'[run[w].rev][a] = ledger[run[w].rev][a]
      BY <1>2, <1>3, <1>4, <2>2, RecordedRowsStay DEF OnRecord, Closed
    <3>2. QED BY <1>4, <2>2, <3>1 DEF OnRecord
  <2>3. CASE InEffect(w) /\ run[w].action = a BY <1>4, <2>3 DEF InEffect
  <2>4. QED BY <2>1, <2>2, <2>3
<1>5. CASE Acts(w)
  <2> DEFINE r == run[w].rev
  <2>1. CASE \E q \in Revision : Start(w, q) BY <2>1, StartIs
  <2>2. ~Crash(w) /\ ~Complete(w) /\ ~ReleaseClaim(w)
    BY EndIs, CalmBefore DEF IdleRun
  <2>3. ASSUME r \in Revision, run'[w].rev = r, OnRecord(r, a)
        PROVE  ledger'[run'[w].rev][a].status \in Closed
    <3>1. ledger'[r][a] = ledger[r][a] BY <1>3, <2>3, RecordedRowsStay DEF OnRecord, Closed
    <3>2. QED BY <2>3, <3>1 DEF OnRecord
  <2>4. ASSUME NEW b \in Action, ClaimAction(w, b)
        PROVE  ledger'[run'[w].rev][a].status \in Closed \/ (InEffect(w)' /\ run'[w].action = a)
    <3>1. /\ run[w].pc = "next" /\ b \in run[w].todo
          /\ run'[w].rev = r /\ run'[w].todo = run[w].todo \ {b}
      BY <2>4, ClaimIs
    <3>2. r \in Revision /\ ~InEffect(w) BY <1>2, <3>1 DEF InEffect
    <3>3. CASE a # b
      <4>1. OnRecord(r, a) BY <3>1, <3>2, <3>3 DEF CarriedInv
      <4>2. QED BY <2>3, <3>1, <3>2, <4>1
    <3>4. CASE a = b /\ ledger[r][a] # NoLedgerRow
      <4>1. ledger[r][a].status # "none" BY <1>3, <3>2, <3>4 DEF ReplacedInv
      <4>2. ledger[r][a].status # "claimed"
        <5> SUFFICES ASSUME ledger[r][a].status = "claimed" PROVE FALSE OBVIOUS
        <5>1. PICK v \in Worker : InEffect(v) /\ run[v].rev = r BY <1>3, <3>2 DEF ClaimedInv
        <5>2. run[v].pc # "idle" BY <5>1 DEF InEffect
        <5>3. v = w BY <3>1, <5>1, <5>2 DEF AloneInv
        <5>4. QED BY <3>2, <5>1, <5>3
      <4>3. ledger[r][a] \in LedgerRow BY <1>3, <3>2 DEF TypeOK
      <4>4. OnRecord(r, a) BY <4>1, <4>2, <4>3 DEF OnRecord, Closed, LedgerRow
      <4>5. QED BY <2>3, <3>1, <3>2, <4>4
    <3>5. CASE a = b /\ ledger[r][a] = NoLedgerRow
      <4>1. /\ run'[w].action = b
            /\ run'[w].pc = IF ModeAllows(b) THEN "read" ELSE "decline"
        BY <2>4, <3>5, ClaimIs
      <4>2. QED BY <3>5, <4>1 DEF InEffect
    <3>6. QED BY <3>3, <3>4, <3>5
  <2>5. CASE Decline(w) \/ MarkSkipped(w) \/ MarkApplied(w)
    <3>1. /\ run[w].pc \in {"decline", "skip", "mark"}
          /\ run'[w].rev = r /\ run'[w].todo = run[w].todo /\ run'[w].action = run[w].action
      BY <2>5, MoveIs
    <3>2. r \in Revision BY <1>2, <3>1
    <3>3. CASE run[w].action = a
      <4>1. CASE Decline(w) \/ MarkSkipped(w)
        <5>1. ledger'[r][run[w].action].status \in Closed BY <4>1, RowWritten
        <5>2. QED BY <3>1, <3>3, <5>1
      <4>2. CASE MarkApplied(w)
        <5>1. ledger'[r][a] = [status |-> "applied", previous |-> run[w].previous]
          BY <3>3, <4>2, RowWritten
        <5>2. QED BY <3>1, <5>1 DEF Closed
      <4>3. QED BY <2>5, <4>1, <4>2
    <3>4. CASE run[w].action # a
      <4>1. OnRecord(r, a) BY <3>1, <3>4 DEF CarriedInv
      <4>2. QED BY <2>3, <3>1, <3>2, <4>1
    <3>5. QED BY <3>3, <3>4
  <2>6. CASE CacheDecision(w)
    <3>1. run[w].pc = "next" /\ run'[w].rev = r /\ run'[w].todo = run[w].todo
      BY <2>6, MoveIs
    <3>2. r \in Revision /\ OnRecord(r, a) BY <1>2, <3>1 DEF CarriedInv, InEffect
    <3>3. QED BY <2>3, <3>1, <3>2
  <2>7. CASE ReadSubject(w) \/ ReadLedger(w) \/ WriteSubject(w) \/ EffectThrows(w)
    <3>1. InEffect(w)
      BY <2>7 DEF ReadSubject, ReadLedger, WriteSubject, EffectThrows, InEffect
    <3>2. /\ InEffect(w)' /\ run'[w].rev = r
          /\ run'[w].action = run[w].action /\ run'[w].todo = run[w].todo
      BY <2>7, <3>1, StaysInEffect
    <3>3. run[w].pc # "idle" /\ r \in Revision BY <1>2, <3>1 DEF InEffect
    <3>4. OnRecord(r, a) \/ run[w].action = a BY <3>2, <3>3 DEF CarriedInv
    <3>5. QED BY <2>3, <3>2, <3>3, <3>4
  <2>8. QED BY <1>5, <2>1, <2>2, <2>4, <2>5, <2>6, <2>7 DEF Acts
<1>6. QED BY <1>4, <1>5, StepIs, ActsAlone, NobodyActs

\* A revision that is done left nothing open.
LEMMA DoneStep ==
    ASSUME EnforcementInv, PlannedInv, CarriedInv, DoneInv, [Next]_vars
    PROVE  DoneInv'
<1> USE DEF EnforcementInv
<1>1. \A r : Plan(r)' = Plan(r) /\ Plan(r) \subseteq Action BY Fixed, PlanType DEF Plan
<1> SUFFICES ASSUME NEW r \in Revision, work'[r] = "done", NEW a \in Plan(r)
             PROVE  OnRecord(r, a)'
  BY <1>1 DEF DoneInv
<1>2. OnRecord(r, a)
  <2>1. CASE work[r] = "done" BY <2>1 DEF DoneInv
  <2>2. CASE work[r] # "done"
    <3>1. PICK u \in Worker : Complete(u) /\ run[u].rev = r BY <2>2, WorkIs
    <3>2. run[u].pc = "complete" BY <3>1 DEF Complete
    <3>3. run[u].todo = {} BY <3>2 DEF PlannedInv, PlannedRun
    <3>4. QED BY <3>1, <3>2, <3>3 DEF CarriedInv, InEffect
  <2>3. QED BY <2>1, <2>2
<1>3. a \in Action BY <1>1
<1>4. QED BY <1>2, <1>3, StaysOnRecord

\* A revision is told when its plan is carried out, and its rows stay.
LEMMA ToldStep ==
    ASSUME EnforcementInv, PlannedInv, CarriedInv, ToldInv, [Next]_vars
    PROVE  ToldInv'
<1> USE DEF EnforcementInv
<1>1. \A r : Plan(r)' = Plan(r) /\ Plan(r) \subseteq Action BY Fixed, PlanType DEF Plan
<1> SUFFICES ASSUME NEW r \in hist'.told, NEW a \in Plan(r)
             PROVE  OnRecord(r, a)'
  BY <1>1 DEF ToldInv
<1>2. OnRecord(r, a) /\ r \in Revision
  <2>1. CASE r \in hist.told BY <2>1 DEF ToldInv, TypeOK
  <2>2. CASE r \notin hist.told
    <3>1. PICK u \in Worker : CacheDecision(u) /\ run[u].rev = r
      BY <2>2, StepIs, HistIs, NobodysHist DEF Acts
    <3>2. run[u].pc = "next" /\ run[u].todo = {} BY <3>1 DEF CacheDecision
    <3>3. QED BY <3>1, <3>2 DEF CarriedInv, RunInv, InEffect
  <2>3. QED BY <2>1, <2>2
<1>3. a \in Action BY <1>1
<1>4. QED BY <1>2, <1>3, StaysOnRecord

-----------------------------------------------------------------------------
(* As long as everything happens in order.                                 *)

LEMMA OrderedBefore ==
    ASSUME TypeOK, [Next]_vars, Ordered'
    PROVE  Ordered /\ \A u \in Worker : ~Crash(u)
<1>1. \A u \in Worker : Acts(u) => Ordered /\ ~Crash(u)
  BY HistIs DEF Ordered, Acts
<1>2. (\E r \in Revision : Arrive(r)) \/ Escalate \/ Delete \/ UNCHANGED vars => Ordered
  BY NobodysHist DEF Ordered
<1>3. \A u \in Worker : Crash(u) => Acts(u) BY DEF Acts
<1>4. QED BY <1>1, <1>2, <1>3, StepIs

\* One run at a time.
LEMMA OthersIdle ==
    ASSUME TypeOK, RunInv, BegunInv, SingleInv, Ordered', NEW u \in Worker, Acts(u)
    PROVE  \A v \in Worker : v # u => run[v].pc = "idle" /\ run'[v].pc = "idle"
<1>1. CASE \E r \in Revision : Start(u, r)
  <2>1. PICK r \in Revision : Start(u, r) BY <1>1
  <2>2. /\ \A v \in Worker : run[v].rev # r
        /\ \A q \in Revision : /\ q > r => q \notin hist.begun
                               /\ q < r => \A v \in Worker : run[v].rev # q
    BY <2>1, HistIs DEF Ordered
  <2>3. ASSUME NEW v \in Worker PROVE run[v].pc = "idle"
    <3> SUFFICES ASSUME run[v].pc # "idle" PROVE FALSE OBVIOUS
    <3>1. run[v].rev \in Revision /\ run[v].rev \in hist.begun
      BY DEF RunInv, BegunInv
    <3>2. run[v].rev > r \/ run[v].rev < r \/ run[v].rev = r
      BY <3>1, ConfigAssumption DEF Revision
    <3>3. QED BY <2>2, <3>1, <3>2
  <2>4. QED BY <2>3, ActsAlone
<1>2. CASE \A r \in Revision : ~Start(u, r)
  <2>1. run[u].pc # "idle" BY <1>2, GoesOnOrEnds
  <2>2. QED BY <2>1, ActsAlone DEF SingleInv
<1>3. QED BY <1>1, <1>2

LEMMA SingleStep ==
    ASSUME TypeOK, RunInv, BegunInv, SingleInv, Ordered', [Next]_vars
    PROVE  SingleInv'
<1>1. CASE \E u \in Worker : Acts(u)
  <2>1. PICK u \in Worker : Acts(u) BY <1>1
  <2>2. \A v \in Worker : v # u => run'[v].pc = "idle" BY <2>1, OthersIdle
  <2>3. ASSUME run'[u].pc # "idle", NEW q \in hist'.begun PROVE q <= run'[u].rev
    <3>1. CASE \E r \in Revision : Start(u, r)
      <4>1. PICK r \in Revision : Start(u, r) BY <3>1
      <4>2. /\ run'[u].rev = r /\ q \in hist.begun \cup {r}
            /\ \A p \in Revision : p > r => p \notin hist.begun
        BY <4>1, StartIs, HistIs DEF Ordered
      <4>3. q \in Revision BY <4>2 DEF TypeOK
      <4>4. QED BY <4>2, <4>3, ConfigAssumption DEF Revision
    <3>2. CASE \A r \in Revision : ~Start(u, r)
      BY <2>1, <2>3, <3>2, GoesOnOrEnds DEF SingleInv
    <3>3. QED BY <3>1, <3>2
  <2>4. QED BY <2>2, <2>3 DEF SingleInv
<1>2. CASE \/ \E r \in Revision : Arrive(r)
           \/ Escalate \/ Delete \/ UNCHANGED vars
  BY <1>2, NobodyActs, NobodysHist DEF SingleInv
<1>3. QED BY <1>1, <1>2, StepIs

\* An effect that has been carried out stays so while the run goes on.
LEMMA EffectStays ==
    ASSUME EnforcementInv, PlannedInv, BegunInv, SingleInv, [Next]_vars,
           Ordered', Enforceable',
           NEW r \in Revision, NEW a \in Action, a \in Plan(r), EffectDone(a),
           \A w \in Worker : run[w].pc # "idle" => run[w].rev = r
    PROVE  EffectDone(a)'
<1> USE DEF EnforcementInv
<1>1. CASE subject' = subject BY <1>1 DEF EffectDone
<1>2. CASE Delete BY <1>2 DEF Delete, Enforceable
<1>3. CASE Escalate BY <1>3 DEF Escalate, EffectDone
<1>4. ASSUME NEW u \in Worker, WriteSubject(u), subject' = run[u].target
      PROVE  EffectDone(a)'
  <2>1. run[u].pc = "write" BY <1>4 DEF WriteSubject
  <2>2. /\ run[u].action \in Lever /\ run[u].action \in Plan(r)
        /\ run[u].target = "removed" <=> run[u].action = "restrict"
    BY <2>1 DEF PlannedInv, PlannedRun, InEffect
  <2>3. "restrict" \in Plan(r) => "restore" \notin Plan(r) /\ "flag_for_review" \notin Plan(r)
    BY PlanShape DEF Plan
  <2>4. QED BY <1>4, <2>2, <2>3 DEF EffectDone, Lever
<1>5. QED BY <1>1, <1>2, <1>3, <1>4, SubjectChanges

\* An effect is carried out before it is recorded.
LEMMA RecordingStep ==
    ASSUME EnforcementInv, PlannedInv, BegunInv, SingleInv, OutcomeInv, Ordered,
           Enforceable, [Next]_vars, Ordered', Enforceable',
           NEW w \in Worker, run'[w].pc \in {"mark", "skip"},
           NEW a \in Action, run'[w].action = a
    PROVE  EffectDone(a)'
<1> USE DEF EnforcementInv
<1>1. CASE Acts(w)
  <2>1. CASE ReadSubject(w)
    <3>1. /\ run[w].action = a /\ subject' = subject
          /\ ~(subject \in ActsOn(a) /\ type \in {"property", "review"})
      BY <2>1, ReadIs DEF AsksLedger
    <3>2. type \in {"property", "review"} BY ConfigAssumption DEF TypeOK, Enforceable
    <3>3. subject \in Status BY DEF TypeOK, Subject, Enforceable
    <3>4. QED BY <3>1, <3>2, <3>3 DEF EffectDone, ActsOn, Status
  <2>2. CASE WriteSubject(w)
    <3>1. run[w].pc = "write" /\ run[w].action = a BY <2>2, MoveIs
    <3>2. run[w].target = "removed" <=> a = "restrict"
      BY <3>1 DEF PlannedInv, PlannedRun
    <3>3. subject' = run[w].target BY <2>2 DEF WriteSubject, Enforceable
    <3>4. QED BY <3>2, <3>3 DEF EffectDone
  <2>3. ~ReadLedger(w)
    <3> SUFFICES ASSUME ReadLedger(w) PROVE FALSE OBVIOUS
    <3>1. run[w].pc = "lookup" BY DEF ReadLedger
    <3>2. run[w].action = "restore" BY <3>1 DEF PlannedInv, PlannedRun
    <3>3. QED BY <3>2, LookupIs
  <2>4. /\ \A r \in Revision : ~Start(w, r)
        /\ \A b \in Action : ~ClaimAction(w, b)
        /\ ~Decline(w) /\ ~MarkApplied(w) /\ ~MarkSkipped(w) /\ ~EffectThrows(w)
        /\ ~CacheDecision(w)
    BY StartIs, ClaimIs, MoveIs
  <2>5. ~ReleaseClaim(w) /\ ~Complete(w) /\ ~Crash(w) BY EndIs DEF IdleRun
  <2>6. QED BY <1>1, <2>1, <2>2, <2>3, <2>4, <2>5 DEF Acts
<1>2. CASE ~Acts(w)
  <2>1. run'[w] = run[w] BY <1>2, StepIs, ActsAlone, NobodyActs
  <2>2. run[w].pc # "idle" /\ run[w].rev \in Revision BY <2>1 DEF RunInv
  <2>3. \A v \in Worker : run[v].pc # "idle" => v = w BY <2>2 DEF SingleInv
  <2>4. a \in Plan(run[w].rev) BY <2>1 DEF PlannedInv, PlannedRun, InEffect
  <2>5. EffectDone(a) BY <2>1 DEF OutcomeInv
  <2> DEFINE r == run[w].rev
  <2>6. \A v \in Worker : run[v].pc # "idle" => run[v].rev = r BY <2>3
  <2> HIDE DEF r
  <2>7. QED BY <2>2, <2>4, <2>5, <2>6, EffectStays DEF r
<1>3. QED BY <1>1, <1>2

\* What the newest revision has on record, the object shows.
LEMMA RecordStep ==
    ASSUME EnforcementInv, PlannedInv, BegunInv, SingleInv, OutcomeInv, Ordered,
           Enforceable, [Next]_vars, Ordered', Enforceable',
           NEW r \in Revision, NEW a \in Action,
           Newest(r)', a \in Plan(r), OnRecord(r, a)'
    PROVE  EffectDone(a)'
<1> USE DEF EnforcementInv
<1>1. CASE \E u \in Worker, q \in Revision : Start(u, q)
  <2>1. PICK u \in Worker, q \in Revision : Start(u, q) BY <1>1
  <2>2. /\ UNCHANGED <<ledger, subject>> /\ hist'.begun = hist.begun \cup {q}
        /\ \A p \in Revision : p > q => p \notin hist.begun
    BY <2>1, StartIs, HistIs DEF Ordered
  <2>3. OnRecord(r, a) BY <2>2 DEF OnRecord
  <2>4. r \in hist.begun BY <2>3 DEF BegunInv, OnRecord, Closed, NoLedgerRow
  <2>5. Newest(r) BY <2>2, <2>4 DEF Newest
  <2>6. EffectDone(a) BY <2>3, <2>5 DEF OutcomeInv
  <2>7. QED BY <2>2, <2>6 DEF EffectDone
<1>2. CASE ~\E u \in Worker, q \in Revision : Start(u, q)
  <2>1. hist'.begun = hist.begun BY <1>2, StepIs, GoesOnOrEnds, NobodysHist
  <2>2. Newest(r) BY <2>1 DEF Newest
  <2>3. \A w \in Worker : run[w].pc # "idle" => run[w].rev = r
    <3> SUFFICES ASSUME NEW w \in Worker, run[w].pc # "idle" PROVE run[w].rev = r
      OBVIOUS
    <3>1. run[w].rev \in Revision /\ run[w].rev <= r BY <2>2 DEF RunInv, BegunInv, Newest
    <3>2. r <= run[w].rev BY <2>2 DEF SingleInv, Newest
    <3>3. QED BY <3>1, <3>2, ConfigAssumption DEF Revision
  <2>4. EffectDone(a)
    <3>1. CASE ledger'[r][a] = ledger[r][a]
      BY <2>2, <3>1 DEF OnRecord, OutcomeInv
    <3>2. CASE ledger'[r][a] # ledger[r][a]
      <4>1. PICK u \in Worker : Acts(u) BY <3>2, StepIs, NobodyActs
      <4>2. /\ Decline(u) \/ MarkSkipped(u) \/ MarkApplied(u)
            /\ run[u].action = a
        <5>1. \/ ledger'[r][a] = [status |-> "claimed", previous |-> "null"]
              \/ (Decline(u) \/ MarkSkipped(u) \/ MarkApplied(u)) /\ run[u].action = a
              \/ ledger'[r][a] = NoLedgerRow
          BY <3>2, <4>1, RowChanges
        <5>2. ledger'[r][a].status \in Closed BY DEF OnRecord
        <5>3. NoLedgerRow.status = "none" BY DEF NoLedgerRow
        <5>4. QED BY <5>1, <5>2, <5>3 DEF Closed
      <4>3. ~Decline(u)
        <5> SUFFICES ASSUME Decline(u) PROVE FALSE OBVIOUS
        <5>1. run[u].pc = "decline" BY MoveIs
        <5>2. QED BY <5>1 DEF PlannedInv, PlannedRun, Enforceable
      <4>4. run[u].pc \in {"mark", "skip"} BY <4>2, <4>3, MoveIs
      <4>5. QED BY <4>2, <4>4 DEF OutcomeInv
    <3>3. QED BY <3>1, <3>2
  <2>5. QED BY <2>3, <2>4, EffectStays
<1>3. QED BY <1>1, <1>2

LEMMA EnforceableBefore ==
    ASSUME [Next]_vars, Enforceable' PROVE Enforceable
<1>1. UNCHANGED <<type, mode>> BY Fixed
<1>2. subject = "gone" => subject' = "gone"
  BY SubjectChanges DEF Delete, Escalate
<1>3. QED BY <1>1, <1>2 DEF Enforceable

LEMMA OrderInvInit == Init => OrderInv
<1> SUFFICES ASSUME Init PROVE OrderInv OBVIOUS
<1>1. EnforcementInv BY EnforcementInvInit
<1>2. PlannedInv BY DEF Init, PlannedInv, PlannedRun, IdleRun, InEffect
<1>3. \A r \in Revision, a \in Action : ledger[r][a] = NoLedgerRow BY DEF Init
<1>4. ReplacedInv BY <1>3 DEF ReplacedInv, NoLedgerRow, Action
<1>5. BegunInv BY <1>3 DEF Init, BegunInv, IdleRun
<1>6. \A w \in Worker : run[w].pc = "idle" BY DEF Init, IdleRun
<1>7. SingleInv /\ AloneInv /\ CarriedInv BY <1>6 DEF SingleInv, AloneInv, CarriedInv
<1>8. ClaimedInv BY <1>3 DEF ClaimedInv, NoLedgerRow
<1>9. DoneInv /\ ToldInv BY DEF Init, DoneInv, ToldInv
<1>10. OutcomeInv BY <1>3, <1>6 DEF OutcomeInv, OnRecord, Closed, NoLedgerRow
<1>11. QED BY <1>1, <1>2, <1>4, <1>5, <1>7, <1>8, <1>9, <1>10
       DEF OrderInv, CalmInv, OrderedInv

LEMMA OrderInvStep == OrderInv /\ [Next]_vars => OrderInv'
<1> SUFFICES ASSUME OrderInv, [Next]_vars PROVE OrderInv' OBVIOUS
<1> USE DEF OrderInv
<1>1. TypeOK /\ RunInv BY DEF EnforcementInv
<1>2. EnforcementInv' BY EnforcementInvStep
<1>3. PlannedInv' BY <1>1, PlannedStep
<1>4. ReplacedInv' BY <1>1, ReplacedStep
<1>5. BegunInv' BY <1>1, BegunStep
<1>a. ASSUME hist'.calm
      PROVE  AloneInv' /\ ClaimedInv' /\ CarriedInv' /\ DoneInv' /\ ToldInv'
  <2>1. AloneInv /\ ClaimedInv /\ CarriedInv /\ DoneInv /\ ToldInv
    BY <1>1, <1>a, CalmBefore DEF CalmInv
  <2>2. QED
    BY <1>1, <1>a, <2>1, AloneStep, ClaimedStep, CarriedStep, DoneStep, ToldStep
<1>6. ASSUME Ordered' PROVE SingleInv'
  <2>1. SingleInv BY <1>1, <1>6, OrderedBefore DEF OrderedInv
  <2>2. QED BY <1>1, <1>6, <2>1, SingleStep
<1>7. ASSUME Ordered', Enforceable'
      PROVE  /\ \A w \in Worker : run'[w].pc \in {"mark", "skip"} =>
                    EffectDone(run[w].action)'
             /\ \A r \in Revision, a \in Action :
                    Newest(r)' /\ a \in Plan(r)' /\ OnRecord(r, a)' => EffectDone(a)'
  <2>1. Ordered /\ Enforceable /\ SingleInv
    BY <1>1, <1>7, OrderedBefore, EnforceableBefore DEF OrderedInv
  <2>2. \A r : Plan(r)' = Plan(r) BY Fixed DEF Plan
  <2>3. ASSUME NEW w \in Worker, run'[w].pc \in {"mark", "skip"}
        PROVE  EffectDone(run[w].action)'
    <3> DEFINE a == run'[w].action
    <3>1. a \in Action BY <1>2 DEF EnforcementInv, TypeOK, Run
    <3>2. \A b \in Action : run'[w].action = b => EffectDone(b)'
      BY <1>7, <2>1, <2>3, RecordingStep
    <3>3. QED BY <3>1, <3>2 DEF EffectDone
  <2>4. QED BY <1>7, <2>1, <2>2, <2>3, RecordStep
<1>8. QED
  BY <1>2, <1>3, <1>4, <1>5, <1>a, <1>6, <1>7 DEF CalmInv, OrderedInv, OutcomeInv

-----------------------------------------------------------------------------
(* Giving back.                                                            *)

LEMMA PropertyInvInit == Init => PropertyInv
  BY DEF Init, PropertyInv, PropertyRun, IdleRun

LEMMA PropertyInvStep ==
    ASSUME TypeOK, PropertyInv, [Next]_vars, type # "review"
    PROVE  /\ subject' # "under_review" /\ hist'.taken = "active"
           /\ \A w \in Worker : PropertyRun(w)'
<1>1. /\ subject # "under_review" /\ hist.taken = "active"
      /\ \A w \in Worker : PropertyRun(w)
  BY DEF PropertyInv, PropertyRun
<1>2. ~Escalate BY DEF Escalate
<1>3. \A w \in Worker : ~ReadLedger(w) BY <1>1 DEF ReadLedger, PropertyRun
<1>4. subject' # "under_review"
  BY <1>1, <1>2, SubjectChanges DEF Delete, WriteSubject, PropertyRun
<1>5. hist'.taken = "active"
  <2>1. CASE \E u \in Worker : Acts(u)
    <3>1. PICK u \in Worker : Acts(u) BY <2>1
    <3>2. CASE WriteSubject(u) BY <1>1, <3>2, HistIs DEF Status
    <3>3. CASE Crash(u) BY <1>1, <3>3 DEF Crash, TypeOK
    <3>4. CASE ~WriteSubject(u) /\ ~Crash(u)
      <4>1. hist'.taken = hist.taken BY <3>1, <3>4, HistIs DEF Acts
      <4>2. QED BY <1>1, <4>1
    <3>5. QED BY <3>2, <3>3, <3>4
  <2>2. CASE ~\E u \in Worker : Acts(u) BY <1>1, <2>2, StepIs, NobodysHist
  <2>3. QED BY <2>1, <2>2
<1>6. ASSUME NEW w \in Worker PROVE PropertyRun(w)'
  <2>1. CASE run'[w] = run[w] BY <1>1, <2>1 DEF PropertyRun
  <2>2. CASE ReadSubject(w)
    <3>1. \/ run'[w].pc = "skip"
          \/ /\ run'[w].pc = IF AsksLedger(run[w].action) THEN "lookup" ELSE "write"
             /\ run'[w].target = Target(run[w].action)
             /\ subject \in ActsOn(run[w].action)
      BY <2>2, ReadIs
    <3>2. ~AsksLedger(run[w].action) BY DEF AsksLedger
    <3>3. subject \in ActsOn(run[w].action) => Target(run[w].action) # "under_review"
      BY DEF ActsOn, Target
    <3>4. QED BY <3>1, <3>2, <3>3 DEF PropertyRun
  <2>3. CASE \E r \in Revision : Start(w, r) BY <2>3, StartIs DEF PropertyRun
  <2>4. CASE \E a \in Action : ClaimAction(w, a)
    <3>1. run'[w].pc \in {"next", "read", "decline"} BY <2>4, ClaimIs
    <3>2. QED BY <3>1 DEF PropertyRun
  <2>5. CASE \/ Decline(w) \/ MarkApplied(w) \/ MarkSkipped(w)
             \/ WriteSubject(w) \/ EffectThrows(w) \/ CacheDecision(w)
    BY <2>5, MoveIs DEF PropertyRun
  <2>6. CASE ReleaseClaim(w) \/ Complete(w) \/ Crash(w)
    BY <2>6, EndIs DEF PropertyRun, IdleRun
  <2>7. QED
    BY <1>3, <2>1, <2>2, <2>3, <2>4, <2>5, <2>6, StepIs, ActsAlone, NobodyActs DEF Acts
<1>7. QED BY <1>4, <1>5, <1>6

LEMMA UndisturbedBefore ==
    ASSUME TypeOK, [Next]_vars, Undisturbed'
    PROVE  /\ Undisturbed
           /\ \A u \in Worker : ~Crash(u) /\ ~EffectThrows(u)
           /\ Escalate => \A w \in Worker : run[w].pc # "write"
           /\ ~Delete
<1>1. Ordered /\ \A u \in Worker : ~Crash(u) BY OrderedBefore DEF Undisturbed
<1>2. ~hist.raced /\ (Escalate => \A w \in Worker : run[w].pc # "write")
  <2>1. CASE \E u \in Worker : Acts(u)
    <3>1. PICK u \in Worker : Acts(u) BY <2>1
    <3>2. hist'.raced = hist.raced BY <1>1, <3>1, HistIs DEF Acts
    <3>3. Escalate => run' = run BY DEF Escalate
    <3>4. QED BY <3>2, NobodysHist DEF Undisturbed
  <2>2. CASE ~\E u \in Worker : Acts(u)
    BY <2>2, StepIs, NobodysHist DEF Undisturbed
  <2>3. QED BY <2>1, <2>2
<1>3. mishaps = 0 /\ \A u \in Worker : ~EffectThrows(u)
  <2>1. mishaps' = mishaps \/ mishaps' = mishaps + 1
    BY DEF Next, vars, config, Mishap, Arrive, Start, ClaimAction, Decline, ReadSubject,
       ReadLedger, WriteSubject, MarkApplied, MarkSkipped, EffectThrows, ReleaseClaim,
       CacheDecision, Complete, Crash, Escalate, Delete
  <2>2. mishaps \in Nat BY ConfigAssumption DEF TypeOK
  <2>3. \A u \in Worker : EffectThrows(u) => mishaps' = mishaps + 1
    BY DEF EffectThrows, Mishap
  <2>4. QED BY <2>1, <2>2, <2>3 DEF Undisturbed
<1>4. subject # "gone" /\ ~Delete
  BY SubjectChanges DEF Delete, Escalate, Undisturbed
<1>5. QED BY <1>1, <1>2, <1>3, <1>4 DEF Undisturbed

\* Among the restrict rows, one is claimed by the newest revision, or recorded.
LEMMA RestrictRows ==
    ASSUME EnforcementInv, [Next]_vars, \A w \in Worker : FreshRun(w),
           NEW r \in Revision
    PROVE  \/ ledger'[r]["restrict"] = ledger[r]["restrict"]
           \/ /\ ledger[r]["restrict"] = NoLedgerRow
              /\ ledger'[r]["restrict"] = [status |-> "claimed", previous |-> "null"]
              /\ \E u \in Worker : ClaimAction(u, "restrict") /\ run[u].rev = r
           \/ /\ ledger'[r]["restrict"] = [status |-> "skipped", previous |-> "null"]
              /\ ledger[r]["restrict"].status = "claimed"
           \/ \E u \in Worker :
                 /\ MarkApplied(u) /\ run[u].action = "restrict" /\ run[u].rev = r
                 /\ ledger[r]["restrict"].status = "claimed"
                 /\ ledger'[r]["restrict"] =
                       [status |-> "applied", previous |-> run[u].previous]
<1> SUFFICES ASSUME ledger'[r]["restrict"] # ledger[r]["restrict"]
             PROVE  \/ /\ ledger[r]["restrict"] = NoLedgerRow
                       /\ ledger'[r]["restrict"] = [status |-> "claimed", previous |-> "null"]
                       /\ \E u \in Worker : ClaimAction(u, "restrict") /\ run[u].rev = r
                    \/ /\ ledger'[r]["restrict"] = [status |-> "skipped", previous |-> "null"]
                       /\ ledger[r]["restrict"].status = "claimed"
                    \/ \E u \in Worker :
                          /\ MarkApplied(u) /\ run[u].action = "restrict" /\ run[u].rev = r
                          /\ ledger[r]["restrict"].status = "claimed"
                          /\ ledger'[r]["restrict"] =
                                [status |-> "applied", previous |-> run[u].previous]
  OBVIOUS
<1>1. PICK u \in Worker : Acts(u) BY StepIs, NobodyActs
<1>2. "restrict" \in Action BY DEF Action
<1>3. ~ReleaseClaim(u) BY DEF ReleaseClaim, FreshRun
<1>4. /\ run[u].rev = r
      /\ \/ /\ ClaimAction(u, "restrict") /\ ledger[r]["restrict"] = NoLedgerRow
            /\ ledger'[r]["restrict"] = [status |-> "claimed", previous |-> "null"]
         \/ /\ Decline(u) \/ MarkSkipped(u)
            /\ run[u].action = "restrict"
            /\ ledger'[r]["restrict"] = [status |-> "skipped", previous |-> "null"]
         \/ /\ MarkApplied(u) /\ run[u].action = "restrict"
            /\ ledger'[r]["restrict"] =
                  [status |-> "applied", previous |-> run[u].previous]
  <2>1. TypeOK /\ RunInv BY DEF EnforcementInv
  <2>2. QED BY <1>1, <1>2, <1>3, <2>1, RowChanges
<1>5. Decline(u) \/ MarkSkipped(u) \/ MarkApplied(u) => InEffect(u)
  BY DEF Decline, MarkSkipped, MarkApplied, InEffect
<1>6. InEffect(u) /\ run[u].action = "restrict" =>
        ledger[r]["restrict"].status = "claimed"
  BY <1>4 DEF EnforcementInv, ClaimInv
<1>7. QED BY <1>1, <1>4, <1>5, <1>6

\* A run is of the newest revision on the ledger.
LEMMA RowsBefore ==
    ASSUME EnforcementInv, BegunInv, SingleInv, NEW u \in Worker, run[u].pc # "idle",
           NEW r \in Revision, ledger[r]["restrict"] # NoLedgerRow
    PROVE  r <= run[u].rev
<1>1. "restrict" \in Action BY DEF Action
<1>2. r \in hist.begun BY <1>1 DEF BegunInv
<1>3. QED BY <1>2 DEF SingleInv

LEMMA OlderStep ==
    ASSUME EnforcementInv, BegunInv, SingleInv, OlderInv, [Next]_vars,
           \A w \in Worker : FreshRun(w)
    PROVE  OlderInv'
<1> DEFINE HasRow(r) == ledger[r]["restrict"] # NoLedgerRow
<1>1. TypeOK /\ RunInv BY DEF EnforcementInv
<1>2. CASE \E u \in Worker : ClaimAction(u, "restrict")
                             /\ ledger[run[u].rev]["restrict"] = NoLedgerRow
  <2>1. PICK u \in Worker : ClaimAction(u, "restrict")
                            /\ ledger[run[u].rev]["restrict"] = NoLedgerRow
    BY <1>2
  <2> DEFINE s == run[u].rev
  <2>2. run[u].pc # "idle" /\ s \in Revision BY <1>1, <2>1 DEF ClaimAction, RunInv
  <2>3. /\ ledger' = [ledger EXCEPT ![s]["restrict"].status = "claimed"]
        /\ older' = [older EXCEPT ![s] = {q \in Revision : HasRow(q)}]
    BY <2>1 DEF ClaimAction, RestrictClaimed
  <2>4. \A q \in Revision : HasRow(q) => q < s
    <3> SUFFICES ASSUME NEW q \in Revision, HasRow(q) PROVE q < s OBVIOUS
    <3>1. q <= s /\ q # s BY <2>1, <2>2, RowsBefore
    <3>2. QED BY <2>2, <3>1, ConfigAssumption DEF Revision
  <2>5. \A q \in Revision : HasRow(q)' <=> HasRow(q) \/ q = s
    <3>1. \A q \in Revision : q # s => ledger'[q] = ledger[q]
      BY <1>1, <2>3 DEF TypeOK
    <3>2. ledger'[s]["restrict"].status = "claimed"
      BY <1>1, <2>2, <2>3 DEF TypeOK, LedgerRow, Action
    <3>3. QED BY <3>1, <3>2 DEF NoLedgerRow
  <2>6. older'[s] = {q \in Revision : HasRow(q)}
        /\ \A q \in Revision : q # s => older'[q] = older[q]
    BY <1>1, <2>2, <2>3 DEF TypeOK
  <2> HIDE DEF HasRow, s
  <2>7. ASSUME NEW r \in Revision, HasRow(r)'
        PROVE  older'[r] = {q \in Revision : q < r /\ HasRow(q)'}
    <3>1. CASE r = s
      <4>1. s \in Nat /\ \A q \in Revision : q \in Nat
        BY <2>2, ConfigAssumption DEF Revision
      <4>2. \A q \in Revision : HasRow(q) <=> q < s /\ HasRow(q)'
        BY <2>4, <2>5, <4>1
      <4>3. QED BY <2>6, <3>1, <4>2
    <3>2. CASE r # s
      <4>1. HasRow(r) /\ r < s BY <2>4, <2>5, <2>7, <3>2
      <4>2. older[r] = {q \in Revision : q < r /\ HasRow(q)}
        BY <4>1 DEF OlderInv, HasRow
      <4>3. \A q \in Revision : q < r => q # s
        BY <2>2, <4>1, ConfigAssumption DEF Revision
      <4>4. \A q \in Revision : q < r => (HasRow(q)' <=> HasRow(q)) BY <2>5, <4>3
      <4>5. QED BY <2>6, <3>2, <4>2, <4>4
    <3>3. QED BY <3>1, <3>2
  <2>8. QED BY <2>7 DEF OlderInv, HasRow
<1>3. CASE ~\E u \in Worker : ClaimAction(u, "restrict")
                              /\ ledger[run[u].rev]["restrict"] = NoLedgerRow
  <2>1. older' = older
    <3>1. \A u \in Worker : ~ReleaseClaim(u) BY DEF ReleaseClaim, FreshRun
    <3>2. ASSUME NEW u \in Worker, NEW a \in Action, ClaimAction(u, a)
          PROVE  older' = older
      BY <1>1, <1>3, <3>2, ClaimIs
    <3>3. QED
      BY <3>1, <3>2 DEF Next, vars, config, Arrive, Start, Decline, ReadSubject,
         ReadLedger, WriteSubject, MarkApplied, MarkSkipped, EffectThrows,
         CacheDecision, Complete, Crash, Escalate, Delete
  <2>2. ASSUME NEW r \in Revision PROVE HasRow(r)' <=> HasRow(r)
    <3>1. \/ ledger'[r]["restrict"] = ledger[r]["restrict"]
          \/ /\ ledger'[r]["restrict"].status \in {"skipped", "applied"}
             /\ ledger[r]["restrict"].status = "claimed"
      <4>1. ~(/\ ledger[r]["restrict"] = NoLedgerRow
              /\ \E u \in Worker : ClaimAction(u, "restrict") /\ run[u].rev = r)
        BY <1>3
      <4>2. \/ ledger'[r]["restrict"] = ledger[r]["restrict"]
            \/ /\ ledger'[r]["restrict"] = [status |-> "skipped", previous |-> "null"]
               /\ ledger[r]["restrict"].status = "claimed"
            \/ \E u \in Worker :
                  /\ ledger[r]["restrict"].status = "claimed"
                  /\ ledger'[r]["restrict"] =
                        [status |-> "applied", previous |-> run[u].previous]
        BY <4>1, RestrictRows
      <4> DEFINE before == ledger[r]["restrict"]
                 after == ledger'[r]["restrict"]
      <4>3. after = [status |-> "skipped", previous |-> "null"] =>
              after.status \in {"skipped", "applied"}
        OBVIOUS
      <4>4. ASSUME NEW u \in Worker,
                   after = [status |-> "applied", previous |-> run[u].previous]
            PROVE  after.status \in {"skipped", "applied"}
        BY <4>4
      <4> HIDE DEF before, after
      <4>5. QED BY <4>2, <4>3, <4>4 DEF before, after
    <3>2. NoLedgerRow.status = "none" BY DEF NoLedgerRow
    <3>3. QED BY <3>1, <3>2
  <2> HIDE DEF HasRow
  <2>3. ASSUME NEW r \in Revision, HasRow(r)'
        PROVE  older'[r] = {q \in Revision : q < r /\ HasRow(q)'}
    <3>1. older[r] = {q \in Revision : q < r /\ HasRow(q)}
      BY <2>2, <2>3 DEF OlderInv, HasRow
    <3>2. QED BY <2>1, <2>2, <3>1
  <2>4. QED BY <2>3 DEF OlderInv, HasRow
<1>4. QED BY <1>2, <1>3

LEMMA TakenStays ==
    ASSUME TypeOK, [Next]_vars,
           \A u \in Worker : ~Crash(u) /\ ~(WriteSubject(u) /\ run[u].target = "removed")
    PROVE  hist'.taken = hist.taken
<1>1. CASE \E u \in Worker : Acts(u)
  <2>1. PICK u \in Worker : Acts(u) BY <1>1
  <2>2. ~Crash(u) /\ ~(WriteSubject(u) /\ run[u].target = "removed") OBVIOUS
  <2>3. CASE WriteSubject(u) BY <2>2, <2>3, HistIs
  <2>4. CASE ~WriteSubject(u) BY <2>1, <2>2, <2>4, HistIs DEF Acts
  <2>5. QED BY <2>3, <2>4
<1>2. CASE ~\E u \in Worker : Acts(u) BY <1>2, StepIs, NobodysHist
<1>3. QED BY <1>1, <1>2

\* A removal that was carried out is put on record next.
LEMMA MarkingEnds ==
    ASSUME TypeOK, [Next]_vars, NEW w \in Worker, Marking(w),
           ~Crash(w), ~EffectThrows(w)
    PROVE  MarkApplied(w) \/ run'[w] = run[w]
<1>1. CASE Acts(w)
  BY <1>1 DEF Acts, Marking, Start, ClaimAction, Decline, ReadSubject, ReadLedger,
     WriteSubject, MarkSkipped, ReleaseClaim, CacheDecision, Complete
<1>2. CASE ~Acts(w) BY <1>2, StepIs, ActsAlone, NobodyActs
<1>3. QED BY <1>1, <1>2

LEMMA MarkingBegins ==
    ASSUME TypeOK, PlannedInv, [Next]_vars, NEW w \in Worker
    PROVE  /\ WriteSubject(w) =>
                 /\ run[w].target = "removed" <=> run[w].action = "restrict"
                 /\ run[w].action = "restrict" <=> Marking(w)'
           /\ Marking(w)' => WriteSubject(w) \/ run'[w] = run[w]
<1>1. ASSUME WriteSubject(w)
      PROVE  /\ run[w].target = "removed" <=> run[w].action = "restrict"
             /\ run[w].action = "restrict" <=> Marking(w)'
  <2>1. run[w].pc = "write" /\ run'[w].pc = "mark" /\ run'[w].action = run[w].action
    BY <1>1, MoveIs
  <2>2. QED BY <2>1 DEF PlannedInv, PlannedRun, Marking
<1>2. ASSUME run'[w].pc = "mark" PROVE WriteSubject(w) \/ run'[w] = run[w]
  <2>1. CASE Acts(w)
    <3>1. /\ \A r \in Revision : ~Start(w, r)
          /\ \A b \in Action : ~ClaimAction(w, b)
          /\ ~Decline(w) /\ ~MarkApplied(w) /\ ~MarkSkipped(w) /\ ~EffectThrows(w)
          /\ ~CacheDecision(w)
      BY <1>2, StartIs, ClaimIs, MoveIs
    <3>2. ~ReleaseClaim(w) /\ ~Complete(w) /\ ~Crash(w) BY <1>2, EndIs DEF IdleRun
    <3>3. ~ReadSubject(w) BY <1>2, ReadIs
    <3>4. ~ReadLedger(w)
      <4> SUFFICES ASSUME ReadLedger(w) PROVE FALSE OBVIOUS
      <4>1. run[w].pc = "lookup" BY DEF ReadLedger
      <4>2. run[w].action = "restore" BY <4>1 DEF PlannedInv, PlannedRun
      <4>3. QED BY <1>2, <4>2, LookupIs
    <3>5. QED BY <2>1, <3>1, <3>2, <3>3, <3>4 DEF Acts
  <2>2. CASE ~Acts(w) BY <2>2, StepIs, ActsAlone, NobodyActs
  <2>3. QED BY <2>1, <2>2
<1>3. QED BY <1>1, <1>2 DEF Marking

\* A property or review that is down is down by a removal on record.
LEMMA RemovedStep ==
    ASSUME EnforcementInv, PlannedInv, RemovedInv, [Next]_vars, Undisturbed'
    PROVE  RemovedInv'
<1> USE DEF EnforcementInv
<1> SUFFICES ASSUME subject' = "removed"
             PROVE  \/ \E r \in Revision : ledger'[r]["restrict"].status = "applied"
                    \/ \E w \in Worker : Marking(w)'
  BY DEF RemovedInv, AppliedRestrictions
<1>1. CASE AppliedRestrictions # {}
  <2>1. PICK r \in Revision : ledger[r]["restrict"].status = "applied"
    BY <1>1 DEF AppliedRestrictions
  <2>2. ledger'[r]["restrict"] = ledger[r]["restrict"]
    BY <2>1, RecordedRowsStay DEF Action
  <2>3. QED BY <2>1, <2>2
<1>2. ASSUME NEW w \in Worker, Marking(w)
      PROVE  \/ \E r \in Revision : ledger'[r]["restrict"].status = "applied"
             \/ \E v \in Worker : Marking(v)'
  <2>1. MarkApplied(w) \/ run'[w] = run[w] BY <1>2, MarkingEnds, UndisturbedBefore
  <2>2. CASE MarkApplied(w)
    <3>1. run[w].rev \in Revision BY <1>2 DEF RunInv, Marking
    <3>2. ledger'[run[w].rev]["restrict"] =
            [status |-> "applied", previous |-> run[w].previous]
      BY <1>2, <2>2, RowWritten DEF Marking
    <3>3. ledger'[run[w].rev]["restrict"].status = "applied" BY <3>2
    <3>4. QED BY <3>1, <3>3
  <2>3. CASE run'[w] = run[w] BY <1>2, <2>3 DEF Marking
  <2>4. QED BY <2>1, <2>2, <2>3
<1>3. CASE subject # "removed"
  <2>1. PICK u \in Worker : WriteSubject(u) /\ run[u].target = "removed"
    BY <1>3, SubjectChanges DEF Delete, Escalate
  <2>2. Marking(u)' BY <2>1, MarkingBegins
  <2>3. QED BY <2>2
<1>4. QED BY <1>1, <1>2, <1>3 DEF RemovedInv

LEMMA MarkingStep ==
    ASSUME EnforcementInv, PlannedInv, SingleInv, MarkingInv, [Next]_vars, Undisturbed',
           \A w \in Worker : FreshRun(w)
    PROVE  MarkingInv'
<1> USE DEF EnforcementInv
<1> SUFFICES ASSUME NEW w \in Worker, Marking(w)'
             PROVE  run'[w].previous = hist'.taken
  BY DEF MarkingInv
<1>1. CASE WriteSubject(w)
  <2>1. run[w].pc = "write" /\ run'[w].previous = run[w].previous BY <1>1, MoveIs
  <2>2. run[w].action = "restrict" /\ run[w].target = "removed" BY <1>1, MarkingBegins
  <2>3. subject = run[w].previous /\ run[w].previous # "removed"
    BY <2>1, <2>2 DEF FreshRun, PlannedInv, PlannedRun
  <2>4. subject \in Status
    BY UndisturbedBefore DEF TypeOK, Subject, Undisturbed
  <2>5. QED BY <1>1, <2>1, <2>2, <2>3, <2>4, HistIs
<1>2. CASE run'[w] = run[w] /\ ~WriteSubject(w)
  <2>1. Marking(w) BY <1>2 DEF Marking
  <2>2. \A u \in Worker : ~WriteSubject(u)
    BY <1>2, <2>1 DEF SingleInv, WriteSubject, Marking
  <2>3. hist'.taken = hist.taken BY <2>2, TakenStays, UndisturbedBefore
  <2>4. QED BY <1>2, <2>1, <2>3 DEF MarkingInv
<1>3. QED BY <1>1, <1>2, MarkingBegins

\* The newest removal on record is the one the object shows.
LEMMA LatestStep ==
    ASSUME EnforcementInv, PlannedInv, BegunInv, SingleInv, MarkingInv, LatestInv,
           [Next]_vars, Undisturbed', \A w \in Worker : FreshRun(w)
    PROVE  LatestInv'
<1> USE DEF EnforcementInv
<1> DEFINE Applied(r) == ledger[r]["restrict"].status = "applied"
<1> SUFFICES ASSUME \A w \in Worker : ~Marking(w)', NEW r \in Revision, Applied(r)',
                    \A q \in Revision : Applied(q)' => q <= r
             PROVE  ledger'[r]["restrict"].previous = hist'.taken
  BY DEF LatestInv, IsLatest, AppliedRestrictions
<1>1. hist'.taken = hist.taken
  <2>1. \A u \in Worker : ~(WriteSubject(u) /\ run[u].target = "removed")
    BY MarkingBegins
  <2>2. QED BY <2>1, TakenStays, UndisturbedBefore
<1>2. ASSUME NEW u \in Worker, MarkApplied(u), run[u].action = "restrict"
      PROVE  ledger'[r]["restrict"].previous = hist'.taken
  <2>1. run[u].pc = "mark" /\ Marking(u) BY <1>2, MoveIs DEF Marking
  <2>2. /\ run[u].rev \in Revision
        /\ ledger'[run[u].rev]["restrict"] =
              [status |-> "applied", previous |-> run[u].previous]
    BY <1>2, <2>1, RowWritten DEF RunInv
  <2>3. run[u].rev <= r BY <2>2
  <2>4. r <= run[u].rev
    <3>1. CASE ledger[r]["restrict"] # NoLedgerRow BY <2>1, <3>1, RowsBefore
    <3>2. CASE ledger[r]["restrict"] = NoLedgerRow
      <4>1. ledger'[r]["restrict"] # ledger[r]["restrict"] BY <3>2 DEF NoLedgerRow
      <4>2. run[u].rev = r BY <1>2, <4>1, RowChanges DEF Acts, Action
      <4>3. QED BY <2>3, <4>2
    <3>3. QED BY <3>1, <3>2
  <2>5. run[u].rev = r BY <2>2, <2>3, <2>4, ConfigAssumption DEF Revision
  <2>6. run[u].previous = hist.taken BY <2>1 DEF MarkingInv
  <2>7. QED BY <1>1, <2>2, <2>5, <2>6
<1>3. CASE ~\E u \in Worker : MarkApplied(u) /\ run[u].action = "restrict"
  <2>1. \A w \in Worker : ~Marking(w)
    <3> SUFFICES ASSUME NEW w \in Worker, Marking(w) PROVE FALSE OBVIOUS
    <3>1. run'[w] = run[w] BY <1>3, MarkingEnds, UndisturbedBefore DEF Marking
    <3>2. Marking(w)' BY <3>1 DEF Marking
    <3>3. QED BY <3>2
  <2>2. ASSUME NEW q \in Revision
        PROVE  /\ Applied(q)' => ledger'[q]["restrict"] = ledger[q]["restrict"]
               /\ Applied(q) => Applied(q)'
    <3>1. \/ ledger'[q]["restrict"] = ledger[q]["restrict"]
          \/ ledger'[q]["restrict"] = [status |-> "claimed", previous |-> "null"]
          \/ ledger'[q]["restrict"] = [status |-> "skipped", previous |-> "null"]
      BY <1>3, RestrictRows
    <3>2. Applied(q) => ledger'[q]["restrict"] = ledger[q]["restrict"]
      BY RecordedRowsStay DEF Action
    <3>3. QED BY <3>1, <3>2
  <2>3. IsLatest(r) BY <2>2 DEF IsLatest, AppliedRestrictions
  <2>4. ledger[r]["restrict"].previous = hist.taken BY <2>1, <2>3 DEF LatestInv
  <2>5. QED BY <1>1, <2>2, <2>4
<1>4. QED BY <1>2, <1>3

\* What a run has read, nobody else changes before it writes.
LEMMA FreshStep ==
    ASSUME EnforcementInv, PlannedInv, BegunInv, SingleInv, OlderInv, RemovedInv,
           LatestInv, [Next]_vars, Undisturbed', \A w \in Worker : FreshRun(w),
           NEW w \in Worker
    PROVE  FreshRun(w)'
<1> USE DEF EnforcementInv
<1>1. FreshRun(w) OBVIOUS
<1>2. CASE Acts(w)
  <2>1. CASE ReadSubject(w)
    <3>1. /\ UNCHANGED <<subject, hist, type>> /\ run'[w].action = run[w].action
          /\ \/ /\ subject \in ActsOn(run[w].action)
                /\ run'[w].pc = IF AsksLedger(run[w].action) THEN "lookup" ELSE "write"
                /\ run'[w].previous = subject
             \/ run'[w].pc = "skip"
      BY <2>1, ReadIs, Fixed
    <3>2. CASE run'[w].pc = "skip" BY <3>2 DEF FreshRun
    <3>3. CASE run'[w].pc # "skip"
      <4>1. run[w].action \in {"flag_for_review", "unflag"} => subject # "removed"
        BY <3>1, <3>3 DEF ActsOn
      <4>2. run[w].action \in Plan(run[w].rev)
        BY <2>1 DEF PlannedInv, PlannedRun, InEffect, ReadSubject
      <4>3. run[w].action # "unflag" BY <4>2, PlanShape DEF Plan
      <4>4. run[w].action = "restore" => subject = "removed"
        BY <3>1, <3>3 DEF ActsOn
      <4>5. QED BY <3>1, <3>3, <4>1, <4>3, <4>4 DEF FreshRun, AsksLedger
    <3>4. QED BY <3>2, <3>3
  <2>2. CASE ReadLedger(w)
    <3>1. run[w].pc = "lookup" /\ subject = "removed"
      BY <1>1, <2>2 DEF ReadLedger, FreshRun
    <3>2. run[w].action = "restore" BY <3>1 DEF PlannedInv, PlannedRun
    <3>3. /\ run'[w].pc = "write" /\ run'[w].action = "restore"
          /\ run'[w].target \in RestoreTarget /\ hist' = hist
      BY <2>2, <3>2, LookupIs
    <3>4. \A v \in Worker : ~Marking(v) BY <3>1 DEF SingleInv, Marking
    <3>5. AppliedRestrictions # {} BY <3>1, <3>4 DEF RemovedInv
    <3>6. ASSUME NEW r \in LatestRestrictions PROVE IsLatest(r)
      <4>1. r \in Revision /\ r \in AppliedRestrictions
            /\ AppliedRestrictions \ {r} \subseteq older[r]
        BY DEF LatestRestrictions, AppliedRestrictions
      <4>2. ledger[r]["restrict"] # NoLedgerRow
        BY <4>1 DEF AppliedRestrictions, NoLedgerRow
      <4>3. \A q \in older[r] : q < r BY <4>1, <4>2 DEF OlderInv
      <4>4. QED BY <4>1, <4>3, ConfigAssumption DEF IsLatest, Revision
    <3>7. \A r \in LatestRestrictions : ledger[r]["restrict"].previous = hist.taken
      BY <3>4, <3>6 DEF LatestInv, LatestRestrictions, AppliedRestrictions
    <3>8. run'[w].target = hist.taken BY <3>3, <3>5, <3>7 DEF RestoreTarget
    <3>9. QED BY <3>3, <3>8 DEF FreshRun
  <2>3. CASE \/ Decline(w) \/ MarkApplied(w) \/ MarkSkipped(w)
             \/ WriteSubject(w) \/ CacheDecision(w)
    <3>1. run'[w].pc \in {"next", "mark", "complete"} BY <2>3, MoveIs
    <3>2. QED BY <3>1 DEF FreshRun
  <2>4. CASE \E r \in Revision : Start(w, r) BY <2>4, StartIs DEF FreshRun
  <2>5. CASE \E a \in Action : ClaimAction(w, a)
    <3>1. run'[w].pc \in {"next", "read", "decline"} BY <2>5, ClaimIs
    <3>2. QED BY <3>1 DEF FreshRun
  <2>6. CASE ReleaseClaim(w) \/ Complete(w) \/ Crash(w)
    BY <2>6, EndIs DEF FreshRun, IdleRun
  <2>7. ~EffectThrows(w) BY UndisturbedBefore
  <2>8. QED BY <1>2, <2>1, <2>2, <2>3, <2>4, <2>5, <2>6, <2>7 DEF Acts
<1>3. CASE ~Acts(w)
  <2>1. run'[w] = run[w] BY <1>3, StepIs, ActsAlone, NobodyActs
  <2>2. CASE run[w].pc \notin {"lookup", "write"} BY <1>1, <2>1, <2>2 DEF FreshRun
  <2>3. CASE run[w].pc \in {"lookup", "write"}
    <3>1. \A u \in Worker : ~WriteSubject(u)
      <4>1. \A u \in Worker : WriteSubject(u) => u = w
        BY <2>3 DEF SingleInv, WriteSubject
      <4>2. QED BY <1>3, <4>1 DEF Acts
    <3>2. hist'.taken = hist.taken BY <3>1, TakenStays, UndisturbedBefore
    <3>3. subject' = subject
      <4>1. ~Delete BY UndisturbedBefore
      <4>2. ~Escalate
        <5>1. CASE run[w].pc = "write" BY <5>1, UndisturbedBefore
        <5>2. CASE run[w].pc = "lookup" BY <1>1, <5>2 DEF FreshRun, Escalate
        <5>3. QED BY <2>3, <5>1, <5>2
      <4>3. QED BY <3>1, <4>1, <4>2, SubjectChanges
    <3>4. type' = type BY Fixed
    <3>5. QED BY <1>1, <2>1, <3>2, <3>3, <3>4 DEF FreshRun
  <2>4. QED BY <2>2, <2>3
<1>4. QED BY <1>2, <1>3

LEMMA BackInvInit == Init => BackInv
<1> SUFFICES ASSUME Init PROVE BackInv OBVIOUS
<1>1. \A r \in Revision : ledger[r]["restrict"] = NoLedgerRow BY DEF Init, Action
<1>2. AppliedRestrictions = {} BY <1>1 DEF AppliedRestrictions, NoLedgerRow
<1>3. \A w \in Worker : run[w].pc = "idle" BY DEF Init, IdleRun
<1>4. subject = "active" BY DEF Init
<1>5. QED
  BY <1>1, <1>2, <1>3, <1>4
  DEF BackInv, OlderInv, RemovedInv, MarkingInv, LatestInv, FreshRun, Marking, IsLatest

LEMMA BackInvStep == OrderInv /\ BackInv /\ [Next]_vars => BackInv'
<1> SUFFICES ASSUME OrderInv, BackInv, [Next]_vars, Undisturbed'
             PROVE  /\ OlderInv' /\ RemovedInv' /\ MarkingInv' /\ LatestInv'
                    /\ \A w \in Worker : FreshRun(w)'
  BY DEF BackInv
<1>1. EnforcementInv /\ PlannedInv /\ BegunInv BY DEF OrderInv
<1>2. Undisturbed BY <1>1, UndisturbedBefore DEF EnforcementInv
<1>3. SingleInv BY <1>2 DEF OrderInv, OrderedInv, Undisturbed
<1>4. /\ OlderInv /\ RemovedInv /\ MarkingInv /\ LatestInv
      /\ \A w \in Worker : FreshRun(w)
  BY <1>2 DEF BackInv
<1>5. QED
  BY <1>1, <1>3, <1>4, OlderStep, RemovedStep, MarkingStep, LatestStep, FreshStep

-----------------------------------------------------------------------------
(* The theorems.                                                           *)

\* Every plan the code can make is sound: not empty, one lever at most, no
\* acquitted object left hidden, nothing taken down without a reason.
THEOREM PlanCorrect == Spec => []PlanIsSound
<1>1. TypeOK => PlanIsSound BY PlansAreSound DEF PlanIsSound, TypeOK
<1>2. QED BY <1>1, EnforcementTypeCorrect, PTL

LEMMA OrderInvariant == Spec => []OrderInv
<1> QED BY OrderInvInit, OrderInvStep, PTL DEF Spec

\* A statement of an effect may throw at any point: applied in order, with no
\* crash and no lost lease, the newest revision ends as it demands, with any
\* number of workers, revisions and failures.
THEOREM FailedEffectsAreRetried == Spec => []FailedEffectIsRetried
<1>1. OrderInv => FailedEffectIsRetried
  <2> SUFFICES ASSUME OrderInv, hist.calm, hist.inOrder, Enforceable, Settled,
                      NEW r \in Revision, IsNewest(r)
               PROVE  /\ "restrict" \in Plan(r) => subject = "removed"
                      /\ "restore" \in Plan(r) => subject # "removed"
    BY DEF FailedEffectIsRetried, Reflects
  <2>1. work[r] = "done" BY DEF OrderInv, EnforcementInv, TypeOK, Settled, IsNewest
  <2>2. Newest(r)
    <3>1. r \in hist.begun BY <2>1 DEF OrderInv, BegunInv
    <3>2. ASSUME NEW q \in hist.begun PROVE q <= r
      <4>1. q \in Revision /\ work[q] # "absent"
        BY DEF OrderInv, EnforcementInv, TypeOK, BegunInv
      <4>2. ~(q > r) BY <4>1 DEF IsNewest
      <4>3. QED BY <4>1, <4>2, ConfigAssumption DEF Revision
    <3>3. QED BY <3>1, <3>2 DEF Newest
  <2>3. \A a \in Plan(r) : OnRecord(r, a)
    BY <2>1 DEF OrderInv, CalmInv, DoneInv
  <2>4. \A a \in Action : a \in Plan(r) => EffectDone(a)
    BY <2>2, <2>3 DEF OrderInv, OutcomeInv, Ordered
  <2>5. QED BY <2>4 DEF EffectDone, Action
<1>2. QED BY <1>1, OrderInvariant, PTL


LEMMA PropertyInvariant == Spec => []PropertyInv
<1>1. TypeOK /\ PropertyInv /\ [Next]_vars => PropertyInv'
  <2> SUFFICES ASSUME TypeOK, PropertyInv, [Next]_vars, type' # "review"
               PROVE  /\ subject' # "under_review" /\ hist'.taken = "active"
                      /\ \A w \in Worker : PropertyRun(w)'
    BY DEF PropertyInv, PropertyRun
  <2>1. type # "review" BY Fixed
  <2>2. QED BY <2>1, PropertyInvStep
<1>2. QED BY <1>1, PropertyInvInit, EnforcementTypeCorrect, PTL DEF Spec

LEMMA BackInvariant == Spec => []BackInv
<1> QED BY BackInvInit, BackInvStep, OrderInvariant, PTL DEF Spec

\* Whatever statements throw, a revision that reached the report has each action
\* of its plan on record, for any number of workers and revisions in any order,
\* as long as no run crashed or lost its lease: what ModerationPipeline takes for
\* one step, applyDecisionEnforcement, is over before the report is written.
THEOREM RecordsComeFirst == Spec => []RecordedBeforeTold
<1>1. OrderInv => RecordedBeforeTold
  BY DEF OrderInv, CalmInv, ToldInv, OnRecord, Closed, RecordedBeforeTold
<1>2. QED BY <1>1, OrderInvariant, PTL

\* A restore puts back the status the removal replaced, a mark set by the
\* community's counter included, with any number of workers and revisions: as
\* long as nothing failed, the revisions came in order and the counter did not
\* fire between a run's read and its write.
THEOREM RestoresGiveBack == Spec => RestoreGivesBack
<1>1. OrderInv /\ PropertyInv /\ BackInv /\ [Next]_vars =>
        [/\ subject = "removed" /\ subject' \in {"active", "under_review"}
         /\ hist.calm /\ hist.inOrder /\ ~hist.raced /\ mishaps = 0
         => subject' = hist.taken]_vars
  <2> SUFFICES ASSUME OrderInv, PropertyInv, BackInv, [Next]_vars,
                      subject = "removed", subject' \in {"active", "under_review"},
                      hist.calm, hist.inOrder, ~hist.raced, mishaps = 0
               PROVE  subject' = hist.taken
    OBVIOUS
  <2>1. \A w \in Worker : FreshRun(w) BY DEF BackInv, Undisturbed, Ordered
  <2>2. PICK u \in Worker : WriteSubject(u) /\ subject' = run[u].target
    BY SubjectChanges DEF Delete, Escalate
  <2>3. run[u].pc = "write" BY <2>2 DEF WriteSubject
  <2>4. run[u].action \in Lever /\ run[u].action # "restrict"
    BY <2>2, <2>3 DEF OrderInv, PlannedInv, PlannedRun
  <2>5. run[u].action = "restore" BY <2>1, <2>3, <2>4 DEF FreshRun, Lever
  <2>6. CASE type = "review" BY <2>1, <2>2, <2>3, <2>5, <2>6 DEF FreshRun
  <2>7. CASE type # "review" BY <2>2, <2>3, <2>7 DEF PropertyInv, PropertyRun
  <2>8. QED BY <2>6, <2>7
<1>2. QED
  BY <1>1, OrderInvariant, PropertyInvariant, BackInvariant, PTL DEF Spec, RestoreGivesBack

-----------------------------------------------------------------------------
(* The workers use their queue as DurableWork promises it.                 *)

HandledInv == \A w \in Worker : run[w].pc = "complete" => run[w].rev \in hist.told

\* Nothing that was told is forgotten.
LEMMA ToldGrows ==
    ASSUME TypeOK, [Next]_vars
    PROVE  /\ hist.told \subseteq hist'.told
           /\ (\A w \in Worker : ~CacheDecision(w)) => hist'.told = hist.told
<1>1. CASE \E u \in Worker : Acts(u)
  BY <1>1, HistIs DEF Acts
<1>2. CASE \/ \E r \in Revision : Arrive(r)
           \/ Escalate \/ Delete \/ UNCHANGED vars
  BY <1>2, NobodysHist
<1>3. QED BY <1>1, <1>2, StepIs

\* A run completes its event only once its handler returned.
LEMMA HandledStep ==
    ASSUME TypeOK, HandledInv, [Next]_vars
    PROVE  HandledInv'
<1> SUFFICES ASSUME NEW w \in Worker, run'[w].pc = "complete"
             PROVE  run'[w].rev \in hist'.told
  BY DEF HandledInv
<1>1. CASE run'[w] = run[w] BY <1>1, ToldGrows DEF HandledInv
<1>2. CASE Acts(w)
  <2>1. CASE CacheDecision(w) BY <2>1, MoveIs, HistIs
  <2>2. CASE ReadLedger(w)
    <3>1. CASE run[w].action = "restore" BY <2>2, <3>1, LookupIs
    <3>2. CASE run[w].action # "restore"
      <4>1. Goto(w, "write") \/ Goto(w, "skip") BY <2>2, <3>2 DEF ReadLedger
      <4>2. QED BY <4>1, GoesOn
    <3>3. QED BY <3>1, <3>2
  <2>3. CASE ~CacheDecision(w) /\ ~ReadLedger(w)
    BY <1>2, <2>3, StartIs, ClaimIs, ReadIs, MoveIs, EndIs DEF Acts, IdleRun, AsksLedger
  <2>4. QED BY <2>1, <2>2, <2>3
<1>3. QED BY <1>1, <1>2, StepIs, ActsAlone, NobodyActs

\* Every step is one of the queue's, or does not concern it.
LEMMA QueueStep ==
    ASSUME TypeOK, RunInv, BegunInv, HandledInv, [Next]_vars
    PROVE  Queue!Next \/ UNCHANGED Queue!vars
<1>1. CASE \E r \in Revision : Arrive(r)
  <2>1. PICK r \in Revision : Arrive(r) BY <1>1
  <2>2. Queue!Promise(r) BY <2>1 DEF Arrive, Queue!Promise
  <2>3. QED BY <2>2 DEF Queue!Next
<1>2. CASE \E u \in Worker : CacheDecision(u)
  <2>1. PICK u \in Worker : CacheDecision(u) BY <1>2
  <2>2. run[u].pc = "next" /\ work' = work BY <2>1 DEF CacheDecision
  <2>3. run[u].rev \in Revision /\ work[run[u].rev] # "absent"
    BY <2>2 DEF RunInv, BegunInv
  <2>4. hist'.told = hist.told \cup {run[u].rev} BY <2>1, HistIs
  <2>5. Queue!Perform(run[u].rev) BY <2>2, <2>3, <2>4 DEF Queue!Perform
  <2>6. QED BY <2>3, <2>5 DEF Queue!Next
<1>3. CASE \E u \in Worker : Complete(u)
  <2>1. PICK u \in Worker : Complete(u) BY <1>3
  <2> DEFINE r == run[u].rev
  <2>2. run[u].pc = "complete" /\ hist' = hist
        /\ (work' = [work EXCEPT ![r] = "done"] \/ work' = work)
    BY <2>1 DEF Complete
  <2>3. r \in Revision /\ r \in hist.told /\ work[r] # "absent"
    BY <2>2 DEF RunInv, BegunInv, HandledInv
  <2>4. work[r] \in {"owed", "done"} BY <2>3 DEF TypeOK
  <2>5. CASE work' = work BY <2>2, <2>5 DEF Queue!vars
  <2>6. CASE work[r] = "done" /\ work' = [work EXCEPT ![r] = "done"]
    <3>1. work' = work BY <2>6 DEF TypeOK
    <3>2. QED BY <2>2, <3>1 DEF Queue!vars
  <2>7. CASE work[r] = "owed" /\ work' = [work EXCEPT ![r] = "done"]
    <3>1. Queue!Settle(r) BY <2>2, <2>3, <2>7 DEF Queue!Settle
    <3>2. QED BY <2>3, <3>1 DEF Queue!Next
  <2>8. QED BY <2>2, <2>4, <2>5, <2>6, <2>7
<1>4. CASE /\ \A r \in Revision : ~Arrive(r)
           /\ \A u \in Worker : ~CacheDecision(u) /\ ~Complete(u)
  <2>1. hist'.told = hist.told BY <1>4, ToldGrows
  <2>2. work' = work
    BY <1>4, StepIs DEF Acts, Start, ClaimAction, Decline, ReadSubject, ReadLedger,
       WriteSubject, MarkApplied, MarkSkipped, EffectThrows, ReleaseClaim, Crash,
       Escalate, Delete, vars
  <2>3. QED BY <2>1, <2>2 DEF Queue!vars
<1>5. QED BY <1>1, <1>2, <1>3, <1>4

\* The workers complete only revisions whose handler returned, and none is owed
\* again: the contract ModerationOutbox is proved to implement, crashes, lost
\* leases and failing statements included.
THEOREM UsesTheQueueAsPromised == Spec => UsesQueueAsPromised
<1>1. Init => HandledInv BY DEF Init, HandledInv, IdleRun
<1>2. TypeOK /\ HandledInv /\ [Next]_vars => HandledInv' BY HandledStep
<1>3. Init => Queue!Init BY DEF Init, Queue!Init
<1>4. OrderInv /\ HandledInv /\ [Next]_vars => [Queue!Next]_(Queue!vars)
  BY QueueStep DEF OrderInv, EnforcementInv
<1>5. QED
  BY <1>1, <1>2, <1>3, <1>4, OrderInvariant, EnforcementTypeCorrect, PTL
  DEF Spec, UsesQueueAsPromised, Queue!Safety
=============================================================================
