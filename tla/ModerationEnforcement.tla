------------------------ MODULE ModerationEnforcement ------------------------
(***************************************************************************)
(* Applying the decisions of one CrowdSource case: applyDecisionOutboxEvent*)
(* (ModerationDecisionWorker.ts), applyDecisionEnforcement and its effects *)
(* (ModerationEnforcementService.ts), and the enforcement ledger           *)
(* (moderationEnforcementRepository.ts), on one reported listing or review *)
(* and one report about it.                                                *)
(*                                                                         *)
(* The case publishes several revisions of its decision. Each arrives as   *)
(* one decision.apply event, in any order, and is handed to the workers as *)
(* DurableWork promises and no better: at least once, again after a crash  *)
(* or a failure, and to two workers at once when a lease is lost.          *)
(*                                                                         *)
(* The handler is no transaction: each of its statements commits on its    *)
(* own, so each is an action. A mishap is a crash, a statement that throws *)
(* or a lost lease, and there are at most MaxMishaps of them.              *)
(***************************************************************************)
EXTENDS EnforcementPlan, Naturals

CONSTANTS
    Worker,
    LastRevision,   \* the case publishes revisions 1..LastRevision
    Decision,       \* what a revision may say
    SubjectType,    \* subset of {"property", "review", "eviction_case"}
    Mode,           \* subset of {"observe", "manual", "automatic"}
    MaxMishaps

ASSUME ConfigAssumption ==
    /\ LastRevision \in Nat
    /\ MaxMishaps \in Nat
    /\ SubjectType \subseteq {"property", "review", "eviction_case"}
    /\ Mode \subseteq {"observe", "manual", "automatic"}

Revision == 1..LastRevision

\* A property is "removed" while moderation_restricted is true and "active"
\* otherwise; a review has the three statuses of its own; "gone" is no row.
Status == {"active", "under_review", "removed"}
Subject == Status \cup {"gone"}

VARIABLES
    type, mode,     \* of this case and this deployment
    decided,        \* what each revision says
    work,           \* the decision.apply event of each revision
    ledger,         \* moderation_enforcements: one row per revision and action
    older,          \* for each restrict row, those created before it (created_at)
    subject,        \* the moderation state of the reported object
    cached,         \* decision_revision on the report, 0 for NULL
    run,            \* what each worker is doing
    mishaps,
    hist            \* history: how the runs were ordered, what was removed, and
                    \* which revisions were carried through to the report

config == <<type, mode, decided>>
vars == <<config, work, ledger, older, subject, cached, run, mishaps, hist>>

LedgerRow == [status : {"none", "claimed", "skipped", "applied"},
              previous : Status \cup {"null"}]

NoLedgerRow == [status |-> "none", previous |-> "null"]

Run == [pc : {"idle", "next", "decline", "read", "lookup", "write", "mark",
              "skip", "release", "complete"},
        rev : 0..LastRevision,
        todo : SUBSET Action,
        action : Action,
        target : Status,          \* what the effect writes
        previous : Status]        \* what it replaces

IdleRun == [pc |-> "idle", rev |-> 0, todo |-> {}, action |-> "none",
            target |-> "active", previous |-> "active"]

Init ==
    /\ type \in SubjectType
    /\ mode \in Mode
    /\ decided \in [Revision -> Decision]
    /\ work = [r \in Revision |-> "absent"]
    /\ ledger = [r \in Revision |-> [a \in Action |-> NoLedgerRow]]
    /\ older = [r \in Revision |-> {}]
    /\ subject = "active"
    /\ cached = 0
    /\ run = [w \in Worker |-> IdleRun]
    /\ mishaps = 0
    /\ hist = [calm |-> TRUE, inOrder |-> TRUE, begun |-> {}, raced |-> FALSE,
               taken |-> "active", told |-> {}]

-----------------------------------------------------------------------------
Plan(r) == PlanEnforcement(decided[r])

\* Faulty ModeAllows: manual applies what it should leave to a human.
ModeAllowsManual(a) == mode # "observe"

\* modeAllows
ModeAllows(a) ==
    \/ mode = "automatic"
    \/ mode = "manual" /\ a \in {"restore", "unflag"}

\* The statuses applyToProperty and applyToReview act on, for each action.
ActsOn(a) ==
    CASE a = "restrict" -> {"active", "under_review"}
      [] a = "restore" -> {"removed"}
      [] a = "flag_for_review" /\ type = "review" -> {"active"}
      [] a = "unflag" /\ type = "review" -> {"under_review"}
      [] OTHER -> {}

\* What restrict, flag_for_review and a property's restore write; a review's
\* restore and unflag ask the ledger first.
Target(a) ==
    CASE a = "restrict" -> "removed"
      [] a = "flag_for_review" -> "under_review"
      [] OTHER -> "active"

AsksLedger(a) == type = "review" /\ a \in {"restore", "unflag"}

\* Revisions whose restrict row is applied, and the newest of those rows.
AppliedRestrictions ==
    {r \in Revision : ledger[r]["restrict"].status = "applied"}

LatestRestrictions ==
    {r \in AppliedRestrictions : AppliedRestrictions \ {r} \subseteq older[r]}

\* Faulty RestoreTarget: always active.
RestoreTargetActive == {"active"}

\* Faulty RestoreTarget: no fallback when the removal is not on record.
RestoreTargetOrNull ==
    IF AppliedRestrictions = {} THEN {"null"}
    ELSE {ledger[r]["restrict"].previous : r \in LatestRestrictions}

\* findLatestAppliedRestriction: the newest applied row's previous state, or
\* ACTIVE when there is no such row. The set has one member.
RestoreTarget ==
    IF AppliedRestrictions = {} THEN {"active"}
    ELSE {ledger[r]["restrict"].previous : r \in LatestRestrictions}

\* hasAppliedEnforcement(subject, 'flag_for_review')
FlaggedByModeration ==
    \E r \in Revision : ledger[r]["flag_for_review"].status = "applied"

Mishap(happens) ==
    /\ happens => mishaps < MaxMishaps
    /\ mishaps' = IF happens THEN mishaps + 1 ELSE mishaps

Goto(w, pc) == run' = [run EXCEPT ![w].pc = pc]

SetLedger(w, status, previous) ==
    ledger' = [ledger EXCEPT ![run[w].rev][run[w].action] =
                  [status |-> status, previous |-> previous]]

\* created_at of a restrict row, when it is inserted and when it is deleted.
RestrictClaimed(r) ==
    [older EXCEPT ![r] = {q \in Revision : ledger[q]["restrict"] # NoLedgerRow}]

RestrictReleased(r) ==
    [q \in Revision |-> IF q = r THEN {} ELSE older[q] \ {r}]

-----------------------------------------------------------------------------
(* The webhook receiver queues a revision: any order, once each.           *)
Arrive(r) ==
    /\ work[r] = "absent"
    /\ work' = [work EXCEPT ![r] = "owed"]
    /\ UNCHANGED <<config, ledger, older, subject, cached, run, mishaps, hist>>

\* A worker claims the event. A second run of one event at the same time takes a
\* lost lease.
Start(w, r) ==
    /\ run[w].pc = "idle"
    /\ work[r] = "owed"
    /\ Mishap(\E v \in Worker : run[v].rev = r)
    /\ run' = [run EXCEPT ![w] =
          [IdleRun EXCEPT !.pc = "next", !.rev = r, !.todo = Plan(r)]]
    /\ hist' = [hist EXCEPT
          !.calm = @ /\ \A v \in Worker : run[v].rev # r,
          !.begun = @ \cup {r},
          !.inOrder = @ /\ \A q \in Revision :
              /\ q > r => q \notin hist.begun
              /\ q < r => work[q] # "owed" /\ \A v \in Worker : run[v].rev # q]
    /\ UNCHANGED <<config, work, ledger, older, subject, cached>>

\* Faulty ClaimAction: a claim nobody finished is taken over.
ClaimUnfinished(w, a) ==
    /\ run[w].pc = "next" /\ a \in run[w].todo
    /\ IF ledger[run[w].rev][a].status \in {"skipped", "applied"}
       THEN /\ run' = [run EXCEPT ![w].todo = @ \ {a}]
            /\ UNCHANGED <<ledger, older>>
       ELSE /\ run' = [run EXCEPT ![w] = [@ EXCEPT
                   !.todo = run[w].todo \ {a}, !.action = a,
                   !.pc = IF ModeAllows(a) THEN "read" ELSE "decline"]]
            /\ ledger' = [ledger EXCEPT ![run[w].rev][a].status = "claimed"]
            /\ older' = IF a = "restrict" THEN RestrictClaimed(run[w].rev) ELSE older
    /\ UNCHANGED <<config, work, subject, cached, mishaps, hist>>

\* claimEnforcement, INSERT ... ON CONFLICT DO NOTHING: an existing row means
\* "duplicate", whatever became of the run that inserted it.
ClaimAction(w, a) ==
    /\ run[w].pc = "next" /\ a \in run[w].todo
    /\ IF ledger[run[w].rev][a] # NoLedgerRow
       THEN /\ run' = [run EXCEPT ![w].todo = @ \ {a}]
            /\ UNCHANGED <<ledger, older>>
       ELSE /\ run' = [run EXCEPT ![w] = [@ EXCEPT
                   !.todo = run[w].todo \ {a}, !.action = a,
                   !.pc = IF ModeAllows(a) THEN "read" ELSE "decline"]]
            /\ ledger' = [ledger EXCEPT ![run[w].rev][a].status = "claimed"]
            /\ older' = IF a = "restrict" THEN RestrictClaimed(run[w].rev) ELSE older
    /\ UNCHANGED <<config, work, subject, cached, mishaps, hist>>

\* markEnforcementSkipped, because the mode does not allow the action.
Decline(w) ==
    /\ run[w].pc = "decline"
    /\ SetLedger(w, "skipped", "null")
    /\ Goto(w, "next")
    /\ UNCHANGED <<config, work, older, subject, cached, mishaps, hist>>

\* applyEffect reads the object and decides.
ReadSubject(w) ==
    /\ run[w].pc = "read"
    /\ LET a == run[w].action IN
       IF subject \in ActsOn(a) /\ type \in {"property", "review"}
       THEN run' = [run EXCEPT ![w] = [@ EXCEPT
                !.pc = IF AsksLedger(a) THEN "lookup" ELSE "write",
                !.target = Target(a), !.previous = subject]]
       ELSE Goto(w, "skip")
    /\ UNCHANGED <<config, work, ledger, older, subject, cached, mishaps, hist>>

\* A review's restore reads what it was; its unflag reads who flagged it.
ReadLedger(w) ==
    /\ run[w].pc = "lookup"
    /\ IF run[w].action = "restore"
       THEN \E status \in RestoreTarget :
                run' = [run EXCEPT ![w] = [@ EXCEPT !.pc = "write", !.target = status]]
       ELSE Goto(w, IF FlaggedByModeration THEN "write" ELSE "skip")
    /\ UNCHANGED <<config, work, ledger, older, subject, cached, mishaps, hist>>

\* setPropertyRestriction, setReviewModerationStatus: by id, whatever the object
\* has become since it was read.
WriteSubject(w) ==
    /\ run[w].pc = "write"
    /\ subject' = IF subject = "gone" THEN "gone" ELSE run[w].target
    /\ hist' = IF run[w].target = "removed" /\ subject \in Status \ {"removed"}
               THEN [hist EXCEPT !.taken = subject] ELSE hist
    /\ Goto(w, "mark")
    /\ UNCHANGED <<config, work, ledger, older, cached, mishaps>>

\* markEnforcementApplied, with the state the effect replaced.
MarkApplied(w) ==
    /\ run[w].pc = "mark"
    /\ SetLedger(w, "applied", run[w].previous)
    /\ Goto(w, "next")
    /\ UNCHANGED <<config, work, older, subject, cached, mishaps, hist>>

\* markEnforcementSkipped: nothing to do, or no such lever.
MarkSkipped(w) ==
    /\ run[w].pc = "skip"
    /\ SetLedger(w, "skipped", "null")
    /\ Goto(w, "next")
    /\ UNCHANGED <<config, work, older, subject, cached, mishaps, hist>>

\* A statement inside the try throws.
EffectThrows(w) ==
    /\ run[w].pc \in {"read", "lookup", "write", "mark", "skip"}
    /\ Mishap(TRUE)
    /\ Goto(w, "release")
    /\ UNCHANGED <<config, work, ledger, older, subject, cached, hist>>

\* Faulty ReleaseClaim: every row of the revision goes.
ReleaseRevision(w) ==
    /\ run[w].pc = "release"
    /\ LET r == run[w].rev IN
       /\ ledger' = [ledger EXCEPT ![r] = [a \in Action |-> NoLedgerRow]]
       /\ older' = RestrictReleased(r)
    /\ run' = [run EXCEPT ![w] = IdleRun]
    /\ UNCHANGED <<config, work, subject, cached, mishaps, hist>>

\* Faulty ReleaseClaim: the claim is kept.
KeepClaim(w) ==
    /\ run[w].pc = "release"
    /\ run' = [run EXCEPT ![w] = IdleRun]
    /\ UNCHANGED <<config, work, ledger, older, subject, cached, mishaps, hist>>

\* releaseEnforcementClaim deletes the row, and the error fails the event.
ReleaseClaim(w) ==
    /\ run[w].pc = "release"
    /\ LET r == run[w].rev IN
       /\ ledger' = [ledger EXCEPT ![r][run[w].action] = NoLedgerRow]
       /\ older' = IF run[w].action = "restrict" THEN RestrictReleased(r) ELSE older
    /\ run' = [run EXCEPT ![w] = IdleRun]
    /\ UNCHANGED <<config, work, subject, cached, mishaps, hist>>

\* cacheDecisionOnReport: refused by the row itself if a newer one is there.
CacheDecision(w) ==
    /\ run[w].pc = "next" /\ run[w].todo = {}
    /\ cached' = IF cached <= run[w].rev THEN run[w].rev ELSE cached
    /\ hist' = [hist EXCEPT !.told = @ \cup {run[w].rev}]
    /\ Goto(w, "complete")
    /\ UNCHANGED <<config, work, ledger, older, subject, mishaps>>

\* The dispatcher completes the event, unless its lease went to another run.
Complete(w) ==
    /\ run[w].pc = "complete"
    /\ LET r == run[w].rev IN
       \/ work' = [work EXCEPT ![r] = "done"]
       \/ /\ \E v \in Worker \ {w} : run[v].rev = r
          /\ UNCHANGED work
    /\ run' = [run EXCEPT ![w] = IdleRun]
    /\ UNCHANGED <<config, ledger, older, subject, cached, mishaps, hist>>

\* The process dies, or a statement outside the try throws: the event stays
\* owed, and so does the claim stay in the ledger.
Crash(w) ==
    /\ run[w].pc # "idle"
    /\ Mishap(TRUE)
    /\ run' = [run EXCEPT ![w] = IdleRun]
    /\ hist' = [hist EXCEPT !.calm = FALSE]
    /\ UNCHANGED <<config, work, ledger, older, subject, cached>>

-----------------------------------------------------------------------------
(* Others who write the object.                                            *)

\* insertReviewReportAndEscalate: a report that finds three of them on an
\* active review marks it; the predicate is in the UPDATE.
Escalate ==
    /\ type = "review" /\ subject = "active"
    /\ subject' = "under_review"
    /\ hist' = [hist EXCEPT !.raced = @ \/ \E w \in Worker : run[w].pc = "write"]
    /\ UNCHANGED <<config, work, ledger, older, cached, run, mishaps>>

\* The review is deleted by its author, or the listing is reaped when its ad expires.
Delete ==
    /\ subject # "gone"
    /\ subject' = "gone"
    /\ UNCHANGED <<config, work, ledger, older, cached, run, mishaps, hist>>

Next ==
    \/ \E r \in Revision : Arrive(r)
    \/ \E w \in Worker, r \in Revision : Start(w, r)
    \/ \E w \in Worker, a \in Action : ClaimAction(w, a)
    \/ \E w \in Worker :
        \/ Decline(w) \/ ReadSubject(w) \/ ReadLedger(w) \/ WriteSubject(w)
        \/ MarkApplied(w) \/ MarkSkipped(w) \/ EffectThrows(w) \/ ReleaseClaim(w)
        \/ CacheDecision(w) \/ Complete(w) \/ Crash(w)
    \/ Escalate
    \/ Delete

Spec == Init /\ [][Next]_vars

-----------------------------------------------------------------------------
(* Properties.                                                             *)

TypeOK ==
    /\ type \in SubjectType /\ mode \in Mode
    /\ decided \in [Revision -> Decision]
    /\ work \in [Revision -> {"absent", "owed", "done"}]
    /\ ledger \in [Revision -> [Action -> LedgerRow]]
    /\ older \in [Revision -> SUBSET Revision]
    /\ subject \in Subject
    /\ cached \in 0..LastRevision
    /\ run \in [Worker -> Run]
    /\ mishaps \in 0..MaxMishaps
    /\ hist \in [calm : BOOLEAN, inOrder : BOOLEAN, begun : SUBSET Revision,
                 raced : BOOLEAN, taken : Status, told : SUBSET Revision]

\* Between its claim and the record of what came of it, an action of a revision
\* is in the hands of one run only, redeliveries and lost leases included.
InEffect(w) ==
    run[w].pc \in {"decline", "read", "lookup", "write", "mark", "skip", "release"}

ClaimIsExclusive == \A v, w \in Worker :
    v # w /\ InEffect(v) /\ InEffect(w) =>
        <<run[v].rev, run[v].action>> # <<run[w].rev, run[w].action>>

\* Once: an action on record as carried out is never claimed, repeated or
\* forgotten, whatever is redelivered or fails afterwards.
AppliedOnce == [][\A r \in Revision, a \in Action :
    ledger[r][a].status = "applied" => ledger'[r][a] = ledger[r][a]]_vars

\* Nothing is told, or reported as done, that is still open: while no run crashed
\* or lost its lease, each action of a revision that reached the report is on
\* record as carried out or as left alone, whatever statements threw and however
\* the revisions' runs were interleaved.
RecordedBeforeTold == hist.calm =>
    \A r \in hist.told : \A a \in Plan(r) :
        ledger[r][a].status \in {"skipped", "applied"}

\* Only the automatic mode takes anything down or marks it contested: in the
\* others, what is hidden or marked is so by somebody else's hand.
ModeIsObeyed == mode # "automatic" =>
    /\ subject # "removed"
    /\ \A r \in Revision, a \in {"restrict", "flag_for_review"} :
        ledger[r][a].status # "applied"

\* Every event that arrived has been applied and nobody is at work.
Settled ==
    /\ \E r \in Revision : work[r] = "done"
    /\ \A r \in Revision : work[r] # "owed"
    /\ \A w \in Worker : run[w].pc = "idle"

IsNewest(r) == work[r] # "absent" /\ \A q \in Revision : q > r => work[q] = "absent"

\* The object is hidden or shown as the newest revision that arrived demands.
Reflects == \A r \in Revision : IsNewest(r) =>
    /\ "restrict" \in Plan(r) => subject = "removed"
    /\ "restore" \in Plan(r) => subject # "removed"

Enforceable == mode = "automatic" /\ type # "eviction_case" /\ subject # "gone"

\* A statement of an effect may throw, at any point, and the event is retried:
\* if no run crashed or lost its lease and the revisions were applied in order,
\* the object ends as the newest decision says.
FailedEffectIsRetried ==
    hist.calm /\ hist.inOrder /\ Enforceable /\ Settled => Reflects

\* Reversibly: a restore puts back the status the removal replaced, a mark set
\* by the community's counter included. This takes a run without failures and a
\* counter that did not fire between the removal's read and its write.
RestoreGivesBack == [][
    /\ subject = "removed" /\ subject' \in {"active", "under_review"}
    /\ hist.calm /\ hist.inOrder /\ ~hist.raced /\ mishaps = 0
    => subject' = hist.taken]_vars

\* Whatever a decision that is still to come may say, every outcome with every
\* set of recommendations and severities: its plan is never empty, has at most
\* one lever that moves an object of this type, never leaves an acquitted object
\* hidden unless told to hide it, and takes nothing down without a
\* recommendation or a severe violation.
Recommendations ==
    SUBSET {"remove", "hide", "label", "no_action", "restore", "suspend_user"}

SoundFor(decision) ==
    LET plan == PlanEnforcement(decision)
        levers == {a \in plan : ActsOn(a) # {}}
        toldToHide == decision.recommended \cap Restricting # {}
    IN  /\ plan # {}
        /\ \A a, b \in levers : a = b
        /\ "none" \in plan => plan = {"none"}
        /\ decision.outcome = "no_violation" /\ ~toldToHide => "restore" \in plan
        /\ "restrict" \in plan =>
            \/ toldToHide
            \/ /\ decision.recommended = {} /\ decision.outcome = "violation"
               /\ "high" \in decision.severities
               /\ "critical" \notin decision.severities
        /\ "suspend_user" \in decision.recommended => "manual_review" \in plan

PlanIsSound == (\A r \in Revision : work[r] = "absent") =>
    \A o \in Outcome, R \in Recommendations, S \in SUBSET Severity :
        SoundFor([outcome |-> o, recommended |-> R, severities |-> S])

\* The webhook route says that a later revision replaces an earlier one and that
\* the superseded one is reversed: once every event is applied, the object is as
\* the newest revision says.
NewestDecisionStands == Enforceable /\ Settled => Reflects

(* The workers use their queue by the contract ModerationOutbox implements: *)
(* a revision is done when its handler returned, and never owed again.      *)
Queue == INSTANCE DurableWork WITH
    Event <- Revision, state <- work, performed <- hist.told
UsesQueueAsPromised == Queue!Safety
=============================================================================
