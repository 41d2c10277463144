-------------------- MODULE ModerationEnforcementProofs --------------------
(***************************************************************************)
(* Theorems about ModerationEnforcement, for any number of workers,        *)
(* revisions and mishaps, whatever the revisions say.                      *)
(*                                                                         *)
(* The inductive invariant EnforcementInv says what the unique key of the  *)
(* ledger gives a run: while it is between the claim of an action and the  *)
(* record of what came of it, the row is claimed and no other run is there.*)
(* The mode's part follows the decision of modeAllows to the statement     *)
(* that writes the object.                                                 *)
(***************************************************************************)
EXTENDS ModerationEnforcement, TLAPS

RunInv == \A w \in Worker : run[w].pc # "idle" => run[w].rev \in Revision

ClaimInv == \A w \in Worker :
    InEffect(w) => ledger[run[w].rev][run[w].action].status = "claimed"

RecordInv == \A r \in Revision, a \in Action :
    ledger[r][a].status = "applied" => ledger[r][a].previous \in Status

\* A run that got past modeAllows.
PastMode(w) == run[w].pc \in {"read", "lookup", "write", "mark", "skip"}

GivingInv == mode # "automatic" => \A w \in Worker : PastMode(w) =>
    /\ run[w].action \in {"restore", "unflag"}
    /\ run[w].pc \in {"lookup", "write"} => run[w].target # "removed"

EnforcementInv ==
    /\ TypeOK
    /\ RunInv
    /\ ClaimInv
    /\ ClaimIsExclusive
    /\ RecordInv
    /\ GivingInv
    /\ ModeIsObeyed

-----------------------------------------------------------------------------
(* Facts the steps below share.                                            *)

\* A plan is made of actions, whatever the decision is.
LEMMA PlanType ==
    ASSUME NEW decision
    PROVE  PlanEnforcement(decision) \subseteq Action
<1>1. \A r : ActionFor(r) \in Action BY DEF ActionFor, Action
<1>2. \A o, A : A \subseteq Action => WithRestoreForNoViolation(o, A) \subseteq Action
  BY DEF WithRestoreForNoViolation, Action
<1>3. \A A : A \subseteq Action => Collapse(A) \subseteq Action
  BY DEF Collapse
<1>4. \A S : SeverityFallback(S) \in Action BY DEF SeverityFallback, Action
<1>5. \A o, S : FallbackFor(o, S) \in Action
  BY <1>4 DEF FallbackFor, Action
<1>6. {ActionFor(r) : r \in decision.recommended} \subseteq Action
  BY <1>1
<1> QED BY <1>2, <1>3, <1>5, <1>6 DEF PlanEnforcement

\* What an effect writes is a status.
LEMMA TargetType == \A a : Target(a) \in Status
BY DEF Target, Status

\* A restore puts back a status, and "active" when nothing was taken down.
LEMMA RestoreTargetType ==
    ASSUME EnforcementInv, NEW status \in RestoreTarget
    PROVE  /\ status \in Status
           /\ AppliedRestrictions = {} => status = "active"
<1>1. CASE AppliedRestrictions = {}
  BY <1>1 DEF RestoreTarget, Status
<1>2. CASE AppliedRestrictions # {}
  <2>1. PICK r \in LatestRestrictions : status = ledger[r]["restrict"].previous
    BY <1>2 DEF RestoreTarget
  <2>2. r \in Revision /\ ledger[r]["restrict"].status = "applied"
    BY <2>1 DEF LatestRestrictions, AppliedRestrictions
  <2> QED BY <2>1, <2>2, <1>2 DEF EnforcementInv, RecordInv, Action
<1> QED BY <1>1, <1>2

\* Overwriting one field of a run, or one row of the ledger, keeps the types.
LEMMA RunMoves ==
    ASSUME run \in [Worker -> Run], NEW w \in Worker,
           NEW pc \in {"idle", "next", "decline", "read", "lookup", "write", "mark",
                      "skip", "release", "complete"},
           run' = [run EXCEPT ![w].pc = pc]
    PROVE  /\ run' \in [Worker -> Run]
           /\ \A v \in Worker \ {w} : run'[v] = run[v]
           /\ run'[w].pc = pc /\ run'[w].rev = run[w].rev
           /\ run'[w].action = run[w].action /\ run'[w].target = run[w].target
<1> DEFINE next == [run[w] EXCEPT !.pc = pc]
<1>1. next \in Run BY DEF Run
<1>2. /\ next.pc = pc /\ next.rev = run[w].rev
      /\ next.action = run[w].action /\ next.target = run[w].target
  BY DEF Run
<1>3. run' = [run EXCEPT ![w] = next] OBVIOUS
<1> HIDE DEF next
<1> QED BY <1>1, <1>2, <1>3

LEMMA LedgerWritten ==
    ASSUME ledger \in [Revision -> [Action -> LedgerRow]],
           NEW r \in Revision, NEW a \in Action, NEW record \in LedgerRow,
           ledger' = [ledger EXCEPT ![r][a] = record]
    PROVE  /\ ledger' \in [Revision -> [Action -> LedgerRow]]
           /\ ledger'[r][a] = record
           /\ \A q \in Revision, b \in Action :
                <<q, b>> # <<r, a>> => ledger'[q][b] = ledger[q][b]
<1>1. [ledger[r] EXCEPT ![a] = record] \in [Action -> LedgerRow] OBVIOUS
<1> QED BY <1>1

\* A step of one run that takes no new action in hand, and touches no row but
\* the one it then lets go of, keeps claims exclusive.
LEMMA OneRunMoves ==
    ASSUME RunInv, ClaimInv, ClaimIsExclusive, NEW w \in Worker,
           \A v \in Worker \ {w} : run'[v] = run[v],
           \A v \in Worker : run[v].action \in Action,
           run'[w].pc # "idle" => run'[w].rev \in Revision,
           InEffect(w)' => /\ InEffect(w)
                           /\ run'[w].rev = run[w].rev
                           /\ run'[w].action = run[w].action,
           \A q \in Revision, b \in Action : ledger'[q][b] # ledger[q][b] =>
               /\ InEffect(w) /\ ~InEffect(w)'
               /\ q = run[w].rev /\ b = run[w].action
    PROVE  RunInv' /\ ClaimInv' /\ ClaimIsExclusive'
<1>1. RunInv' BY DEF RunInv
<1>2. \A v \in Worker : InEffect(v) => run[v].rev \in Revision
  BY DEF RunInv, InEffect
<1>3. \A v \in Worker : InEffect(v)' =>
        InEffect(v) /\ run'[v].rev = run[v].rev /\ run'[v].action = run[v].action
  BY DEF InEffect
<1>4. ClaimIsExclusive' BY <1>3 DEF ClaimIsExclusive
<1>5. ClaimInv'
  <2> SUFFICES ASSUME NEW v \in Worker, InEffect(v)'
               PROVE  ledger'[run'[v].rev][run'[v].action].status = "claimed"
    BY DEF ClaimInv
  <2>1. ledger[run[v].rev][run[v].action].status = "claimed"
    BY <1>3 DEF ClaimInv
  <2>2. ledger'[run[v].rev][run[v].action] = ledger[run[v].rev][run[v].action]
    BY <1>2, <1>3 DEF ClaimIsExclusive
  <2> QED BY <1>3, <2>1, <2>2
<1> QED BY <1>1, <1>4, <1>5

-----------------------------------------------------------------------------
(* The invariant is inductive.                                             *)

\* It holds of an empty ledger and idle workers.
LEMMA EnforcementInvInit == Init => EnforcementInv
<1> SUFFICES ASSUME Init PROVE EnforcementInv
  OBVIOUS
<1> USE ConfigAssumption DEF Init, IdleRun, NoLedgerRow
<1>1. TypeOK
  <2>1. NoLedgerRow \in LedgerRow BY DEF LedgerRow
  <2>2. IdleRun \in Run BY DEF Run, Action, Status
  <2>3. hist \in [calm : BOOLEAN, inOrder : BOOLEAN, begun : SUBSET Revision,
                  raced : BOOLEAN, taken : Status, told : SUBSET Revision]
    BY DEF Status
  <2> QED BY <2>1, <2>2, <2>3 DEF TypeOK, Subject, Status
<1>2. RunInv BY DEF RunInv
<1>3. ClaimInv BY DEF ClaimInv, InEffect
<1>4. ClaimIsExclusive BY DEF ClaimIsExclusive, InEffect
<1>5. RecordInv BY DEF RecordInv
<1>6. GivingInv BY DEF GivingInv, PastMode
<1>7. ModeIsObeyed BY DEF ModeIsObeyed, Action
<1> QED BY <1>1, <1>2, <1>3, <1>4, <1>5, <1>6, <1>7 DEF EnforcementInv

\* Every action keeps it.
LEMMA EnforcementInvStep == EnforcementInv /\ [Next]_vars => EnforcementInv'
<1> SUFFICES ASSUME EnforcementInv, [Next]_vars PROVE EnforcementInv'
  OBVIOUS
<1> USE ConfigAssumption DEF EnforcementInv
<1>a. \A v \in Worker : run[v] \in Run /\ run[v].action \in Action
  BY DEF TypeOK, Run
<1>b. \A v \in Worker : InEffect(v) => run[v].rev \in Revision
  BY DEF RunInv, InEffect
<1>c. IdleRun \in Run BY DEF IdleRun, Run, Action, Status
<1>1. ASSUME NEW r \in Revision, Arrive(r)
      PROVE  EnforcementInv'
  <2>1. TypeOK' BY <1>1 DEF Arrive, config, TypeOK, Subject, Status
  <2>2. RunInv' /\ ClaimInv' /\ ClaimIsExclusive'
    BY <1>1 DEF Arrive, RunInv, ClaimInv, ClaimIsExclusive, InEffect
  <2>3. RecordInv' BY <1>1 DEF Arrive, RecordInv
  <2>4. GivingInv' BY <1>1 DEF Arrive, config, GivingInv, PastMode
  <2>5. ModeIsObeyed' BY <1>1 DEF Arrive, config, ModeIsObeyed
  <2> QED BY <2>1, <2>2, <2>3, <2>4, <2>5
<1>2. ASSUME NEW w \in Worker, NEW r \in Revision, Start(w, r)
      PROVE  EnforcementInv'
  <2>0. /\ run' \in [Worker -> Run] /\ \A v \in Worker \ {w} : run'[v] = run[v]
        /\ run'[w].pc = "next" /\ run'[w].rev = r
    <3> DEFINE started == [IdleRun EXCEPT !.pc = "next", !.rev = r, !.todo = Plan(r)]
    <3>1. Plan(r) \subseteq Action BY PlanType DEF Plan
    <3>2. started.pc = "next" /\ started.rev = r BY DEF IdleRun
    <3>3. started \in Run
      <4>1. r \in 0..LastRevision BY DEF Revision
      <4>2. \A idle \in Run :
              [idle EXCEPT !.pc = "next", !.rev = r, !.todo = Plan(r)] \in Run
        BY <3>1, <4>1 DEF Run
      <4> QED BY <1>c, <4>2
    <3>4. run' = [run EXCEPT ![w] = started] BY <1>2 DEF Start
    <3> HIDE DEF started
    <3>5. run' \in [Worker -> Run] /\ run'[w] = started
      BY <3>3, <3>4 DEF TypeOK
    <3> QED BY <3>2, <3>4, <3>5 DEF TypeOK
  <2>1. TypeOK'
    <3>1. hist' \in [calm : BOOLEAN, inOrder : BOOLEAN, begun : SUBSET Revision,
                     raced : BOOLEAN, taken : Status, told : SUBSET Revision]
      BY <1>2 DEF Start, TypeOK
    <3>2. mishaps' \in 0..MaxMishaps BY <1>2 DEF Start, Mishap, TypeOK
    <3> QED BY <2>0, <3>1, <3>2, <1>2 DEF Start, config, TypeOK
  <2>2. RunInv' /\ ClaimInv' /\ ClaimIsExclusive'
    BY <2>0, <1>a, <1>2, OneRunMoves DEF Start, InEffect
  <2>3. RecordInv' BY <1>2 DEF Start, RecordInv
  <2>4. GivingInv' BY <2>0, <1>2 DEF Start, config, GivingInv, PastMode
  <2>5. ModeIsObeyed' BY <1>2 DEF Start, config, ModeIsObeyed
  <2> QED BY <2>1, <2>2, <2>3, <2>4, <2>5
<1>3. ASSUME NEW w \in Worker, NEW a \in Action, ClaimAction(w, a)
      PROVE  EnforcementInv'
  <2>0. run[w].rev \in Revision BY <1>3 DEF ClaimAction, RunInv
  <2>c. CASE ledger[run[w].rev][a] # NoLedgerRow
    <3>1. /\ run' = [run EXCEPT ![w].todo = @ \ {a}]
          /\ UNCHANGED <<ledger, older>>
      BY <2>c, <1>3 DEF ClaimAction
    <3>2. [run[w] EXCEPT !.todo = @ \ {a}] \in Run BY <1>a DEF Run
    <3>3. run' \in [Worker -> Run] BY <3>1, <3>2 DEF TypeOK
    <3>4. /\ \A v \in Worker : run'[v].pc = run[v].pc /\ run'[v].rev = run[v].rev
          /\ \A v \in Worker : run'[v].action = run[v].action
          /\ \A v \in Worker : run'[v].target = run[v].target
      BY <3>1 DEF TypeOK, Run
    <3>5. TypeOK' BY <3>1, <3>3, <1>3 DEF ClaimAction, config, TypeOK
    <3>6. RunInv' /\ ClaimInv' /\ ClaimIsExclusive'
      BY <3>1, <3>4 DEF RunInv, ClaimInv, ClaimIsExclusive, InEffect
    <3>7. RecordInv' BY <3>1 DEF RecordInv
    <3>8. GivingInv' BY <3>4, <1>3 DEF ClaimAction, config, GivingInv, PastMode
    <3>9. ModeIsObeyed' BY <3>1, <1>3 DEF ClaimAction, config, ModeIsObeyed
    <3> QED BY <3>5, <3>6, <3>7, <3>8, <3>9
  <2>d. CASE ledger[run[w].rev][a] = NoLedgerRow
    <3> DEFINE pc == IF ModeAllows(a) THEN "read" ELSE "decline"
               r == run[w].rev
               claimed == [ledger[r][a] EXCEPT !.status = "claimed"]
    <3>1. /\ run' = [run EXCEPT ![w] =
                [@ EXCEPT !.todo = run[w].todo \ {a}, !.action = a, !.pc = pc]]
          /\ ledger' = [ledger EXCEPT ![r][a].status = "claimed"]
          /\ older' = IF a = "restrict" THEN RestrictClaimed(r) ELSE older
      BY <2>d, <1>3 DEF ClaimAction
    <3>2. claimed \in LedgerRow /\ claimed.status = "claimed"
      BY <2>d DEF NoLedgerRow, LedgerRow, TypeOK
    <3>3. ledger' = [ledger EXCEPT ![r][a] = claimed]
      BY <3>1, <2>0 DEF TypeOK
    <3>4. /\ ledger' \in [Revision -> [Action -> LedgerRow]]
          /\ ledger'[r][a].status = "claimed"
          /\ \A q \in Revision, b \in Action :
                <<q, b>> # <<r, a>> => ledger'[q][b] = ledger[q][b]
      <4> HIDE DEF claimed
      <4> QED BY <2>0, <3>2, <3>3, LedgerWritten DEF TypeOK
    <3>5. /\ run' \in [Worker -> Run] /\ \A v \in Worker \ {w} : run'[v] = run[v]
          /\ run'[w].pc = pc /\ run'[w].rev = r /\ run'[w].action = a
      <4> DEFINE next == [run[w] EXCEPT !.todo = @ \ {a}, !.action = a, !.pc = pc]
      <4>1. next \in Run BY <1>a DEF Run
      <4>2. next.pc = pc /\ next.rev = r /\ next.action = a BY <1>a DEF Run
      <4>3. run' = [run EXCEPT ![w] = next] BY <3>1
      <4> HIDE DEF next
      <4> QED BY <4>1, <4>2, <4>3 DEF TypeOK
    <3>6. older' \in [Revision -> SUBSET Revision]
      BY <3>1, <2>0 DEF RestrictClaimed, TypeOK
    <3>7. TypeOK' BY <3>4, <3>5, <3>6, <1>3 DEF ClaimAction, config, TypeOK
    <3>8. \A v \in Worker \ {w} : InEffect(v) =>
            <<run[v].rev, run[v].action>> # <<r, a>>
      BY <2>d DEF ClaimInv, NoLedgerRow
    <3>9. \A v \in Worker \ {w} : InEffect(v)' = InEffect(v)
      BY <3>5 DEF InEffect
    <3>10. RunInv' BY <3>5, <2>0 DEF RunInv
    <3>11. ClaimIsExclusive' BY <3>5, <3>8, <3>9 DEF ClaimIsExclusive
    <3>12. ClaimInv'
      <4> SUFFICES ASSUME NEW v \in Worker, InEffect(v)'
                   PROVE  ledger'[run'[v].rev][run'[v].action].status = "claimed"
        BY DEF ClaimInv
      <4>1. CASE v = w BY <4>1, <3>4, <3>5
      <4>2. CASE v # w
        BY <4>2, <3>4, <3>5, <3>8, <3>9, <1>a, <1>b DEF ClaimInv
      <4> QED BY <4>1, <4>2
    <3>13. RecordInv' BY <3>4 DEF RecordInv
    <3>14. GivingInv'
      <4>1. mode' = mode BY <1>3 DEF ClaimAction, config
      <4>2. mode # "automatic" /\ pc = "read" => a \in {"restore", "unflag"}
        BY DEF ModeAllows
      <4>3. pc \in {"read", "decline"} OBVIOUS
      <4> HIDE DEF pc
      <4> QED BY <3>5, <4>1, <4>2, <4>3 DEF GivingInv, PastMode
    <3>15. ModeIsObeyed'
      <4>1. mode' = mode /\ subject' = subject BY <1>3 DEF ClaimAction, config
      <4>2. \A q \in Revision, b \in Action :
              ledger'[q][b].status = "applied" => ledger[q][b].status = "applied"
        BY <3>4
      <4>3. "restrict" \in Action /\ "flag_for_review" \in Action BY DEF Action
      <4> HIDE DEF r, pc, claimed
      <4> QED BY <4>1, <4>2, <4>3 DEF ModeIsObeyed
    <3> QED BY <3>7, <3>10, <3>11, <3>12, <3>13, <3>14, <3>15
  <2> QED BY <2>c, <2>d
<1>4. ASSUME NEW w \in Worker, Decline(w)
      PROVE  EnforcementInv'
  <2>0. run[w].pc = "decline" /\ InEffect(w) BY <1>4 DEF Decline, InEffect
  <2>a. /\ run' \in [Worker -> Run] /\ \A v \in Worker \ {w} : run'[v] = run[v]
        /\ run'[w].pc = "next" /\ run'[w].rev = run[w].rev
    BY <1>4, RunMoves DEF Decline, Goto, TypeOK
  <2>b. /\ ledger' \in [Revision -> [Action -> LedgerRow]]
        /\ ledger'[run[w].rev][run[w].action] = [status |-> "skipped", previous |-> "null"]
        /\ \A q \in Revision, b \in Action : <<q, b>> # <<run[w].rev, run[w].action>> =>
              ledger'[q][b] = ledger[q][b]
    <3>1. [status |-> "skipped", previous |-> "null"] \in LedgerRow
      BY <1>a DEF LedgerRow, Run
    <3> QED BY <3>1, <2>0, <1>a, <1>b, <1>4, LedgerWritten DEF Decline, SetLedger, TypeOK
  <2>1. TypeOK' BY <2>a, <2>b, <1>4 DEF Decline, config, TypeOK
  <2>2. RunInv' /\ ClaimInv' /\ ClaimIsExclusive'
    <3>1. ~InEffect(w)' BY <2>a DEF InEffect
    <3> QED BY <2>0, <2>a, <2>b, <1>a, <1>b, <3>1, OneRunMoves
  <2>3. RecordInv' BY <2>0, <2>b, <1>a DEF RecordInv, Run
  <2>4. GivingInv' BY <2>a, <1>4 DEF Decline, config, GivingInv, PastMode
  <2>5. ModeIsObeyed'
    <3>1. /\ mode # "automatic" /\ "skipped" = "applied" =>
                run[w].action \in {"restore", "unflag"}
          /\ \A a \in {"restrict", "flag_for_review"} : a \in Action
      BY <2>0 DEF GivingInv, PastMode, Action
    <3>2. mode # "automatic" =>
            \A r \in Revision, a \in {"restrict", "flag_for_review"} :
                ledger'[r][a].status # "applied"
      BY <2>b, <3>1 DEF ModeIsObeyed
    <3> QED BY <3>2, <1>4 DEF Decline, config, ModeIsObeyed
  <2> QED BY <2>1, <2>2, <2>3, <2>4, <2>5
<1>5. ASSUME NEW w \in Worker, MarkApplied(w)
      PROVE  EnforcementInv'
  <2>0. run[w].pc = "mark" /\ InEffect(w) BY <1>5 DEF MarkApplied, InEffect
  <2>a. /\ run' \in [Worker -> Run] /\ \A v \in Worker \ {w} : run'[v] = run[v]
        /\ run'[w].pc = "next" /\ run'[w].rev = run[w].rev
    BY <1>5, RunMoves DEF MarkApplied, Goto, TypeOK
  <2>b. /\ ledger' \in [Revision -> [Action -> LedgerRow]]
        /\ ledger'[run[w].rev][run[w].action] = [status |-> "applied", previous |-> run[w].previous]
        /\ \A q \in Revision, b \in Action : <<q, b>> # <<run[w].rev, run[w].action>> =>
              ledger'[q][b] = ledger[q][b]
    <3>1. [status |-> "applied", previous |-> run[w].previous] \in LedgerRow
      BY <1>a DEF LedgerRow, Run
    <3> QED BY <3>1, <2>0, <1>a, <1>b, <1>5, LedgerWritten DEF MarkApplied, SetLedger, TypeOK
  <2>1. TypeOK' BY <2>a, <2>b, <1>5 DEF MarkApplied, config, TypeOK
  <2>2. RunInv' /\ ClaimInv' /\ ClaimIsExclusive'
    <3>1. ~InEffect(w)' BY <2>a DEF InEffect
    <3> QED BY <2>0, <2>a, <2>b, <1>a, <1>b, <3>1, OneRunMoves
  <2>3. RecordInv' BY <2>0, <2>b, <1>a DEF RecordInv, Run
  <2>4. GivingInv' BY <2>a, <1>5 DEF MarkApplied, config, GivingInv, PastMode
  <2>5. ModeIsObeyed'
    <3>1. /\ mode # "automatic" /\ "applied" = "applied" =>
                run[w].action \in {"restore", "unflag"}
          /\ \A a \in {"restrict", "flag_for_review"} : a \in Action
      BY <2>0 DEF GivingInv, PastMode, Action
    <3>2. mode # "automatic" =>
            \A r \in Revision, a \in {"restrict", "flag_for_review"} :
                ledger'[r][a].status # "applied"
      BY <2>b, <3>1 DEF ModeIsObeyed
    <3> QED BY <3>2, <1>5 DEF MarkApplied, config, ModeIsObeyed
  <2> QED BY <2>1, <2>2, <2>3, <2>4, <2>5
<1>6. ASSUME NEW w \in Worker, MarkSkipped(w)
      PROVE  EnforcementInv'
  <2>0. run[w].pc = "skip" /\ InEffect(w) BY <1>6 DEF MarkSkipped, InEffect
  <2>a. /\ run' \in [Worker -> Run] /\ \A v \in Worker \ {w} : run'[v] = run[v]
        /\ run'[w].pc = "next" /\ run'[w].rev = run[w].rev
    BY <1>6, RunMoves DEF MarkSkipped, Goto, TypeOK
  <2>b. /\ ledger' \in [Revision -> [Action -> LedgerRow]]
        /\ ledger'[run[w].rev][run[w].action] = [status |-> "skipped", previous |-> "null"]
        /\ \A q \in Revision, b \in Action : <<q, b>> # <<run[w].rev, run[w].action>> =>
              ledger'[q][b] = ledger[q][b]
    <3>1. [status |-> "skipped", previous |-> "null"] \in LedgerRow
      BY <1>a DEF LedgerRow, Run
    <3> QED BY <3>1, <2>0, <1>a, <1>b, <1>6, LedgerWritten DEF MarkSkipped, SetLedger, TypeOK
  <2>1. TypeOK' BY <2>a, <2>b, <1>6 DEF MarkSkipped, config, TypeOK
  <2>2. RunInv' /\ ClaimInv' /\ ClaimIsExclusive'
    <3>1. ~InEffect(w)' BY <2>a DEF InEffect
    <3> QED BY <2>0, <2>a, <2>b, <1>a, <1>b, <3>1, OneRunMoves
  <2>3. RecordInv' BY <2>0, <2>b, <1>a DEF RecordInv, Run
  <2>4. GivingInv' BY <2>a, <1>6 DEF MarkSkipped, config, GivingInv, PastMode
  <2>5. ModeIsObeyed'
    <3>1. /\ mode # "automatic" /\ "skipped" = "applied" =>
                run[w].action \in {"restore", "unflag"}
          /\ \A a \in {"restrict", "flag_for_review"} : a \in Action
      BY <2>0 DEF GivingInv, PastMode, Action
    <3>2. mode # "automatic" =>
            \A r \in Revision, a \in {"restrict", "flag_for_review"} :
                ledger'[r][a].status # "applied"
      BY <2>b, <3>1 DEF ModeIsObeyed
    <3> QED BY <3>2, <1>6 DEF MarkSkipped, config, ModeIsObeyed
  <2> QED BY <2>1, <2>2, <2>3, <2>4, <2>5
<1>7. ASSUME NEW w \in Worker, ReadSubject(w)
      PROVE  EnforcementInv'
  <2>a. /\ run' \in [Worker -> Run] /\ \A v \in Worker \ {w} : run'[v] = run[v]
        /\ run'[w].rev = run[w].rev /\ run'[w].action = run[w].action
        /\ run'[w].pc \in {"lookup", "write", "skip"}
        /\ run'[w].pc \in {"lookup", "write"} =>
              run'[w].target = Target(run[w].action)
    <3> DEFINE acts == subject \in ActsOn(run[w].action)
                       /\ type \in {"property", "review"}
               pc == IF AsksLedger(run[w].action) THEN "lookup" ELSE "write"
    <3>1. CASE acts
      <4>1. subject \in Status
        <5>1. \A a : ActsOn(a) \subseteq Status BY DEF ActsOn, Status
        <5> QED BY <3>1, <5>1
      <4> DEFINE next == [run[w] EXCEPT !.pc = pc, !.target = Target(run[w].action),
                                        !.previous = subject]
      <4>2. pc \in {"lookup", "write"} OBVIOUS
      <4>3. run' = [run EXCEPT ![w] = next] BY <3>1, <1>7 DEF ReadSubject
      <4> HIDE DEF pc
      <4>4. next \in Run BY <4>1, <4>2, <1>a, TargetType DEF Run
      <4>5. /\ next.pc = pc /\ next.rev = run[w].rev
            /\ next.action = run[w].action /\ next.target = Target(run[w].action)
        BY <1>a DEF Run
      <4> HIDE DEF next
      <4> QED BY <4>2, <4>3, <4>4, <4>5 DEF TypeOK
    <3>2. CASE ~acts
      <4>1. run' = [run EXCEPT ![w].pc = "skip"] BY <3>2, <1>7 DEF ReadSubject, Goto
      <4> QED BY <4>1, RunMoves DEF TypeOK
    <3> QED BY <3>1, <3>2
  <2>1. TypeOK' BY <2>a, <1>7 DEF ReadSubject, config, TypeOK, Subject, Status
  <2>2. RunInv' /\ ClaimInv' /\ ClaimIsExclusive'
    BY <2>a, <1>a, <1>b, <1>7, OneRunMoves DEF ReadSubject, InEffect
  <2>3. RecordInv' BY <1>7 DEF ReadSubject, RecordInv
  <2>4. GivingInv'
    <3>1. mode # "automatic" => run[w].action \in {"restore", "unflag"}
      BY <1>7 DEF ReadSubject, GivingInv, PastMode
    <3>2. run[w].action \in {"restore", "unflag"} => Target(run[w].action) = "active"
      BY DEF Target
    <3> QED BY <2>a, <3>1, <3>2, <1>7 DEF ReadSubject, config, GivingInv, PastMode
  <2>5. ModeIsObeyed' BY <1>7 DEF ReadSubject, config, ModeIsObeyed
  <2> QED BY <2>1, <2>2, <2>3, <2>4, <2>5
<1>8. ASSUME NEW w \in Worker, ReadLedger(w)
      PROVE  EnforcementInv'
  <2>a. /\ run' \in [Worker -> Run] /\ \A v \in Worker \ {w} : run'[v] = run[v]
        /\ run'[w].rev = run[w].rev /\ run'[w].action = run[w].action
        /\ run'[w].pc \in {"write", "skip"}
        /\ run'[w].target = run[w].target \/ run'[w].target \in RestoreTarget
    <3>1. CASE run[w].action = "restore"
      <4>1. PICK status \in RestoreTarget :
              run' = [run EXCEPT ![w] = [@ EXCEPT !.pc = "write", !.target = status]]
        BY <3>1, <1>8 DEF ReadLedger
      <4> DEFINE next == [run[w] EXCEPT !.pc = "write", !.target = status]
      <4>2. next \in Run BY <1>a, RestoreTargetType DEF Run
      <4>3. /\ next.pc = "write" /\ next.rev = run[w].rev
            /\ next.action = run[w].action /\ next.target = status
        BY <1>a DEF Run
      <4>4. run' = [run EXCEPT ![w] = next] BY <4>1
      <4> HIDE DEF next
      <4> QED BY <4>2, <4>3, <4>4 DEF TypeOK
    <3>2. CASE run[w].action # "restore"
      <4> DEFINE pc == IF FlaggedByModeration THEN "write" ELSE "skip"
      <4>1. run' = [run EXCEPT ![w].pc = pc] BY <3>2, <1>8 DEF ReadLedger, Goto
      <4>2. pc \in {"write", "skip"} OBVIOUS
      <4> HIDE DEF pc
      <4> QED BY <4>1, <4>2, RunMoves DEF TypeOK
    <3> QED BY <3>1, <3>2
  <2>1. TypeOK' BY <2>a, <1>8 DEF ReadLedger, config, TypeOK, Subject, Status
  <2>2. RunInv' /\ ClaimInv' /\ ClaimIsExclusive'
    BY <2>a, <1>a, <1>b, <1>8, OneRunMoves DEF ReadLedger, InEffect
  <2>3. RecordInv' BY <1>8 DEF ReadLedger, RecordInv
  <2>4. GivingInv'
    <3>1. mode # "automatic" => AppliedRestrictions = {}
      BY DEF ModeIsObeyed, AppliedRestrictions
    <3>2. \A status \in RestoreTarget : mode # "automatic" => status = "active"
      BY <3>1, RestoreTargetType
    <3>3. mode # "automatic" => run[w].target # "removed"
      BY <1>8 DEF ReadLedger, GivingInv, PastMode
    <3> QED BY <2>a, <3>2, <3>3, <1>8
        DEF ReadLedger, config, GivingInv, PastMode
  <2>5. ModeIsObeyed' BY <1>8 DEF ReadLedger, config, ModeIsObeyed
  <2> QED BY <2>1, <2>2, <2>3, <2>4, <2>5
<1>9. ASSUME NEW w \in Worker, WriteSubject(w)
      PROVE  EnforcementInv'
  <2>a. /\ run' \in [Worker -> Run] /\ \A v \in Worker \ {w} : run'[v] = run[v]
        /\ run'[w].rev = run[w].rev /\ run'[w].action = run[w].action
        /\ run'[w].pc = "mark"
    BY <1>9, RunMoves DEF WriteSubject, Goto, TypeOK
  <2>1. TypeOK'
    <3>1. subject' \in Subject BY <1>a, <1>9 DEF WriteSubject, TypeOK, Subject, Run
    <3>2. hist' \in [calm : BOOLEAN, inOrder : BOOLEAN, begun : SUBSET Revision,
                     raced : BOOLEAN, taken : Status, told : SUBSET Revision]
      BY <1>9 DEF WriteSubject, TypeOK
    <3> QED BY <2>a, <3>1, <3>2, <1>9 DEF WriteSubject, config, TypeOK
  <2>2. RunInv' /\ ClaimInv' /\ ClaimIsExclusive'
    BY <2>a, <1>a, <1>b, <1>9, OneRunMoves DEF WriteSubject, InEffect
  <2>3. RecordInv' BY <1>9 DEF WriteSubject, RecordInv
  <2>4. GivingInv' BY <2>a, <1>9 DEF WriteSubject, config, GivingInv, PastMode
  <2>5. ModeIsObeyed'
    BY <1>9 DEF WriteSubject, config, ModeIsObeyed, GivingInv, PastMode
  <2> QED BY <2>1, <2>2, <2>3, <2>4, <2>5
<1>10. ASSUME NEW w \in Worker, EffectThrows(w)
      PROVE  EnforcementInv'
  <2>a. /\ run' \in [Worker -> Run] /\ \A v \in Worker \ {w} : run'[v] = run[v]
        /\ run'[w].rev = run[w].rev /\ run'[w].action = run[w].action
        /\ run'[w].pc = "release"
    BY <1>10, RunMoves DEF EffectThrows, Goto, TypeOK
  <2>1. TypeOK' BY <2>a, <1>10 DEF EffectThrows, Mishap, config, TypeOK
  <2>2. RunInv' /\ ClaimInv' /\ ClaimIsExclusive'
    BY <2>a, <1>a, <1>b, <1>10, OneRunMoves DEF EffectThrows, InEffect
  <2>3. RecordInv' BY <1>10 DEF EffectThrows, RecordInv
  <2>4. GivingInv' BY <2>a, <1>10 DEF EffectThrows, config, GivingInv, PastMode
  <2>5. ModeIsObeyed' BY <1>10 DEF EffectThrows, config, ModeIsObeyed
  <2> QED BY <2>1, <2>2, <2>3, <2>4, <2>5
<1>11. ASSUME NEW w \in Worker, ReleaseClaim(w)
      PROVE  EnforcementInv'
  <2>0. InEffect(w) BY <1>11 DEF ReleaseClaim, InEffect
  <2>a. /\ run' \in [Worker -> Run] /\ \A v \in Worker \ {w} : run'[v] = run[v]
        /\ run'[w].pc = "idle"
    BY <1>11, <1>c DEF ReleaseClaim, TypeOK, IdleRun
  <2>b. /\ ledger' \in [Revision -> [Action -> LedgerRow]]
        /\ ledger'[run[w].rev][run[w].action] = NoLedgerRow
        /\ \A q \in Revision, b \in Action : <<q, b>> # <<run[w].rev, run[w].action>> =>
              ledger'[q][b] = ledger[q][b]
    <3>1. NoLedgerRow \in LedgerRow BY DEF NoLedgerRow, LedgerRow
    <3>2. ledger' = [ledger EXCEPT ![run[w].rev][run[w].action] = NoLedgerRow]
      BY <1>11 DEF ReleaseClaim
    <3> QED BY <3>1, <3>2, <2>0, <1>a, <1>b, LedgerWritten DEF TypeOK
  <2>c. older' \in [Revision -> SUBSET Revision]
    BY <1>11 DEF ReleaseClaim, RestrictReleased, TypeOK
  <2>1. TypeOK' BY <2>a, <2>b, <2>c, <1>11 DEF ReleaseClaim, config, TypeOK
  <2>2. RunInv' /\ ClaimInv' /\ ClaimIsExclusive'
    <3>1. ~InEffect(w)' BY <2>a DEF InEffect
    <3> QED BY <2>0, <2>a, <2>b, <1>a, <1>b, <3>1, OneRunMoves
  <2>3. RecordInv' BY <2>0, <2>b DEF RecordInv, NoLedgerRow
  <2>4. GivingInv' BY <2>a, <1>11 DEF ReleaseClaim, config, GivingInv, PastMode
  <2>5. ModeIsObeyed'
    BY <2>0, <2>b, <1>11 DEF ReleaseClaim, config, ModeIsObeyed, NoLedgerRow
  <2> QED BY <2>1, <2>2, <2>3, <2>4, <2>5
<1>12. ASSUME NEW w \in Worker, CacheDecision(w)
      PROVE  EnforcementInv'
  <2>a. /\ run' \in [Worker -> Run] /\ \A v \in Worker \ {w} : run'[v] = run[v]
        /\ run'[w].rev = run[w].rev /\ run'[w].action = run[w].action
        /\ run'[w].pc = "complete"
    BY <1>12, RunMoves DEF CacheDecision, Goto, TypeOK
  <2>0. run[w].pc = "next" /\ run[w].rev \in Revision BY <1>12 DEF CacheDecision, RunInv
  <2>1. TypeOK'
    <3>1. cached' \in 0..LastRevision BY <1>a, <1>12 DEF CacheDecision, TypeOK, Run
    <3>2. hist' \in [calm : BOOLEAN, inOrder : BOOLEAN, begun : SUBSET Revision,
                     raced : BOOLEAN, taken : Status, told : SUBSET Revision]
      BY <2>0, <1>12 DEF CacheDecision, TypeOK
    <3> QED BY <2>a, <3>1, <3>2, <1>12 DEF CacheDecision, config, TypeOK
  <2>2. RunInv' /\ ClaimInv' /\ ClaimIsExclusive'
    BY <2>0, <2>a, <1>a, <1>b, <1>12, OneRunMoves DEF CacheDecision, InEffect
  <2>3. RecordInv' BY <1>12 DEF CacheDecision, RecordInv
  <2>4. GivingInv' BY <2>a, <1>12 DEF CacheDecision, config, GivingInv, PastMode
  <2>5. ModeIsObeyed' BY <1>12 DEF CacheDecision, config, ModeIsObeyed
  <2> QED BY <2>1, <2>2, <2>3, <2>4, <2>5
<1>13. ASSUME NEW w \in Worker, Complete(w)
      PROVE  EnforcementInv'
  <2>a. /\ run' \in [Worker -> Run] /\ \A v \in Worker \ {w} : run'[v] = run[v]
        /\ run'[w].pc = "idle"
    BY <1>13, <1>c DEF Complete, TypeOK, IdleRun
  <2>1. TypeOK' 
    <3>1. work' \in [Revision -> {"absent", "owed", "done"}]
      BY <1>13 DEF Complete, TypeOK
    <3> QED BY <2>a, <3>1, <1>13 DEF Complete, config, TypeOK
  <2>2. RunInv' /\ ClaimInv' /\ ClaimIsExclusive'
    BY <2>a, <1>a, <1>13, OneRunMoves DEF Complete, InEffect
  <2>3. RecordInv' BY <1>13 DEF Complete, RecordInv
  <2>4. GivingInv' BY <2>a, <1>13 DEF Complete, config, GivingInv, PastMode
  <2>5. ModeIsObeyed' BY <1>13 DEF Complete, config, ModeIsObeyed
  <2> QED BY <2>1, <2>2, <2>3, <2>4, <2>5
<1>14. ASSUME NEW w \in Worker, Crash(w)
      PROVE  EnforcementInv'
  <2>a. /\ run' \in [Worker -> Run] /\ \A v \in Worker \ {w} : run'[v] = run[v]
        /\ run'[w].pc = "idle"
    BY <1>14, <1>c DEF Crash, TypeOK, IdleRun
  <2>1. TypeOK' 
    <3>1. hist' \in [calm : BOOLEAN, inOrder : BOOLEAN, begun : SUBSET Revision,
                     raced : BOOLEAN, taken : Status, told : SUBSET Revision]
      BY <1>14 DEF Crash, TypeOK
    <3>2. mishaps' \in 0..MaxMishaps BY <1>14 DEF Crash, Mishap, TypeOK
    <3> QED BY <2>a, <3>1, <3>2, <1>14 DEF Crash, config, TypeOK
  <2>2. RunInv' /\ ClaimInv' /\ ClaimIsExclusive'
    BY <2>a, <1>a, <1>14, OneRunMoves DEF Crash, InEffect
  <2>3. RecordInv' BY <1>14 DEF Crash, RecordInv
  <2>4. GivingInv' BY <2>a, <1>14 DEF Crash, config, GivingInv, PastMode
  <2>5. ModeIsObeyed' BY <1>14 DEF Crash, config, ModeIsObeyed
  <2> QED BY <2>1, <2>2, <2>3, <2>4, <2>5
<1>15. ASSUME Escalate
      PROVE  EnforcementInv'
  <2>1. TypeOK'
    <3>1. hist' \in [calm : BOOLEAN, inOrder : BOOLEAN, begun : SUBSET Revision,
                     raced : BOOLEAN, taken : Status, told : SUBSET Revision]
      BY <1>15 DEF Escalate, TypeOK
    <3>2. subject' \in Subject BY <1>15 DEF Escalate, Subject, Status
    <3> QED BY <3>1, <3>2, <1>15 DEF Escalate, config, TypeOK
  <2>2. RunInv' /\ ClaimInv' /\ ClaimIsExclusive'
    BY <1>15 DEF Escalate, RunInv, ClaimInv, ClaimIsExclusive, InEffect
  <2>3. RecordInv' BY <1>15 DEF Escalate, RecordInv
  <2>4. GivingInv' BY <1>15 DEF Escalate, config, GivingInv, PastMode
  <2>5. ModeIsObeyed' BY <1>15 DEF Escalate, config, ModeIsObeyed
  <2> QED BY <2>1, <2>2, <2>3, <2>4, <2>5
<1>16. ASSUME Delete
      PROVE  EnforcementInv'
  <2>1. TypeOK' BY <1>16 DEF Delete, config, TypeOK, Subject, Status
  <2>2. RunInv' /\ ClaimInv' /\ ClaimIsExclusive'
    BY <1>16 DEF Delete, RunInv, ClaimInv, ClaimIsExclusive, InEffect
  <2>3. RecordInv' BY <1>16 DEF Delete, RecordInv
  <2>4. GivingInv' BY <1>16 DEF Delete, config, GivingInv, PastMode
  <2>5. ModeIsObeyed' BY <1>16 DEF Delete, config, ModeIsObeyed
  <2> QED BY <2>1, <2>2, <2>3, <2>4, <2>5
<1>17. CASE UNCHANGED vars
  <2>1. TypeOK' BY <1>17 DEF vars, config, TypeOK
  <2>2. RunInv' /\ ClaimInv' /\ ClaimIsExclusive'
    BY <1>17 DEF vars, RunInv, ClaimInv, ClaimIsExclusive, InEffect
  <2>3. RecordInv' BY <1>17 DEF vars, RecordInv
  <2>4. GivingInv' BY <1>17 DEF vars, config, GivingInv, PastMode
  <2>5. ModeIsObeyed' BY <1>17 DEF vars, config, ModeIsObeyed
  <2> QED BY <2>1, <2>2, <2>3, <2>4, <2>5
<1> QED
  BY <1>1, <1>2, <1>3, <1>4, <1>5, <1>6, <1>7, <1>8, <1>9, <1>10, <1>11,
     <1>12, <1>13, <1>14, <1>15, <1>16, <1>17 DEF Next

-----------------------------------------------------------------------------
(* What follows for every behaviour.                                       *)

\* The inductive invariant holds throughout.
THEOREM EnforcementInvariant == Spec => []EnforcementInv
BY EnforcementInvInit, EnforcementInvStep, PTL DEF Spec

\* Every variable keeps its type, whatever the revisions say: no effect writes a
\* status the object does not have.
THEOREM EnforcementTypeCorrect == Spec => []TypeOK
<1>1. EnforcementInv => TypeOK BY DEF EnforcementInv
<1> QED BY <1>1, EnforcementInvariant, PTL

\* The unique key of the ledger serialises the effects: however many workers run
\* a revision, one action of it is in the hands of one of them.
THEOREM ExclusiveCorrect == Spec => []ClaimIsExclusive
<1>1. EnforcementInv => ClaimIsExclusive BY DEF EnforcementInv
<1> QED BY <1>1, EnforcementInvariant, PTL

\* Outside the automatic mode no run ever takes an object down or marks it, from
\* the claim to the write: a restore gives back "active" and nothing else.
THEOREM ModeCorrect == Spec => []ModeIsObeyed
<1>1. EnforcementInv => ModeIsObeyed BY DEF EnforcementInv
<1> QED BY <1>1, EnforcementInvariant, PTL

\* A step changes the ledger only where there is no row, or at the claim of the
\* run that takes it.
LEMMA RecordedRowsStay ==
    ASSUME EnforcementInv, [Next]_vars, NEW r \in Revision, NEW a \in Action,
           ledger[r][a].status \in {"skipped", "applied"}
    PROVE  ledger'[r][a] = ledger[r][a]
<1> USE DEF EnforcementInv
<1>1. \A w \in Worker : InEffect(w) => <<run[w].rev, run[w].action>> # <<r, a>>
  BY DEF ClaimInv
<1>2. \A w \in Worker : run[w].action \in Action BY DEF TypeOK, Run
<1>3. \A w \in Worker : InEffect(w) => run[w].rev \in Revision
  BY DEF RunInv, InEffect
<1>4. ASSUME NEW w \in Worker, NEW b \in Action, ClaimAction(w, b)
      PROVE  ledger'[r][a] = ledger[r][a]
  <2>1. run[w].rev \in Revision BY <1>4 DEF ClaimAction, RunInv
  <2>2. CASE ledger[run[w].rev][b] # NoLedgerRow
    BY <2>2, <1>4 DEF ClaimAction
  <2>3. CASE ledger[run[w].rev][b] = NoLedgerRow
    <3>1. <<run[w].rev, b>> # <<r, a>> BY <2>3 DEF NoLedgerRow
    <3>2. ledger' = [ledger EXCEPT ![run[w].rev][b].status = "claimed"]
      BY <2>3, <1>4 DEF ClaimAction
    <3> QED BY <2>1, <3>1, <3>2 DEF TypeOK
  <2> QED BY <2>2, <2>3
<1>5. ASSUME NEW w \in Worker, NEW record, InEffect(w),
             ledger' = [ledger EXCEPT ![run[w].rev][run[w].action] = record]
      PROVE  ledger'[r][a] = ledger[r][a]
  BY <1>1, <1>2, <1>3, <1>5 DEF TypeOK
<1>6. ASSUME NEW w \in Worker, Decline(w) \/ MarkApplied(w) \/ MarkSkipped(w)
      PROVE  ledger'[r][a] = ledger[r][a]
  BY <1>5, <1>6 DEF Decline, MarkApplied, MarkSkipped, SetLedger, InEffect
<1>7. ASSUME NEW w \in Worker, ReleaseClaim(w)
      PROVE  ledger'[r][a] = ledger[r][a]
  <2>1. InEffect(w) BY <1>7 DEF ReleaseClaim, InEffect
  <2>2. ledger' = [ledger EXCEPT ![run[w].rev][run[w].action] = NoLedgerRow]
    BY <1>7 DEF ReleaseClaim
  <2> QED BY <1>5, <2>1, <2>2
<1>8. ASSUME NEW w \in Worker,
             \/ ReadSubject(w) \/ ReadLedger(w) \/ WriteSubject(w) \/ EffectThrows(w)
             \/ CacheDecision(w) \/ Complete(w) \/ Crash(w)
      PROVE  ledger' = ledger
  BY <1>8 DEF ReadSubject, ReadLedger, WriteSubject, EffectThrows, CacheDecision,
              Complete, Crash
<1>9. ASSUME \/ \E q \in Revision : Arrive(q)
             \/ \E w \in Worker, q \in Revision : Start(w, q)
             \/ Escalate \/ Delete \/ UNCHANGED vars
      PROVE  ledger' = ledger
  BY <1>9 DEF Arrive, Start, Escalate, Delete, vars
<1> QED BY <1>4, <1>6, <1>7, <1>8, <1>9 DEF Next

\* Once: whatever is redelivered, crashes or throws afterwards, an action on
\* record as carried out is neither claimed again nor forgotten.
THEOREM AppliedOnceCorrect == Spec => AppliedOnce
<1>1. EnforcementInv /\ [Next]_vars =>
        [\A r \in Revision, a \in Action :
            ledger[r][a].status = "applied" => ledger'[r][a] = ledger[r][a]]_vars
  BY RecordedRowsStay
<1> QED BY <1>1, EnforcementInvariant, PTL DEF Spec, AppliedOnce
=============================================================================
