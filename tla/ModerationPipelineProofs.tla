---------------------- MODULE ModerationPipelineProofs ----------------------
(***************************************************************************)
(* Theorems about ModerationPipeline, for any number of reports and        *)
(* revisions, any dispatchers, batch size and number of mishaps.           *)
(*                                                                         *)
(* The inductive invariant PipelineInv says what a dispatcher in the       *)
(* middle of a handler may rely on:                                        *)
(*   - it holds an event of the kind its step is about; an enforced        *)
(*     decision is left to be written onto reports that name the case;     *)
(*   - an event has one owner, whose row is owed, and an owner that is     *)
(*     about to complete has performed it;                                 *)
(*   - reports show only enforced decisions; a run has left out none of    *)
(*     the reports it found, so those whose event is done are shown;       *)
(*   - nothing is delivered for a type without a provider;                 *)
(*   - until something goes wrong, every dispatcher owns its event, and a  *)
(*     report names the case only when its delivery is over.               *)
(***************************************************************************)
EXTENDS ModerationPipeline, TLAPS

\* The steps of a handler that hold only a delivery, or only a decision.
Delivering == {"send", "record", "fail", "close"}
Deciding == {"enforce", "cache"}

HandInv == \A w \in Worker :
    /\ task[w].pc # "idle" => task[w].event \in Event
    /\ task[w].pc \in Delivering => \E r \in Report : Delivers(w, r)
    /\ task[w].pc \in Deciding =>
           /\ \E v \in Revision : Applies(w, v)
           /\ task[w].todo # {} /\ task[w].todo \subseteq Linked

OwnerInv == \A w \in Worker : task[w].owns =>
    /\ task[w].pc # "idle"
    /\ outbox[task[w].event] = "owed"
    /\ task[w].pc = "ok" => task[w].event \in performed
    /\ \A u \in Worker : task[u].owns /\ task[u].event = task[w].event => u = w

EnforcedInv == \A w \in Worker, v \in Revision :
    task[w].pc = "cache" /\ Applies(w, v) => v \in enforced

Shown(r, v) == report[r].revision >= v

Told(v) == \E r \in Report : Shown(r, v)

\* A report its run found shows the decision, or the run has yet to write it.
FoundInv == \A w \in Worker, v \in Revision :
    task[w].pc \in Deciding \cup {"ok"} /\ Applies(w, v) =>
        /\ task[w].found # {}
        /\ \A r \in task[w].found :
              Shown(r, v) \/ (task[w].pc # "ok" /\ r \in task[w].todo)

LocalInv == ~provider =>
    /\ \A r \in Report : ~report[r].linked
    /\ \A w \in Worker, r \in Report : task[w].pc # "idle" => ~Delivers(w, r)

WebhookInv == \A v \in Revision :
    /\ inbox[v] = "claimed" =>
           receiver[v] \in {"handling", "releasing"} \/ v \in dropped
    /\ receiver[v] = "releasing" => v \in dropped
    /\ receiver[v] = "answering" => inbox[v] = "queued" \/ v \in dropped

\* Until something goes wrong.
CalmOwner == \A w \in Worker : task[w].pc # "idle" => task[w].owns

CalmDelivery == \A w \in Worker, r \in Report :
    task[w].pc # "idle" /\ Delivers(w, r) /\ task[w].pc # "ok" =>
        /\ task[w].pc \in {"start", "send", "record", "close"}
        /\ ~report[r].linked

CalmReport == \A r \in Report :
    /\ report[r].revision # 0 => report[r].linked
    /\ report[r].revision \in Final => report[r].status = "closed"
    /\ report[r].linked => report[r].status \in {"submitted", "closed"}
    /\ report[r].linked =>
           \/ outbox[Submit(r)] = "done"
           \/ \E w \in Worker : task[w].pc = "ok" /\ Delivers(w, r) /\ task[w].owns

CalmInv == mishaps = 0 => CalmOwner /\ CalmDelivery /\ CalmReport

PipelineInv ==
    /\ TypeOK /\ HandInv /\ OwnerInv /\ EnforcedInv /\ EnforcedBeforeTold
    /\ FoundInv /\ DoneWasTold /\ LocalInv /\ LocalOnlyStaysLocal
    /\ WebhookInv /\ AcknowledgedIsQueued /\ CalmInv

-----------------------------------------------------------------------------
(* Facts the steps below share.                                            *)

\* A delivery is never a decision, and each has one report or revision.
LEMMA EventsDiffer ==
    /\ \A r \in Report : Submit(r) \in Event
    /\ \A v \in Revision : Apply(v) \in Event
    /\ \A r \in Report, v \in Revision : Submit(r) # Apply(v)
    /\ \A r, q \in Report : Submit(r) = Submit(q) => r = q
    /\ \A u, v \in Revision : Apply(u) = Apply(v) => u = v
    /\ \A e \in Event : (\E r \in Report : e = Submit(r))
                            \/ (\E v \in Revision : e = Apply(v))
  BY DEF Submit, Apply, Event

\* The rows an enqueue leaves behind.
LEMMA EnqueuedType ==
    ASSUME TypeOK, NEW e \in Event
    PROVE  Enqueued(e) \in [Event -> {"absent", "owed", "done", "abandoned"}]
  BY DEF Enqueued, TypeOK

LEMMA MishapType ==
    ASSUME TypeOK, NEW happens \in BOOLEAN, Mishap(happens)
    PROVE  /\ mishaps' \in 0..MaxMishaps
           /\ mishaps' = 0 => mishaps = 0 /\ ~happens
  BY PipelineAssumption DEF Mishap, TypeOK

\* A dispatcher that goes on keeps its event, its reports and its lease.
LEMMA GotoMoves ==
    ASSUME TypeOK, NEW w \in Worker, NEW pc, Goto(w, pc),
           pc \in {"send", "record", "fail", "close", "cache", "ok", "retry", "reject"}
    PROVE  /\ task' \in [Worker -> Task]
           /\ task'[w].pc = pc
           /\ task'[w].event = task[w].event
           /\ task'[w].found = task[w].found /\ task'[w].todo = task[w].todo
           /\ task'[w].owns = task[w].owns
           /\ \A u \in Worker : u # w => task'[u] = task[u]
  BY DEF Goto, TypeOK, Task

LEMMA PerformsType ==
    ASSUME TypeOK, NEW w \in Worker, task[w].event \in Event, Performs(w)
    PROVE  performed' \subseteq Event
  BY DEF TypeOK, Performs

\* A claim makes its dispatcher the only owner.
LEMMA BeginMoves ==
    ASSUME TypeOK, NEW w \in Worker, NEW e \in Event, Begin(w, e)
    PROVE  /\ task' \in [Worker -> Task]
           /\ task'[w].pc = "start" /\ task'[w].event = e /\ task'[w].owns
           /\ \A u \in Worker : u # w =>
                 /\ task'[u].pc = task[u].pc
                 /\ task'[u].event = task[u].event
                 /\ task'[u].found = task[u].found /\ task'[u].todo = task[u].todo
                 /\ task'[u].owns = (task[u].owns /\ task[u].event # e)
<1> DEFINE start == [pc |-> "start", event |-> e, found |-> {}, todo |-> {}, owns |-> TRUE]
           lost(u) == [task[u] EXCEPT !.owns = FALSE]
<1>1. start \in Task BY DEF Task
<1>2. \A u \in Worker : task[u] \in Task /\ lost(u) \in Task
  BY DEF TypeOK, Task
<1>3. task' = [u \in Worker |-> IF u = w THEN start
                                ELSE IF task[u].event = e THEN lost(u) ELSE task[u]]
  BY DEF Begin
<1> HIDE DEF start
<1>4. task' \in [Worker -> Task] BY <1>1, <1>2, <1>3
<1>5. task'[w] = start BY <1>3
<1>6. ASSUME NEW u \in Worker, u # w
      PROVE  /\ task'[u].pc = task[u].pc
             /\ task'[u].event = task[u].event
             /\ task'[u].found = task[u].found /\ task'[u].todo = task[u].todo
             /\ task'[u].owns = (task[u].owns /\ task[u].event # e)
  <2>1. task'[u] = IF task[u].event = e THEN lost(u) ELSE task[u] BY <1>3, <1>6
  <2>2. CASE task[u].event = e BY <2>1, <2>2, <1>2 DEF Task
  <2>3. CASE task[u].event # e BY <2>1, <2>3, <1>2 DEF Task
  <2>4. QED BY <2>2, <2>3
<1>7. QED BY <1>4, <1>5, <1>6 DEF start

\* A dispatcher with new reports to do keeps its event and its lease.
LEMMA TodoMoves ==
    ASSUME TypeOK, NEW w \in Worker, NEW todo \in SUBSET Report,
           NEW pc \in {"retry", "enforce", "cache", "ok"},
           task' = [task EXCEPT ![w].pc = pc, ![w].todo = todo]
    PROVE  /\ task' \in [Worker -> Task]
           /\ task'[w].pc = pc
           /\ task'[w].event = task[w].event
           /\ task'[w].found = task[w].found /\ task'[w].todo = todo
           /\ task'[w].owns = task[w].owns
           /\ \A u \in Worker : u # w => task'[u] = task[u]
  BY DEF TypeOK, Task

LEMMA FindMoves ==
    ASSUME TypeOK, NEW w \in Worker, FindReports(w)
    PROVE  /\ task' \in [Worker -> Task]
           /\ task'[w].pc = IF Linked = {} THEN "retry" ELSE "enforce"
           /\ task'[w].event = task[w].event
           /\ task'[w].found = Linked /\ task'[w].todo = Linked
           /\ task'[w].owns = task[w].owns
           /\ \A u \in Worker : u # w => task'[u] = task[u]
<1> DEFINE pc == IF Linked = {} THEN "retry" ELSE "enforce"
<1>1. Linked \in SUBSET Report BY DEF Linked
<1>2. pc \in {"retry", "enforce", "cache", "ok"} OBVIOUS
<1>3. task' = [task EXCEPT ![w].pc = pc, ![w].found = Linked, ![w].todo = Linked]
  BY DEF FindReports
<1> HIDE DEF pc
<1>4. task \in [Worker -> Task] BY DEF TypeOK
<1>5. [task[w] EXCEPT !.pc = pc, !.found = Linked, !.todo = Linked] \in Task
  BY <1>1, <1>2, <1>4 DEF Task
<1>6. task' \in [Worker -> Task] BY <1>3, <1>4, <1>5
<1>7. /\ task'[w] = [task[w] EXCEPT !.pc = pc, !.found = Linked, !.todo = Linked]
      /\ \A u \in Worker : u # w => task'[u] = task[u]
  BY <1>3, <1>4
<1>8. QED BY <1>4, <1>6, <1>7 DEF pc, Task

\* A report is written; with the last one the handler has performed its event.
LEMMA CacheMoves ==
    ASSUME TypeOK, NEW w \in Worker, NEW v \in Revision, CacheDecision(w, v)
    PROVE  \E r \in task[w].todo :
              /\ r \in Report
              /\ report' \in [Report -> ReportRow]
              /\ report'[r].revision >= v
              /\ report[r].revision > v => report' = report
              /\ report[r].revision <= v =>
                    /\ report'[r].revision = v
                    /\ report'[r].status = LocalStatusForDecision(v)
              /\ report'[r].linked = report[r].linked
              /\ \A q \in Report : q # r => report'[q] = report[q]
              /\ task' \in [Worker -> Task]
              /\ task'[w].pc = IF task[w].todo = {r} THEN "ok" ELSE "cache"
              /\ task'[w].event = task[w].event
              /\ task'[w].found = task[w].found
              /\ task'[w].todo = task[w].todo \ {r}
              /\ task'[w].owns = task[w].owns
              /\ \A u \in Worker : u # w => task'[u] = task[u]
              /\ IF task[w].todo = {r} THEN Performs(w) ELSE UNCHANGED performed
<1>1. PICK r \in task[w].todo :
        /\ report' = IF report[r].revision <= v
                   THEN [report EXCEPT ![r].status = LocalStatusForDecision(v),
                                       ![r].revision = v]
                   ELSE report
        /\ IF task[w].todo = {r}
           THEN /\ task' = [task EXCEPT ![w].pc = "ok", ![w].todo = {}]
                /\ Performs(w)
           ELSE /\ task' = [task EXCEPT ![w].todo = @ \ {r}]
                /\ UNCHANGED performed
  BY DEF CacheDecision
<1>2. r \in Report /\ task[w].todo \subseteq Report BY <1>1 DEF TypeOK, Task
<1>3. /\ report' \in [Report -> ReportRow]
      /\ report'[r].revision >= v
      /\ report[r].revision > v => report' = report
      /\ report[r].revision <= v =>
            report'[r].revision = v /\ report'[r].status = LocalStatusForDecision(v)
      /\ report'[r].linked = report[r].linked
      /\ \A q \in Report : q # r => report'[q] = report[q]
  <2>1. report \in [Report -> ReportRow] /\ v \in 1..LastRevision
    BY DEF TypeOK, Revision
  <2>2. report[r].revision \in Int BY <1>2, <2>1 DEF ReportRow
  <2>3. LocalStatusForDecision(v) \in LocalStatus
    BY DEF LocalStatusForDecision, LocalStatus
  <2>4. CASE report[r].revision <= v
    <3>1. report' = [report EXCEPT ![r].status = LocalStatusForDecision(v),
                                   ![r].revision = v]
      BY <1>1, <2>4
    <3>2. v \in 0..LastRevision BY <2>1
    <3>3. report' \in [Report -> ReportRow]
      BY <1>2, <2>1, <2>3, <3>1, <3>2 DEF ReportRow
    <3>4. /\ report'[r].revision = v
          /\ report'[r].status = LocalStatusForDecision(v)
          /\ report'[r].linked = report[r].linked
          /\ \A q \in Report : q # r => report'[q] = report[q]
      BY <1>2, <2>1, <3>1 DEF ReportRow
    <3>5. QED BY <2>1, <2>2, <2>4, <3>3, <3>4
  <2>5. CASE report[r].revision > v
    BY <1>1, <1>2, <2>1, <2>2, <2>5, PipelineAssumption
  <2>6. QED BY <2>2, <2>4, <2>5, <2>1
<1>4. /\ task' \in [Worker -> Task]
      /\ task'[w].pc = IF task[w].todo = {r} THEN "ok" ELSE "cache"
      /\ task'[w].event = task[w].event
      /\ task'[w].found = task[w].found
      /\ task'[w].todo = task[w].todo \ {r}
      /\ task'[w].owns = task[w].owns
      /\ \A u \in Worker : u # w => task'[u] = task[u]
  <2>1. CASE task[w].todo = {r}
    <3>1. task' = [task EXCEPT ![w].pc = "ok", ![w].todo = {}] BY <1>1, <2>1
    <3>2. {} \in SUBSET Report /\ task[w].todo \ {r} = {} BY <2>1
    <3>3. QED BY <2>1, <3>1, <3>2, TodoMoves
  <2>2. CASE task[w].todo # {r}
    <3>1. task' = [task EXCEPT ![w].todo = @ \ {r}] BY <1>1, <2>2
    <3>2. task[w].pc = "cache" BY DEF CacheDecision
    <3>3. QED BY <1>2, <2>2, <3>1, <3>2 DEF TypeOK, Task
  <2>3. QED BY <2>1, <2>2
<1>5. QED BY <1>1, <1>2, <1>3, <1>4

-----------------------------------------------------------------------------
(* Types.                                                                  *)

LEMMA TypeStep == TypeOK /\ HandInv /\ [Next]_vars => TypeOK'
<1> SUFFICES ASSUME TypeOK, HandInv, [Next]_vars PROVE TypeOK'
  OBVIOUS
<1> USE PipelineAssumption
<1>1. ASSUME NEW r \in Report, CreateModerationReport(r) PROVE TypeOK'
  BY <1>1, EnqueuedType, EventsDiffer
  DEF CreateModerationReport, TypeOK, ReportRow, LocalStatus, webhook, crowdsource
<1>2. ASSUME NEW r \in Report, Reconcile(r) PROVE TypeOK'
  BY <1>2, EnqueuedType, EventsDiffer DEF Reconcile, TypeOK, reports, webhook, crowdsource
<1>3. ASSUME DeleteContent PROVE TypeOK'
  BY <1>3 DEF DeleteContent, TypeOK, queue, webhook, crowdsource
<1>4. ASSUME NEW w \in Worker, BuildReportInput(w) PROVE TypeOK'
  BY <1>4, GotoMoves DEF BuildReportInput, TypeOK, reports, queue, webhook, crowdsource
<1>5. ASSUME NEW w \in Worker, FindReports(w) PROVE TypeOK'
  BY <1>5, FindMoves DEF FindReports, TypeOK, reports, queue, webhook, crowdsource
<1>6. ASSUME NEW w \in Worker, NEW r \in Report, CloseUndeliverable(w, r) PROVE TypeOK'
  <2>1. performed' \subseteq Event
    BY <1>6, EventsDiffer, PerformsType DEF CloseUndeliverable, Delivers
  <2>2. task' \in [Worker -> Task] BY <1>6, GotoMoves DEF CloseUndeliverable
  <2>3. report' \in [Report -> ReportRow]
    BY <1>6 DEF CloseUndeliverable, TypeOK, ReportRow, LocalStatus
  <2>4. QED
    BY <1>6, <2>1, <2>2, <2>3 DEF CloseUndeliverable, TypeOK, webhook, crowdsource
<1>7. ASSUME NEW w \in Worker, NEW r \in Report, Send(w, r) PROVE TypeOK'
  BY <1>7, GotoMoves, MishapType DEF Send, TypeOK, reports, queue, webhook
<1>8. ASSUME NEW w \in Worker, NEW r \in Report, RecordReceipt(w, r) PROVE TypeOK'
  <2>1. performed' \subseteq Event
    BY <1>8, EventsDiffer, PerformsType DEF RecordReceipt, Delivers
  <2>2. task' \in [Worker -> Task] BY <1>8, GotoMoves DEF RecordReceipt
  <2>3. report' \in [Report -> ReportRow]
    BY <1>8 DEF RecordReceipt, TypeOK, ReportRow, LocalStatus
  <2>4. QED
    BY <1>8, <2>1, <2>2, <2>3 DEF RecordReceipt, TypeOK, webhook, crowdsource
<1>9. ASSUME NEW w \in Worker, NEW r \in Report, RecordFailure(w, r) PROVE TypeOK'
  BY <1>9, GotoMoves
  DEF RecordFailure, TypeOK, ReportRow, LocalStatus, queue, webhook, crowdsource
<1>10. ASSUME NEW w \in Worker, NEW v \in Revision, ApplyDecisionEnforcement(w, v)
       PROVE  TypeOK'
  BY <1>10, GotoMoves
  DEF ApplyDecisionEnforcement, TypeOK, reports, queue, webhook, crowdsource
<1>11. ASSUME NEW w \in Worker, NEW v \in Revision, CacheDecision(w, v) PROVE TypeOK'
  <2>1. /\ report' \in [Report -> ReportRow]
        /\ task' \in [Worker -> Task]
        /\ Performs(w) \/ performed' = performed
    BY <1>11, CacheMoves
  <2>2. task[w].event \in Event BY <1>11, EventsDiffer DEF CacheDecision, Applies
  <2>3. performed' \subseteq Event BY <2>1, <2>2, PerformsType DEF TypeOK
  <2>4. QED
    BY <1>11, <2>1, <2>3 DEF CacheDecision, TypeOK, webhook, crowdsource
<1>12. ASSUME NEW w \in Worker, Complete(w) PROVE TypeOK'
  BY <1>12 DEF Complete, HandInv, TypeOK, Task, Idle, reports, webhook, crowdsource
<1>13. ASSUME NEW w \in Worker, Fail(w) PROVE TypeOK'
  BY <1>13 DEF Fail, TypeOK, Task, Idle, reports, webhook, crowdsource
<1>14. ASSUME NEW w \in Worker, Crash(w) PROVE TypeOK'
  BY <1>14, MishapType DEF Crash, TypeOK, Task, Idle, reports, queue, webhook, crowdsource
<1>15. ASSUME NEW w \in Worker, HandlerThrows(w) PROVE TypeOK'
  BY <1>15, GotoMoves, MishapType
  DEF HandlerThrows, TypeOK, reports, queue, webhook, crowdsource
<1>16. ASSUME NEW w \in Worker, NEW e \in Event, Begin(w, e) PROVE TypeOK'
  <2>1. mishaps' \in 0..MaxMishaps BY <1>16, MishapType DEF Begin
  <2>2. task' \in [Worker -> Task] BY <1>16, BeginMoves
  <2>3. QED BY <1>16, <2>1, <2>2 DEF Begin, TypeOK, reports, queue, webhook, crowdsource
<1>17. ASSUME NEW v \in Revision, Decide(v) PROVE TypeOK'
  BY <1>17 DEF Decide, TypeOK, reports, queue, webhook
<1>18. ASSUME NEW v \in Revision, ClaimModerationEvent(v) PROVE TypeOK'
  BY <1>18 DEF ClaimModerationEvent, TypeOK, reports, queue, crowdsource
<1>19. ASSUME NEW v \in Revision, RecordDecisionEvent(v) PROVE TypeOK'
  BY <1>19, EnqueuedType, EventsDiffer DEF RecordDecisionEvent, TypeOK, reports, crowdsource
<1>20. ASSUME NEW v \in Revision, ReleaseModerationEvent(v) PROVE TypeOK'
  BY <1>20 DEF ReleaseModerationEvent, TypeOK, reports, queue, crowdsource
<1>21. ASSUME NEW v \in Revision, Answer(v) \/ AnswerDuplicate(v) PROVE TypeOK'
  BY <1>21 DEF Answer, AnswerDuplicate, Acknowledge, TypeOK, reports, queue, webhook
<1>22. ASSUME NEW v \in Revision, RecordingFails(v) \/ ReceiverDies(v) PROVE TypeOK'
  BY <1>22, MishapType
  DEF RecordingFails, ReceiverDies, TypeOK, reports, queue, crowdsource
<1>23. ASSUME NEW e \in Event, Sweep(e) PROVE TypeOK'
  BY <1>23, MishapType DEF Sweep, TypeOK, Task, reports, webhook, crowdsource
<1>24. ASSUME UNCHANGED vars PROVE TypeOK'
  BY <1>24 DEF vars, TypeOK, reports, queue, webhook, crowdsource
<1>25. QED
  BY <1>1, <1>2, <1>3, <1>4, <1>5, <1>6, <1>7, <1>8, <1>9, <1>10, <1>11, <1>12,
     <1>13, <1>14, <1>15, <1>16, <1>17, <1>18, <1>19, <1>20, <1>21, <1>22, <1>23,
     <1>24 DEF Next, Handler, Settle, Request

-----------------------------------------------------------------------------
(* The steps of Next, and what none of them takes back.                    *)

\* The steps that concern neither reports nor events.
Elsewhere ==
    \/ DeleteContent
    \/ \E v \in Revision :
         \/ Decide(v) \/ ClaimModerationEvent(v) \/ ReleaseModerationEvent(v)
         \/ Answer(v) \/ AnswerDuplicate(v) \/ RecordingFails(v) \/ ReceiverDies(v)

LEMMA NextSplits ==
    ASSUME [Next]_vars
    PROVE  \/ \E r \in Report : CreateModerationReport(r) \/ Reconcile(r)
           \/ \E w \in Worker : BuildReportInput(w) \/ FindReports(w)
           \/ \E w \in Worker, r \in Report :
                \/ CloseUndeliverable(w, r) \/ Send(w, r)
                \/ RecordReceipt(w, r) \/ RecordFailure(w, r)
           \/ \E w \in Worker, v \in Revision :
                ApplyDecisionEnforcement(w, v) \/ CacheDecision(w, v)
           \/ \E w \in Worker :
                Complete(w) \/ Fail(w) \/ Crash(w) \/ HandlerThrows(w)
           \/ \E w \in Worker, e \in Event : Begin(w, e)
           \/ \E v \in Revision : RecordDecisionEvent(v)
           \/ \E e \in Event : Sweep(e)
           \/ Elsewhere
           \/ UNCHANGED vars
  BY DEF Next, Handler, Settle, Request, Elsewhere

LEMMA ElsewhereStays ==
    ASSUME Elsewhere
    PROVE  UNCHANGED <<provider, report, outbox, performed, task, enforced>>
  BY DEF Elsewhere, DeleteContent, Decide, ClaimModerationEvent,
         ReleaseModerationEvent, Answer, AnswerDuplicate, RecordingFails,
         ReceiverDies, reports, queue

\* An event that is enqueued becomes owed if it was absent, and nothing else.
LEMMA EnqueuedIs ==
    ASSUME TypeOK, NEW e \in Event, outbox' = Enqueued(e), NEW x \in Event
    PROVE  \/ outbox'[x] = outbox[x]
           \/ x = e /\ outbox[x] = "absent" /\ outbox'[x] = "owed"
  BY DEF Enqueued, TypeOK

Kept ==
    /\ provider' = provider
    /\ \A r \in Report :
         /\ report'[r].revision >= report[r].revision
         /\ report[r].linked => report'[r].linked
    /\ enforced \subseteq enforced'
    /\ mishaps' = 0 => mishaps = 0

\* Reports do not forget a case or go back to an older revision, enforcement is
\* not undone, mishaps are not forgotten.
LEMMA NothingTakenBack == TypeOK /\ [Next]_vars => Kept
<1> SUFFICES ASSUME TypeOK, [Next]_vars PROVE Kept
  OBVIOUS
<1>0. /\ \A r \in Report : report[r].revision \in Int /\ report[r].linked \in BOOLEAN
      /\ report \in [Report -> ReportRow]
      /\ mishaps \in Nat
  BY PipelineAssumption DEF TypeOK, ReportRow
<1>1. ASSUME NEW r \in Report, CreateModerationReport(r) PROVE Kept
  <2>1. \A q \in Report : report'[q].revision = report[q].revision
                          /\ report'[q].linked = report[q].linked
    BY <1>1, <1>0 DEF CreateModerationReport, ReportRow
  <2>2. QED BY <1>1, <1>0, <2>1 DEF CreateModerationReport, Kept
<1>2. ASSUME NEW r \in Report, Reconcile(r) PROVE Kept
  BY <1>2, <1>0 DEF Reconcile, Kept, reports
<1>3. ASSUME NEW w \in Worker, BuildReportInput(w) \/ FindReports(w) PROVE Kept
  <2>1. UNCHANGED <<provider, reports, enforced, mishaps>>
    BY <1>3 DEF BuildReportInput, FindReports
  <2>2. QED BY <1>0, <2>1 DEF Kept, reports
<1>4. ASSUME NEW w \in Worker, NEW r \in Report,
             CloseUndeliverable(w, r) \/ RecordReceipt(w, r) \/ RecordFailure(w, r)
      PROVE  Kept
  <2>1. \A q \in Report : /\ report'[q].revision = report[q].revision
                          /\ report[q].linked => report'[q].linked
    BY <1>4, <1>0 DEF CloseUndeliverable, RecordReceipt, RecordFailure, ReportRow
  <2>2. QED
    BY <1>4, <1>0, <2>1 DEF CloseUndeliverable, RecordReceipt, RecordFailure, Kept
<1>5. ASSUME NEW w \in Worker, NEW r \in Report, Send(w, r) PROVE Kept
  <2>1. mishaps' = 0 => mishaps = 0 BY <1>5, MishapType DEF Send
  <2>2. QED BY <1>5, <1>0, <2>1 DEF Send, Kept, reports
<1>6. ASSUME NEW w \in Worker, NEW v \in Revision, ApplyDecisionEnforcement(w, v)
      PROVE  Kept
  BY <1>6, <1>0 DEF ApplyDecisionEnforcement, Kept, reports
<1>7. ASSUME NEW w \in Worker, NEW v \in Revision, CacheDecision(w, v) PROVE Kept
  <2>1. PICK r \in Report :
           /\ report[r].revision > v => report' = report
           /\ report[r].revision <= v => report'[r].revision = v
           /\ report'[r].linked = report[r].linked
           /\ \A q \in Report : q # r => report'[q] = report[q]
    BY <1>7, CacheMoves
  <2>2. v \in Int BY DEF Revision
  <2>3. \A q \in Report : report'[q].revision >= report[q].revision
    BY <1>0, <2>1, <2>2
  <2>4. QED BY <1>7, <1>0, <2>1, <2>3 DEF CacheDecision, Kept
<1>8. ASSUME NEW w \in Worker, Complete(w) \/ Fail(w) PROVE Kept
  BY <1>8, <1>0 DEF Complete, Fail, Kept, reports
<1>9. ASSUME NEW w \in Worker, Crash(w) \/ HandlerThrows(w) PROVE Kept
  <2>1. mishaps' = 0 => mishaps = 0 BY <1>9, MishapType DEF Crash, HandlerThrows
  <2>2. CASE Crash(w) BY <2>2, <1>0, <2>1 DEF Crash, Kept, reports
  <2>3. CASE HandlerThrows(w) BY <2>3, <1>0, <2>1 DEF HandlerThrows, Kept, reports
  <2>4. QED BY <1>9, <2>2, <2>3
<1>10. ASSUME NEW w \in Worker, NEW e \in Event, Begin(w, e) PROVE Kept
  <2>1. mishaps' = 0 => mishaps = 0 BY <1>10, MishapType DEF Begin
  <2>2. QED BY <1>10, <1>0, <2>1 DEF Begin, Kept, reports
<1>11. ASSUME NEW v \in Revision, RecordDecisionEvent(v) PROVE Kept
  BY <1>11, <1>0 DEF RecordDecisionEvent, Kept, reports
<1>12. ASSUME NEW e \in Event, Sweep(e) PROVE Kept
  <2>1. mishaps' = 0 => mishaps = 0 BY <1>12, MishapType DEF Sweep
  <2>2. QED BY <1>12, <1>0, <2>1 DEF Sweep, Kept, reports
<1>13. ASSUME Elsewhere PROVE Kept
  <2>1. mishaps' = 0 => mishaps = 0
    BY <1>13, MishapType
    DEF Elsewhere, DeleteContent, Decide, ClaimModerationEvent,
        ReleaseModerationEvent, Answer, AnswerDuplicate, RecordingFails, ReceiverDies
  <2>2. QED BY <1>13, <1>0, <2>1, ElsewhereStays DEF Kept
<1>14. ASSUME UNCHANGED vars PROVE Kept
  BY <1>14, <1>0 DEF vars, reports, Kept
<1>15. QED
  BY <1>1, <1>2, <1>3, <1>4, <1>5, <1>6, <1>7, <1>8, <1>9, <1>10, <1>11, <1>12,
     <1>13, <1>14, NextSplits

-----------------------------------------------------------------------------
(* Dispatchers and their events.                                           *)

\* What a step does to the dispatchers that are not its own.
Others(w) == \A u \in Worker : u # w => task'[u] = task[u]

LEMMA HandStep == PipelineInv /\ [Next]_vars => HandInv'
<1> SUFFICES ASSUME PipelineInv, [Next]_vars PROVE HandInv'
  OBVIOUS
<1> DEFINE Hand(t) ==
      /\ t.pc # "idle" => t.event \in Event
      /\ t.pc \in Delivering => \E r \in Report : t.event = Submit(r)
      /\ t.pc \in Deciding => \E v \in Revision : t.event = Apply(v)
      Work(t) == t.pc \in Deciding => t.todo # {} /\ t.todo \subseteq Linked
      WorkNext(t) == t.pc \in Deciding => t.todo # {} /\ t.todo \subseteq Linked'
<1>0. TypeOK /\ \A u \in Worker : Hand(task[u]) /\ Work(task[u])
  BY DEF PipelineInv, HandInv, Delivers, Applies
<1>1. Linked \subseteq Linked'
  BY <1>0, NothingTakenBack DEF Kept, Linked
<1>2. \A t : Work(t) => WorkNext(t)
  BY <1>1
<1>3. SUFFICES \A u \in Worker : Hand(task'[u]) /\ WorkNext(task'[u])
  BY DEF HandInv, Delivers, Applies
<1> HIDE DEF Work, WorkNext
<1>4. ASSUME task' = task PROVE \A u \in Worker : Hand(task'[u]) /\ WorkNext(task'[u])
  BY <1>0, <1>2, <1>4
<1>5. ASSUME NEW w \in Worker, Others(w), Hand(task'[w]), WorkNext(task'[w])
      PROVE  \A u \in Worker : Hand(task'[u]) /\ WorkNext(task'[u])
  BY <1>0, <1>2, <1>5 DEF Others
<1>6. ASSUME NEW w \in Worker, Others(w), task'[w].event = task[w].event,
             task[w].pc # "idle", task'[w].pc \notin Deciding,
             task'[w].pc \in Delivering => \E r \in Report : Delivers(w, r)
      PROVE  \A u \in Worker : Hand(task'[u]) /\ WorkNext(task'[u])
  BY <1>0, <1>5, <1>6 DEF WorkNext, Delivers, Deciding, Delivering
<1>7. ASSUME NEW w \in Worker, task' = [task EXCEPT ![w] = Idle]
      PROVE  \A u \in Worker : Hand(task'[u]) /\ WorkNext(task'[u])
  BY <1>0, <1>5, <1>7 DEF WorkNext, TypeOK, Idle, Others, Deciding, Delivering
<1> USE <1>0
<1>8. ASSUME NEW w \in Worker, BuildReportInput(w)
      PROVE  \A u \in Worker : Hand(task'[u]) /\ WorkNext(task'[u])
  BY <1>6, <1>8, GotoMoves DEF BuildReportInput, Others, Deciding
<1>9. ASSUME NEW w \in Worker, FindReports(w)
      PROVE  \A u \in Worker : Hand(task'[u]) /\ WorkNext(task'[u])
  <2>1. Others(w) BY <1>9, FindMoves DEF Others
  <2>2. PICK v \in Revision : task[w].event = Apply(v)
    BY <1>9 DEF FindReports, Applies
  <2>3. Hand(task'[w])
    BY <1>9, <2>2, FindMoves, EventsDiffer DEF Deciding, Delivering
  <2>4. WorkNext(task'[w])
    BY <1>1, <1>9, FindMoves DEF WorkNext, Deciding
  <2>5. QED BY <1>5, <2>1, <2>3, <2>4
<1>10. ASSUME NEW w \in Worker, NEW r \in Report,
              \/ CloseUndeliverable(w, r) \/ Send(w, r)
              \/ RecordReceipt(w, r) \/ RecordFailure(w, r)
       PROVE  \A u \in Worker : Hand(task'[u]) /\ WorkNext(task'[u])
  <2>1. /\ task[w].pc # "idle" /\ Delivers(w, r)
        /\ \E pc \in {"ok", "record", "fail", "retry", "reject"} : Goto(w, pc)
    BY <1>10 DEF CloseUndeliverable, Send, RecordReceipt, RecordFailure
  <2>2. PICK pc \in {"ok", "record", "fail", "retry", "reject"} : Goto(w, pc)
    BY <2>1
  <2>3. /\ Others(w) /\ task'[w].event = task[w].event
        /\ task'[w].pc \notin Deciding
    BY <2>2, GotoMoves DEF Others, Deciding
  <2>4. QED BY <1>6, <2>1, <2>3
<1>11. ASSUME NEW w \in Worker, NEW v \in Revision, ApplyDecisionEnforcement(w, v)
       PROVE  \A u \in Worker : Hand(task'[u]) /\ WorkNext(task'[u])
  <2>1. WorkNext(task'[w])
    BY <1>1, <1>11, GotoMoves DEF ApplyDecisionEnforcement, Work, WorkNext, Deciding
  <2>2. Hand(task'[w]) /\ Others(w)
    BY <1>11, GotoMoves, EventsDiffer
    DEF ApplyDecisionEnforcement, Applies, Others, Deciding, Delivering
  <2>3. QED BY <1>5, <2>1, <2>2
<1>12. ASSUME NEW w \in Worker, NEW v \in Revision, CacheDecision(w, v)
       PROVE  \A u \in Worker : Hand(task'[u]) /\ WorkNext(task'[u])
  <2>1. PICK r \in task[w].todo :
          /\ task'[w].pc = IF task[w].todo = {r} THEN "ok" ELSE "cache"
          /\ task'[w].event = task[w].event
          /\ task'[w].todo = task[w].todo \ {r}
          /\ \A u \in Worker : u # w => task'[u] = task[u]
    BY <1>12, CacheMoves
  <2>2. task[w].pc = "cache" /\ Applies(w, v) BY <1>12 DEF CacheDecision
  <2>3. WorkNext(task'[w])
    BY <1>1, <2>1, <2>2 DEF Work, WorkNext, Deciding
  <2>4. Hand(task'[w]) /\ Others(w)
    BY <2>1, <2>2, EventsDiffer DEF Applies, Others, Deciding, Delivering
  <2>5. QED BY <1>5, <2>3, <2>4
<1>13. ASSUME NEW w \in Worker, Complete(w) \/ Fail(w) \/ Crash(w)
       PROVE  \A u \in Worker : Hand(task'[u]) /\ WorkNext(task'[u])
  BY <1>7, <1>13 DEF Complete, Fail, Crash
<1>14. ASSUME NEW w \in Worker, HandlerThrows(w)
       PROVE  \A u \in Worker : Hand(task'[u]) /\ WorkNext(task'[u])
  BY <1>6, <1>14, GotoMoves DEF HandlerThrows, Others, Deciding, Delivering
<1>15. ASSUME NEW w \in Worker, NEW e \in Event, Begin(w, e)
       PROVE  \A u \in Worker : Hand(task'[u]) /\ WorkNext(task'[u])
  <2>1. Hand(task'[w]) /\ WorkNext(task'[w])
    <3>1. task'[w].pc = "start" /\ task'[w].event = e BY <1>15, BeginMoves
    <3>2. QED BY <3>1 DEF WorkNext, Deciding, Delivering
  <2>2. ASSUME NEW u \in Worker, u # w PROVE Hand(task'[u]) /\ WorkNext(task'[u])
    <3>1. /\ task'[u].pc = task[u].pc
          /\ task'[u].event = task[u].event
          /\ task'[u].todo = task[u].todo
      BY <1>15, <2>2, BeginMoves
    <3>2. QED BY <1>1, <3>1 DEF Work, WorkNext
  <2>3. QED BY <2>1, <2>2
<1>16. ASSUME NEW e \in Event, Sweep(e)
       PROVE  \A u \in Worker : Hand(task'[u]) /\ WorkNext(task'[u])
  <2>1. \A u \in Worker : /\ task'[u].pc = task[u].pc
                          /\ task'[u].event = task[u].event
                          /\ task'[u].todo = task[u].todo
    BY <1>16 DEF Sweep, TypeOK, Task
  <2>2. QED BY <1>1, <2>1 DEF Work, WorkNext
<1>17. ASSUME \/ \E r \in Report : CreateModerationReport(r) \/ Reconcile(r)
              \/ \E v \in Revision : RecordDecisionEvent(v)
              \/ Elsewhere
              \/ UNCHANGED vars
       PROVE  \A u \in Worker : Hand(task'[u]) /\ WorkNext(task'[u])
  BY <1>4, <1>17, ElsewhereStays
  DEF CreateModerationReport, Reconcile, RecordDecisionEvent, vars
<1>18. QED
  BY <1>8, <1>9, <1>10, <1>11, <1>12, <1>13, <1>14, <1>15, <1>16, <1>17, NextSplits

\* Owners stay what they are if none is added, rows stay owed, and who is about
\* to complete has performed.
LEMMA OwnersKeep ==
    ASSUME OwnerInv,
           \A u \in Worker : task'[u].owns =>
              /\ task[u].owns /\ task'[u].event = task[u].event
              /\ task'[u].pc # "idle"
              /\ outbox'[task[u].event] = "owed"
              /\ task'[u].pc = "ok" => task[u].event \in performed'
    PROVE  OwnerInv'
  BY DEF OwnerInv

\* A handler that goes on, and is done only when it has performed its event.
LEMMA OwnerGoesOn ==
    ASSUME TypeOK, OwnerInv, NEW w \in Worker, Others(w),
           task[w].pc # "idle", task'[w].pc # "idle",
           task'[w].event = task[w].event, task'[w].owns = task[w].owns,
           UNCHANGED outbox,
           \/ UNCHANGED performed /\ task'[w].pc # "ok"
           \/ Performs(w) /\ task[w].event \in Event
    PROVE  OwnerInv'
<1>1. performed \subseteq performed' BY DEF Performs
<1>2. task[w].owns /\ task'[w].pc = "ok" => task[w].event \in performed'
  BY DEF OwnerInv, Performs
<1>3. ASSUME NEW u \in Worker, task'[u].owns
      PROVE  /\ task[u].owns /\ task'[u].event = task[u].event
             /\ task'[u].pc # "idle"
             /\ outbox'[task[u].event] = "owed"
             /\ task'[u].pc = "ok" => task[u].event \in performed'
  <2>1. CASE u = w BY <1>2, <1>3, <2>1 DEF OwnerInv
  <2>2. CASE u # w
    <3>1. task'[u] = task[u] BY <2>2 DEF Others
    <3>2. QED BY <1>1, <1>3, <3>1 DEF OwnerInv
  <2>3. QED BY <2>1, <2>2
<1>4. QED BY <1>3, OwnersKeep

LEMMA OwnerStep == PipelineInv /\ [Next]_vars => OwnerInv'
<1> SUFFICES ASSUME PipelineInv, [Next]_vars PROVE OwnerInv'
  OBVIOUS
<1>0. /\ TypeOK /\ OwnerInv
      /\ \A u \in Worker : task[u].pc # "idle" => task[u].event \in Event
  BY DEF PipelineInv, HandInv
<1> USE <1>0
<1>1. ASSUME UNCHANGED <<task, performed>>,
             UNCHANGED outbox \/ \E e \in Event : outbox' = Enqueued(e)
      PROVE  OwnerInv'
  <2>1. \A x \in Event : outbox[x] = "owed" => outbox'[x] = "owed"
    BY <1>1, EnqueuedIs
  <2>2. QED BY <1>1, <2>1, OwnersKeep DEF OwnerInv
<1>2. ASSUME NEW w \in Worker, BuildReportInput(w) PROVE OwnerInv'
  <2>1. \E pc \in {"send", "close"} : Goto(w, pc) BY <1>2 DEF BuildReportInput
  <2>2. QED BY <1>2, <2>1, GotoMoves, OwnerGoesOn DEF BuildReportInput, Others, queue
<1>3. ASSUME NEW w \in Worker, FindReports(w) PROVE OwnerInv'
  <2>1. task'[w].pc \in {"retry", "enforce"} /\ Others(w)
    BY <1>3, FindMoves DEF Others
  <2>2. /\ UNCHANGED <<outbox, performed>> /\ task[w].pc # "idle"
        /\ task'[w].event = task[w].event /\ task'[w].owns = task[w].owns
    BY <1>3, FindMoves DEF FindReports, queue
  <2>3. QED BY <2>1, <2>2, OwnerGoesOn
<1>4. ASSUME NEW w \in Worker, NEW r \in Report,
             CloseUndeliverable(w, r) \/ RecordReceipt(w, r)
      PROVE  OwnerInv'
  <2>1. Goto(w, "ok") /\ Performs(w) /\ UNCHANGED outbox /\ task[w].pc # "idle"
    BY <1>4 DEF CloseUndeliverable, RecordReceipt
  <2>2. QED BY <2>1, GotoMoves, OwnerGoesOn DEF Others
<1>5. ASSUME NEW w \in Worker, NEW r \in Report, Send(w, r) \/ RecordFailure(w, r)
      PROVE  OwnerInv'
  <2>1. /\ \E pc \in {"record", "fail", "retry", "reject"} : Goto(w, pc)
        /\ UNCHANGED <<outbox, performed>> /\ task[w].pc # "idle"
    BY <1>5 DEF Send, RecordFailure, queue
  <2>2. QED BY <2>1, GotoMoves, OwnerGoesOn DEF Others
<1>6. ASSUME NEW w \in Worker, NEW v \in Revision, ApplyDecisionEnforcement(w, v)
      PROVE  OwnerInv'
  BY <1>6, GotoMoves, OwnerGoesOn DEF ApplyDecisionEnforcement, Others, queue
<1>7. ASSUME NEW w \in Worker, NEW v \in Revision, CacheDecision(w, v) PROVE OwnerInv'
  <2>1. PICK r \in task[w].todo :
          /\ task'[w].pc = IF task[w].todo = {r} THEN "ok" ELSE "cache"
          /\ task'[w].event = task[w].event
          /\ task'[w].owns = task[w].owns
          /\ \A u \in Worker : u # w => task'[u] = task[u]
          /\ IF task[w].todo = {r} THEN Performs(w) ELSE UNCHANGED performed
    BY <1>7, CacheMoves
  <2>2. UNCHANGED outbox /\ task[w].pc # "idle" BY <1>7 DEF CacheDecision
  <2>3. QED BY <2>1, <2>2, OwnerGoesOn DEF Others
<1>8. ASSUME NEW w \in Worker, Complete(w) \/ Fail(w) PROVE OwnerInv'
  <2>1. task' = [task EXCEPT ![w] = Idle] /\ UNCHANGED performed
    BY <1>8 DEF Complete, Fail
  <2>2. \/ UNCHANGED outbox
        \/ /\ task[w].owns
           /\ \E state \in {"done", "abandoned"} :
                outbox' = [outbox EXCEPT ![task[w].event] = state]
    BY <1>8 DEF Complete, Fail
  <2>3. ASSUME NEW u \in Worker, task'[u].owns
        PROVE  /\ task[u].owns /\ task'[u].event = task[u].event
               /\ task'[u].pc # "idle"
               /\ outbox'[task[u].event] = "owed"
               /\ task'[u].pc = "ok" => task[u].event \in performed'
    <3>1. u # w /\ task'[u] = task[u] BY <2>1, <2>3 DEF Idle, TypeOK
    <3>2. task[w].owns => task[w].event # task[u].event BY <3>1, <2>3 DEF OwnerInv
    <3>3. task[u].event \in Event BY <3>1, <2>3 DEF OwnerInv
    <3>4. outbox'[task[u].event] = outbox[task[u].event]
      BY <2>2, <3>2, <3>3 DEF TypeOK
    <3>5. QED BY <2>1, <2>3, <3>1, <3>4 DEF OwnerInv
  <2>4. QED BY <2>3, OwnersKeep
<1>9. ASSUME NEW w \in Worker, Crash(w) PROVE OwnerInv'
  <2>1. \A u \in Worker : task'[u] = IF u = w THEN Idle ELSE task[u]
    BY <1>9 DEF Crash, TypeOK
  <2>2. UNCHANGED <<outbox, performed>> BY <1>9 DEF Crash, queue
  <2>3. QED BY <2>1, <2>2, OwnersKeep DEF OwnerInv, Idle
<1>10. ASSUME NEW w \in Worker, HandlerThrows(w) PROVE OwnerInv'
  BY <1>10, GotoMoves, OwnerGoesOn DEF HandlerThrows, Others, queue
<1>11. ASSUME NEW w \in Worker, NEW e \in Event, Begin(w, e) PROVE OwnerInv'
  <2>1. UNCHANGED <<outbox, performed>> /\ outbox[e] = "owed"
    BY <1>11 DEF Begin, queue
  <2>2. /\ task'[w].pc = "start" /\ task'[w].event = e /\ task'[w].owns
        /\ \A u \in Worker : u # w =>
              /\ task'[u].pc = task[u].pc
              /\ task'[u].event = task[u].event
              /\ task'[u].owns = (task[u].owns /\ task[u].event # e)
    BY <1>11, BeginMoves
  <2>3. ASSUME NEW u \in Worker, task'[u].owns
        PROVE  /\ task'[u].pc # "idle"
               /\ outbox'[task'[u].event] = "owed"
               /\ task'[u].pc = "ok" => task'[u].event \in performed'
    BY <2>1, <2>2, <2>3 DEF OwnerInv
  <2>4. ASSUME NEW u \in Worker, NEW x \in Worker, task'[u].owns, task'[x].owns,
               task'[x].event = task'[u].event
        PROVE  x = u
    BY <2>2, <2>4 DEF OwnerInv
  <2>5. QED BY <2>3, <2>4 DEF OwnerInv
<1>12. ASSUME NEW e \in Event, Sweep(e) PROVE OwnerInv'
  <2>1. /\ outbox' = [outbox EXCEPT ![e] = "absent"]
        /\ performed' = performed \ {e}
    BY <1>12 DEF Sweep
  <2>2. \A u \in Worker : /\ task'[u].pc = task[u].pc
                          /\ task'[u].event = task[u].event
                          /\ task'[u].owns = (task[u].owns /\ task[u].event # e)
    BY <1>12 DEF Sweep, TypeOK, Task
  <2>3. ASSUME NEW u \in Worker, task'[u].owns
        PROVE  /\ task[u].owns /\ task'[u].event = task[u].event
               /\ task'[u].pc # "idle"
               /\ outbox'[task[u].event] = "owed"
               /\ task'[u].pc = "ok" => task[u].event \in performed'
    <3>1. task[u].owns /\ task[u].event # e BY <2>2, <2>3
    <3>2. outbox \in [Event -> {"absent", "owed", "done", "abandoned"}]
      BY <1>0 DEF TypeOK
    <3>3. outbox'[task[u].event] = outbox[task[u].event] BY <2>1, <3>1, <3>2
    <3>4. QED BY <2>1, <2>2, <3>1, <3>3 DEF OwnerInv
  <2>4. QED BY <2>3, OwnersKeep
<1>13. ASSUME \/ \E r \in Report : CreateModerationReport(r) \/ Reconcile(r)
              \/ \E v \in Revision : RecordDecisionEvent(v)
              \/ Elsewhere
              \/ UNCHANGED vars
       PROVE  OwnerInv'
  <2>1. UNCHANGED <<task, performed>>
    BY <1>13, ElsewhereStays
    DEF CreateModerationReport, Reconcile, RecordDecisionEvent, vars, queue
  <2>2. UNCHANGED outbox \/ \E e \in Event : outbox' = Enqueued(e)
    BY <1>13, ElsewhereStays, EventsDiffer
    DEF CreateModerationReport, Reconcile, RecordDecisionEvent, vars, queue
  <2>3. QED BY <1>1, <2>1, <2>2
<1>14. QED
  BY <1>2, <1>3, <1>4, <1>5, <1>6, <1>7, <1>8, <1>9, <1>10, <1>11, <1>12, <1>13,
     NextSplits

-----------------------------------------------------------------------------
(* Where a dispatcher, a report and a row come from.                       *)

Same(u) == task[u].pc = task'[u].pc /\ task[u].event = task'[u].event

\* Nor has it found or written a report.
Waits(u) == Same(u) /\ task[u].found = task'[u].found /\ task[u].todo = task'[u].todo

\* A dispatcher has something in hand because it claimed it; it is to enforce a
\* decision because it found reports, and to write it because it enforced it; it is done because it has closed or
\* recorded a delivery, or written a decision.
LEMMA WhereFrom ==
    ASSUME TypeOK, [Next]_vars, NEW u \in Worker
    PROVE  /\ task'[u].pc # "idle" =>
                 \/ task[u].pc # "idle" /\ task'[u].event = task[u].event
                 \/ \E e \in Event : Begin(u, e) /\ task'[u].event = e
           /\ task'[u].pc = "enforce" => Waits(u) \/ FindReports(u)
           /\ task'[u].pc = "cache" =>
                 \/ Waits(u)
                 \/ \E v \in Revision : CacheDecision(u, v) /\ Same(u)
                 \/ \E v \in Revision : ApplyDecisionEnforcement(u, v)
           /\ task'[u].pc = "ok" =>
                 \/ Waits(u)
                 \/ \E r \in Report : CloseUndeliverable(u, r) \/ RecordReceipt(u, r)
                 \/ \E v \in Revision : CacheDecision(u, v) /\ task[u].todo # {}
<1> DEFINE Claimed == \/ task[u].pc # "idle" /\ task'[u].event = task[u].event
                      \/ \E e \in Event : Begin(u, e) /\ task'[u].event = e
           Enforces == \E v \in Revision : ApplyDecisionEnforcement(u, v)
           Finishes == \/ \E r \in Report : CloseUndeliverable(u, r) \/ RecordReceipt(u, r)
                       \/ \E v \in Revision : CacheDecision(u, v) /\ task[u].todo # {}
           Writes == Same(u) /\ \E v \in Revision : CacheDecision(u, v)
           Origin == /\ task'[u].pc # "idle" => Claimed
                     /\ task'[u].pc = "enforce" => Waits(u) \/ FindReports(u)
                     /\ task'[u].pc = "cache" => Waits(u) \/ Writes \/ Enforces
                     /\ task'[u].pc = "ok" => Waits(u) \/ Finishes
<1>1. SUFFICES Origin OBVIOUS
<1>2. ASSUME task'[u].pc = task[u].pc, task'[u].event = task[u].event,
             task'[u].found = task[u].found, task'[u].todo = task[u].todo
      PROVE  Origin
  BY <1>2 DEF Same, Waits
<1>3. ASSUME task'[u].pc = "idle" PROVE Origin
  BY <1>3
<1>4. ASSUME task[u].pc # "idle", task'[u].event = task[u].event,
             task'[u].pc \notin {"cache", "ok"},
             task'[u].pc = "enforce" => FindReports(u)
      PROVE  Origin
  BY <1>4
<1>5. ASSUME task[u].pc # "idle", task'[u].event = task[u].event, Enforces,
             task'[u].pc \notin {"ok", "enforce"}
      PROVE  Origin
  BY <1>5
<1>6. ASSUME task[u].pc # "idle", task'[u].event = task[u].event, Finishes,
             task'[u].pc # "enforce", task'[u].pc = "cache" => Writes
      PROVE  Origin
  BY <1>6
<1> HIDE DEF Origin
<1>7. ASSUME NEW w \in Worker, BuildReportInput(w) \/ FindReports(w) \/ HandlerThrows(w)
      PROVE  Origin
  <2>1. CASE w = u
    <3>1. task[u].pc # "idle" /\ task'[u].event = task[u].event
      BY <1>7, <2>1, GotoMoves, FindMoves DEF BuildReportInput, FindReports, HandlerThrows
    <3>2. /\ task'[u].pc \in {"send", "close", "retry", "enforce"}
          /\ task'[u].pc = "enforce" => FindReports(u)
      <4>1. CASE FindReports(w) BY <2>1, <4>1, FindMoves
      <4>2. CASE BuildReportInput(w)
        <5>1. PICK pc \in {"send", "close"} : Goto(w, pc) BY <4>2 DEF BuildReportInput
        <5>2. QED BY <2>1, <5>1, GotoMoves
      <4>3. CASE HandlerThrows(w) BY <2>1, <4>3, GotoMoves DEF HandlerThrows
      <4>4. QED BY <1>7, <4>1, <4>2, <4>3
    <3>3. QED BY <1>4, <3>1, <3>2
  <2>2. CASE w # u
    <3>1. task'[u] = task[u]
      BY <1>7, <2>2, GotoMoves, FindMoves DEF BuildReportInput, HandlerThrows
    <3>2. QED BY <1>2, <3>1
  <2>3. QED BY <2>1, <2>2
<1>8. ASSUME NEW w \in Worker, NEW r \in Report, Send(w, r) \/ RecordFailure(w, r)
      PROVE  Origin
  <2>1. PICK pc \in {"record", "fail", "retry", "reject"} : Goto(w, pc)
    BY <1>8 DEF Send, RecordFailure
  <2>2. CASE w = u
    BY <1>4, <1>8, <2>1, <2>2, GotoMoves DEF Send, RecordFailure
  <2>3. CASE w # u BY <1>2, <2>1, <2>3, GotoMoves
  <2>4. QED BY <2>2, <2>3
<1>9. ASSUME NEW w \in Worker, NEW r \in Report,
             CloseUndeliverable(w, r) \/ RecordReceipt(w, r)
      PROVE  Origin
  <2>1. Goto(w, "ok") /\ task[w].pc # "idle" BY <1>9 DEF CloseUndeliverable, RecordReceipt
  <2>2. CASE w = u BY <1>6, <1>9, <2>1, <2>2, GotoMoves
  <2>3. CASE w # u BY <1>2, <2>1, <2>3, GotoMoves
  <2>4. QED BY <2>2, <2>3
<1>10. ASSUME NEW w \in Worker, NEW v \in Revision, ApplyDecisionEnforcement(w, v)
       PROVE  Origin
  <2>1. Goto(w, "cache") /\ task[w].pc # "idle" BY <1>10 DEF ApplyDecisionEnforcement
  <2>2. CASE w = u BY <1>5, <1>10, <2>1, <2>2, GotoMoves
  <2>3. CASE w # u BY <1>2, <2>1, <2>3, GotoMoves
  <2>4. QED BY <2>2, <2>3
<1>11. ASSUME NEW w \in Worker, NEW v \in Revision, CacheDecision(w, v) PROVE Origin
  <2>1. PICK r \in task[w].todo :
          /\ task'[w].pc = IF task[w].todo = {r} THEN "ok" ELSE "cache"
          /\ task'[w].event = task[w].event
          /\ \A x \in Worker : x # w => task'[x] = task[x]
    BY <1>11, CacheMoves
  <2>2. task[w].pc = "cache" BY <1>11 DEF CacheDecision
  <2>3. CASE w = u
    <3>1. Finishes BY <1>11, <2>1, <2>3
    <3>2. task'[u].pc = "cache" => Writes BY <1>11, <2>1, <2>2, <2>3 DEF Same
    <3>3. QED BY <1>6, <2>1, <2>2, <2>3, <3>1, <3>2
  <2>4. CASE w # u BY <1>2, <2>1, <2>4
  <2>5. QED BY <2>3, <2>4
<1>12. ASSUME NEW w \in Worker, Complete(w) \/ Fail(w) \/ Crash(w) PROVE Origin
  <2>1. task' = [task EXCEPT ![w] = Idle] BY <1>12 DEF Complete, Fail, Crash
  <2>2. CASE w = u BY <1>3, <2>1, <2>2 DEF TypeOK, Idle
  <2>3. CASE w # u BY <1>2, <2>1, <2>3 DEF TypeOK
  <2>4. QED BY <2>2, <2>3
<1>13. ASSUME NEW w \in Worker, NEW e \in Event, Begin(w, e) PROVE Origin
  <2>1. CASE w = u
    <3>1. task'[u].pc = "start" /\ task'[u].event = e BY <1>13, <2>1, BeginMoves
    <3>2. QED BY <1>13, <2>1, <3>1 DEF Origin
  <2>2. CASE w # u BY <1>2, <1>13, <2>2, BeginMoves
  <2>3. QED BY <2>1, <2>2
<1>14. ASSUME NEW e \in Event, Sweep(e) PROVE Origin
  <2>1. /\ task'[u].pc = task[u].pc /\ task'[u].event = task[u].event
        /\ task'[u].found = task[u].found /\ task'[u].todo = task[u].todo
    BY <1>14 DEF Sweep, TypeOK, Task
  <2>2. QED BY <1>2, <2>1
<1>15. ASSUME \/ \E r \in Report : CreateModerationReport(r) \/ Reconcile(r)
              \/ \E v \in Revision : RecordDecisionEvent(v)
              \/ Elsewhere
              \/ UNCHANGED vars
       PROVE  Origin
  <2>1. task' = task
    BY <1>15, ElsewhereStays
    DEF CreateModerationReport, Reconcile, RecordDecisionEvent, vars
  <2>2. QED BY <1>2, <2>1
<1>16. QED
  BY <1>7, <1>8, <1>9, <1>10, <1>11, <1>12, <1>13, <1>14, <1>15, NextSplits

\* A report is written by its filer, by its delivery, or by a decision that is no
\* older than what it shows.
Decided(r) == \E w \in Worker, v \in Revision :
    /\ CacheDecision(w, v) /\ r \in task[w].todo
    /\ report[r].revision <= v
    /\ report'[r].revision = v
    /\ report'[r].status = LocalStatusForDecision(v)
    /\ report'[r].linked = report[r].linked

LEMMA WhoWrites ==
    ASSUME TypeOK, [Next]_vars, NEW r \in Report, report'[r] # report[r]
    PROVE  \/ CreateModerationReport(r)
           \/ \E w \in Worker :
                CloseUndeliverable(w, r) \/ RecordReceipt(w, r) \/ RecordFailure(w, r)
           \/ Decided(r)
<1> DEFINE Delivered == \E w \in Worker :
                \/ CloseUndeliverable(w, r) \/ RecordReceipt(w, r) \/ RecordFailure(w, r)
<1>1. SUFFICES ASSUME ~CreateModerationReport(r), ~Delivered PROVE Decided(r)
  OBVIOUS
<1>2. report \in [Report -> ReportRow] BY DEF TypeOK
<1>3. ASSUME NEW q \in Report, q # r, CreateModerationReport(q)
      PROVE  report'[r] = report[r]
  BY <1>2, <1>3 DEF CreateModerationReport
<1>4. ASSUME NEW q \in Report, q # r, NEW w \in Worker,
             CloseUndeliverable(w, q) \/ RecordReceipt(w, q) \/ RecordFailure(w, q)
      PROVE  report'[r] = report[r]
  BY <1>2, <1>4 DEF CloseUndeliverable, RecordReceipt, RecordFailure
<1>5. ASSUME NEW w \in Worker, NEW v \in Revision, CacheDecision(w, v)
      PROVE  Decided(r)
  <2>1. PICK q \in task[w].todo :
              /\ q \in Report
              /\ report[q].revision > v => report' = report
              /\ report[q].revision <= v =>
                    /\ report'[q].revision = v
                    /\ report'[q].status = LocalStatusForDecision(v)
              /\ report'[q].linked = report[q].linked
              /\ \A x \in Report : x # q => report'[x] = report[x]
    BY <1>5, CacheMoves
  <2>2. q = r BY <2>1
  <2>3. report[r].revision \in Int /\ v \in Int
    BY <1>2, PipelineAssumption DEF ReportRow, Revision
  <2>4. report[r].revision <= v BY <2>1, <2>2, <2>3
  <2>5. QED BY <1>5, <2>1, <2>2, <2>4 DEF Decided
<1>6. CASE \/ \E q \in Report : Reconcile(q)
           \/ \E w \in Worker : BuildReportInput(w) \/ FindReports(w)
           \/ \E w \in Worker, q \in Report : Send(w, q)
           \/ \E w \in Worker, v \in Revision : ApplyDecisionEnforcement(w, v)
           \/ \E w \in Worker : Complete(w) \/ Fail(w) \/ Crash(w) \/ HandlerThrows(w)
           \/ \E w \in Worker, e \in Event : Begin(w, e)
           \/ \E v \in Revision : RecordDecisionEvent(v)
           \/ \E e \in Event : Sweep(e)
           \/ Elsewhere
           \/ UNCHANGED vars
  <2>1. report' = report
    BY <1>6, ElsewhereStays
    DEF Reconcile, BuildReportInput, FindReports, Send, ApplyDecisionEnforcement,
        Complete, Fail, Crash, HandlerThrows, Begin, RecordDecisionEvent, Sweep,
        vars, reports
  <2>2. QED BY <2>1
<1>7. CASE \E q \in Report : CreateModerationReport(q) BY <1>1, <1>3, <1>7
<1>8. CASE \E w \in Worker, q \in Report :
             CloseUndeliverable(w, q) \/ RecordReceipt(w, q) \/ RecordFailure(w, q)
  BY <1>1, <1>4, <1>8
<1>9. CASE \E w \in Worker, v \in Revision : CacheDecision(w, v) BY <1>5, <1>9
<1>10. QED BY <1>6, <1>7, <1>8, <1>9, NextSplits

\* What a delivery writes.
LEMMA DeliveryWrites ==
    ASSUME TypeOK, NEW w \in Worker, NEW r \in Report,
           CloseUndeliverable(w, r) \/ RecordReceipt(w, r) \/ RecordFailure(w, r)
    PROVE  /\ report'[r].revision = report[r].revision
           /\ report'[r].linked = (report[r].linked \/ RecordReceipt(w, r))
           /\ RecordReceipt(w, r) => report'[r].status = "submitted"
<1>1. report \in [Report -> ReportRow] BY DEF TypeOK
<1>2. CASE CloseUndeliverable(w, r)
  <2>1. ~RecordReceipt(w, r) BY <1>2 DEF CloseUndeliverable, RecordReceipt
  <2>2. QED BY <1>1, <1>2, <2>1 DEF CloseUndeliverable, ReportRow
<1>3. CASE RecordReceipt(w, r) BY <1>1, <1>3 DEF RecordReceipt, ReportRow
<1>4. CASE RecordFailure(w, r)
  <2>1. ~RecordReceipt(w, r) BY <1>4 DEF RecordFailure, RecordReceipt
  <2>2. QED BY <1>1, <1>4, <2>1 DEF RecordFailure, ReportRow
<1>5. QED BY <1>2, <1>3, <1>4

LEMMA FilingWrites ==
    ASSUME TypeOK, NEW r \in Report, CreateModerationReport(r)
    PROVE  /\ report'[r].revision = report[r].revision
           /\ report'[r].linked = report[r].linked
           /\ report'[r].status = IF provider THEN "queued" ELSE "received"
  BY DEF CreateModerationReport, TypeOK, ReportRow

\* Whose row is done, and who gives a report's delivery a row.
LEMMA WhoSettles ==
    ASSUME TypeOK, [Next]_vars, NEW e \in Event
    PROVE  /\ outbox'[e] = "done" =>
                 \/ outbox[e] = "done"
                 \/ \E w \in Worker : Complete(w) /\ task[w].owns /\ task[w].event = e
           /\ outbox'[e] # "absent" =>
                 \/ outbox[e] # "absent"
                 \/ \E r \in Report : /\ CreateModerationReport(r) \/ Reconcile(r)
                                      /\ e = Submit(r) /\ outbox' = Enqueued(e)
                 \/ \E v \in Revision : RecordDecisionEvent(v) /\ e = Apply(v)
                 \/ \E w \in Worker : task[w].owns /\ task[w].event = e
<1> DEFINE Settled == \/ outbox[e] = "done"
                      \/ \E w \in Worker :
                            Complete(w) /\ task[w].owns /\ task[w].event = e
           Filed == \/ outbox[e] # "absent"
                    \/ \E r \in Report : /\ CreateModerationReport(r) \/ Reconcile(r)
                                         /\ e = Submit(r) /\ outbox' = Enqueued(e)
                    \/ \E v \in Revision : RecordDecisionEvent(v) /\ e = Apply(v)
                    \/ \E w \in Worker : task[w].owns /\ task[w].event = e
           Origin == /\ outbox'[e] = "done" => Settled
                     /\ outbox'[e] # "absent" => Filed
<1>1. SUFFICES Origin OBVIOUS
<1>2. ASSUME outbox'[e] = outbox[e] PROVE Origin
  BY <1>2
<1>3. ASSUME NEW r \in Report, CreateModerationReport(r) \/ Reconcile(r) PROVE Origin
  <2>1. outbox' = outbox \/ outbox' = Enqueued(Submit(r))
    BY <1>3 DEF CreateModerationReport, Reconcile
  <2>2. Submit(r) \in Event BY EventsDiffer
  <2>3. CASE outbox'[e] # outbox[e]
    <3>1. outbox' = Enqueued(Submit(r)) BY <2>1, <2>3
    <3>2. e = Submit(r) /\ outbox'[e] = "owed" BY <2>2, <2>3, <3>1, EnqueuedIs
    <3>3. QED BY <1>3, <3>1, <3>2
  <2>4. QED BY <1>2, <2>3
<1>4. ASSUME NEW v \in Revision, RecordDecisionEvent(v) PROVE Origin
  <2>1. outbox' = Enqueued(Apply(v)) BY <1>4 DEF RecordDecisionEvent
  <2>2. Apply(v) \in Event BY EventsDiffer
  <2>3. CASE outbox'[e] # outbox[e]
    <3>1. e = Apply(v) /\ outbox'[e] = "owed" BY <2>1, <2>2, <2>3, EnqueuedIs
    <3>2. QED BY <1>4, <3>1
  <2>4. QED BY <1>2, <2>3
<1>5. ASSUME NEW w \in Worker, Complete(w) \/ Fail(w) PROVE Origin
  <2>1. CASE outbox'[e] # outbox[e]
    <3>1. task[w].owns /\ task[w].event = e
      BY <1>5, <2>1 DEF Complete, Fail, TypeOK
    <3>2. outbox'[e] = "done" => Complete(w)
      BY <1>5, <2>1 DEF Complete, Fail, TypeOK
    <3>3. QED BY <3>1, <3>2
  <2>2. QED BY <1>2, <2>1
<1>6. ASSUME NEW x \in Event, Sweep(x) PROVE Origin
  <2>1. CASE x = e BY <1>6, <2>1 DEF Sweep, TypeOK
  <2>2. CASE x # e BY <1>2, <1>6, <2>2 DEF Sweep, TypeOK
  <2>3. QED BY <2>1, <2>2
<1>7. CASE \/ \E w \in Worker : BuildReportInput(w) \/ FindReports(w)
           \/ \E w \in Worker, r \in Report :
                \/ CloseUndeliverable(w, r) \/ Send(w, r)
                \/ RecordReceipt(w, r) \/ RecordFailure(w, r)
           \/ \E w \in Worker, v \in Revision :
                ApplyDecisionEnforcement(w, v) \/ CacheDecision(w, v)
           \/ \E w \in Worker : Crash(w) \/ HandlerThrows(w)
           \/ \E w \in Worker, x \in Event : Begin(w, x)
           \/ Elsewhere
           \/ UNCHANGED vars
  <2>1. outbox' = outbox
    BY <1>7, ElsewhereStays
    DEF BuildReportInput, FindReports, CloseUndeliverable, Send, RecordReceipt,
        RecordFailure, ApplyDecisionEnforcement, CacheDecision, Crash,
        HandlerThrows, Begin, vars, queue
  <2>2. QED BY <1>2, <2>1
<1> HIDE DEF Origin
<1>8. QED BY <1>3, <1>4, <1>5, <1>6, <1>7, NextSplits

-----------------------------------------------------------------------------
(* Decisions: enforced before they are shown, shown before they are done.  *)

LEMMA ShownStays ==
    ASSUME PipelineInv, [Next]_vars, NEW r \in Report, NEW v \in Revision, Shown(r, v)
    PROVE  Shown(r, v)'
<1>0. TypeOK /\ TypeOK' BY TypeStep DEF PipelineInv
<1>1. report[r].revision \in Int /\ report'[r].revision \in Int /\ v \in Int
  BY <1>0 DEF TypeOK, ReportRow, Revision
<1>2. report'[r].revision >= report[r].revision BY <1>0, NothingTakenBack DEF Kept
<1>3. QED BY <1>1, <1>2 DEF Shown

\* A run that goes on to the next report, or waits, has lost none.
LEMMA FoundStep == PipelineInv /\ [Next]_vars => FoundInv'
<1> SUFFICES ASSUME PipelineInv, [Next]_vars, NEW w \in Worker, NEW v \in Revision,
                    task'[w].pc \in Deciding \cup {"ok"}, task'[w].event = Apply(v)
             PROVE  /\ task'[w].found # {}
                    /\ \A r \in task'[w].found :
                          \/ Shown(r, v)'
                          \/ task'[w].pc # "ok" /\ r \in task'[w].todo
  BY DEF FoundInv, Applies
<1>0. TypeOK /\ FoundInv BY DEF PipelineInv
<1>1. task[w].found \subseteq Report BY <1>0 DEF TypeOK, Task
<1>2. CASE Waits(w)
  <2>1. /\ task[w].pc = task'[w].pc /\ task[w].event = task'[w].event
        /\ task[w].found = task'[w].found /\ task[w].todo = task'[w].todo
    BY <1>2 DEF Waits, Same
  <2>2. /\ task[w].found # {}
        /\ \A r \in task[w].found :
              Shown(r, v) \/ (task[w].pc # "ok" /\ r \in task[w].todo)
    BY <1>0, <2>1 DEF FoundInv, Applies
  <2>3. QED BY <1>1, <2>1, <2>2, ShownStays
<1>3. CASE FindReports(w)
  <2>1. /\ task'[w].pc = IF Linked = {} THEN "retry" ELSE "enforce"
        /\ task'[w].found = Linked /\ task'[w].todo = Linked
    BY <1>0, <1>3, FindMoves
  <2>2. QED BY <2>1 DEF Deciding
<1>4. CASE \E u \in Revision : ApplyDecisionEnforcement(w, u)
  <2>1. PICK u \in Revision : ApplyDecisionEnforcement(w, u) BY <1>4
  <2>2. task[w].pc = "enforce" /\ Goto(w, "cache") BY <2>1 DEF ApplyDecisionEnforcement
  <2>3. /\ task'[w].pc = "cache" /\ task'[w].event = task[w].event
        /\ task'[w].found = task[w].found /\ task'[w].todo = task[w].todo
    BY <1>0, <2>2, GotoMoves
  <2>4. /\ task[w].found # {}
        /\ \A r \in task[w].found : Shown(r, v) \/ r \in task[w].todo
    BY <1>0, <2>2, <2>3 DEF FoundInv, Applies, Deciding
  <2>5. QED BY <1>1, <2>3, <2>4, ShownStays
<1>5. CASE \E u \in Revision : CacheDecision(w, u)
  <2>1. PICK u \in Revision : CacheDecision(w, u) BY <1>5
  <2>2. task[w].pc = "cache" /\ task[w].event = Apply(u)
    BY <2>1 DEF CacheDecision, Applies
  <2>3. PICK q \in task[w].todo :
          /\ report'[q].revision >= u
          /\ task'[w].pc = IF task[w].todo = {q} THEN "ok" ELSE "cache"
          /\ task'[w].event = task[w].event
          /\ task'[w].found = task[w].found
          /\ task'[w].todo = task[w].todo \ {q}
    BY <1>0, <2>1, CacheMoves
  <2>4. u = v BY <2>2, <2>3, EventsDiffer
  <2>5. /\ task[w].found # {}
        /\ \A r \in task[w].found : Shown(r, v) \/ r \in task[w].todo
    BY <1>0, <2>2, <2>4 DEF FoundInv, Applies, Deciding
  <2>6. Shown(q, v)' BY <2>3, <2>4 DEF Shown
  <2>7. ASSUME NEW r \in task[w].found
        PROVE  \/ Shown(r, v)'
               \/ task'[w].pc # "ok" /\ r \in task'[w].todo
    <3>1. CASE Shown(r, v) BY <1>1, <3>1, ShownStays
    <3>2. CASE r = q BY <2>6, <3>2
    <3>3. CASE r \in task[w].todo /\ r # q BY <2>3, <3>3
    <3>4. QED BY <2>5, <3>1, <3>2, <3>3
  <2>8. QED BY <2>3, <2>5, <2>7
<1>6. CASE \E r \in Report : CloseUndeliverable(w, r) \/ RecordReceipt(w, r)
  <2>1. PICK r \in Report : CloseUndeliverable(w, r) \/ RecordReceipt(w, r) BY <1>6
  <2>2. task[w].event = Submit(r) /\ Goto(w, "ok")
    BY <2>1 DEF CloseUndeliverable, RecordReceipt, Delivers
  <2>3. task'[w].event = Submit(r) BY <1>0, <2>2, GotoMoves
  <2>4. QED BY <2>3, EventsDiffer
<1>7. QED BY <1>0, <1>2, <1>3, <1>4, <1>5, <1>6, WhereFrom DEF Deciding

LEMMA DecisionStep ==
    PipelineInv /\ [Next]_vars =>
        EnforcedInv' /\ EnforcedBeforeTold' /\ FoundInv' /\ DoneWasTold'
<1> SUFFICES ASSUME PipelineInv, [Next]_vars
             PROVE  EnforcedInv' /\ EnforcedBeforeTold' /\ FoundInv' /\ DoneWasTold'
  OBVIOUS
<1>0. TypeOK /\ EnforcedInv /\ EnforcedBeforeTold /\ FoundInv /\ DoneWasTold
  BY DEF PipelineInv
<1>1. Kept BY <1>0, NothingTakenBack
<1>2. \A v \in Revision : Told(v) => Told(v)' BY <1>0, ShownStays DEF PipelineInv, Told
<1>3. EnforcedInv'
  <2>1. SUFFICES ASSUME NEW w \in Worker, NEW v \in Revision,
                        task'[w].pc = "cache", task'[w].event = Apply(v)
                 PROVE  v \in enforced'
    BY DEF EnforcedInv, Applies
  <2>2. CASE Same(w)
    BY <1>0, <1>1, <2>1, <2>2 DEF Same, EnforcedInv, Applies, Kept
  <2>3. CASE \E u \in Revision : ApplyDecisionEnforcement(w, u)
    <3>1. PICK u \in Revision : ApplyDecisionEnforcement(w, u) BY <2>3
    <3>2. task[w].event = Apply(u) /\ u \in enforced'
      BY <3>1 DEF ApplyDecisionEnforcement, Applies
    <3>3. task'[w].event = task[w].event
      BY <1>0, <3>1, GotoMoves DEF ApplyDecisionEnforcement
    <3>4. QED BY <2>1, <3>2, <3>3, EventsDiffer
  <2>4. QED BY <1>0, <2>1, <2>2, <2>3, WhereFrom DEF Waits
<1>4. EnforcedBeforeTold'
  <2>1. SUFFICES ASSUME NEW r \in Report, report'[r].revision # 0
                 PROVE  report'[r].revision \in enforced'
    BY DEF EnforcedBeforeTold
  <2>2. CASE report'[r].revision = report[r].revision
    BY <1>0, <1>1, <2>1, <2>2 DEF EnforcedBeforeTold, Kept
  <2>3. CASE Decided(r)
    <3>1. PICK w \in Worker, v \in Revision :
                CacheDecision(w, v) /\ report'[r].revision = v
      BY <2>3 DEF Decided
    <3>2. v \in enforced BY <1>0, <3>1 DEF CacheDecision, EnforcedInv
    <3>3. QED BY <1>1, <3>1, <3>2 DEF Kept
  <2>4. QED BY <1>0, <2>2, <2>3, WhoWrites, DeliveryWrites, FilingWrites
<1>5. FoundInv' BY FoundStep
<1>6. DoneWasTold'
  <2>1. SUFFICES ASSUME NEW v \in Revision, outbox'[Apply(v)] = "done"
                 PROVE  Told(v)'
    BY DEF DoneWasTold, Told, Shown
  <2>2. Apply(v) \in Event BY EventsDiffer
  <2>3. CASE outbox[Apply(v)] = "done" BY <1>0, <1>2, <2>3 DEF DoneWasTold, Told, Shown
  <2>4. CASE \E w \in Worker : Complete(w) /\ task[w].event = Apply(v)
    <3>1. PICK w \in Worker : Complete(w) /\ task[w].event = Apply(v) BY <2>4
    <3>2. task[w].found # {} /\ \A r \in task[w].found : Shown(r, v)
      BY <1>0, <3>1 DEF Complete, FoundInv, Applies
    <3>3. Told(v) BY <1>0, <3>1, <3>2 DEF Told, TypeOK, Task
    <3>4. QED BY <1>2, <3>3
  <2>5. QED BY <1>0, <2>1, <2>2, <2>3, <2>4, WhoSettles
<1>7. QED BY <1>3, <1>4, <1>5, <1>6

-----------------------------------------------------------------------------
(* Types without a provider.                                               *)

LEMMA LocalStep ==
    PipelineInv /\ [Next]_vars => LocalInv' /\ LocalOnlyStaysLocal'
<1> SUFFICES ASSUME PipelineInv, [Next]_vars
             PROVE  LocalInv' /\ LocalOnlyStaysLocal'
  OBVIOUS
<1>0. TypeOK /\ HandInv /\ OwnerInv /\ LocalInv /\ LocalOnlyStaysLocal
  BY DEF PipelineInv
<1>1. provider' = provider BY <1>0, NothingTakenBack DEF Kept
<1>2. CASE provider BY <1>1, <1>2 DEF LocalInv, LocalOnlyStaysLocal
<1>3. CASE ~provider
  <2>0. /\ \A r \in Report : /\ ~report[r].linked
                             /\ outbox[Submit(r)] = "absent"
                             /\ report[r].status \in {"none", "received"}
        /\ \A w \in Worker, r \in Report :
              task[w].pc # "idle" => task[w].event # Submit(r)
    BY <1>0, <1>3 DEF LocalInv, LocalOnlyStaysLocal, Delivers
  <2>1. ASSUME NEW w \in Worker, NEW r \in Report
        PROVE  ~(CloseUndeliverable(w, r) \/ RecordReceipt(w, r) \/ RecordFailure(w, r))
    BY <2>0 DEF CloseUndeliverable, RecordReceipt, RecordFailure, Delivers
  <2>2. ASSUME NEW r \in Report PROVE ~Decided(r)
    <3>1. SUFFICES ASSUME NEW w \in Worker, NEW v \in Revision,
                          CacheDecision(w, v), r \in task[w].todo
                   PROVE  FALSE
      BY DEF Decided
    <3>2. task[w].todo \subseteq Linked BY <1>0, <3>1 DEF CacheDecision, HandInv, Deciding
    <3>3. QED BY <2>0, <3>1, <3>2 DEF Linked
  <2>3. ASSUME NEW r \in Report
        PROVE  ~report'[r].linked /\ report'[r].status \in {"none", "received"}
    <3>1. CASE report'[r] = report[r] BY <2>0, <3>1
    <3>2. CASE CreateModerationReport(r) BY <1>0, <1>3, <2>0, <3>2, FilingWrites
    <3>3. QED BY <1>0, <2>1, <2>2, <3>1, <3>2, WhoWrites
  <2>4. ASSUME NEW r \in Report PROVE outbox'[Submit(r)] = "absent"
    <3>1. Submit(r) \in Event BY EventsDiffer
    <3>2. ASSUME NEW q \in Report, CreateModerationReport(q), Submit(r) = Submit(q)
          PROVE  outbox'[Submit(r)] = "absent"
      BY <1>3, <2>0, <3>2 DEF CreateModerationReport
    <3>3. ASSUME NEW q \in Report PROVE ~Reconcile(q)
      BY <2>0 DEF Reconcile, AwaitingDelivery
    <3>4. ASSUME NEW w \in Worker, task[w].owns PROVE task[w].event # Submit(r)
      BY <1>0, <2>0, <3>4 DEF OwnerInv
    <3>5. QED BY <1>0, <2>0, <3>1, <3>2, <3>3, <3>4, WhoSettles, EventsDiffer
  <2>5. ASSUME NEW w \in Worker, NEW r \in Report, task'[w].pc # "idle"
        PROVE  task'[w].event # Submit(r)
    <3>1. CASE task[w].pc # "idle" /\ task'[w].event = task[w].event
      BY <2>0, <3>1
    <3>2. CASE \E e \in Event : Begin(w, e) /\ task'[w].event = e
      BY <2>0, <3>2 DEF Begin
    <3>3. QED BY <1>0, <2>5, <3>1, <3>2, WhereFrom
  <2>6. QED BY <2>3, <2>4, <2>5 DEF LocalInv, LocalOnlyStaysLocal, Delivers
<1>4. QED BY <1>2, <1>3

-----------------------------------------------------------------------------
(* The webhook.                                                            *)

LEMMA WebhookStep ==
    PipelineInv /\ [Next]_vars => WebhookInv' /\ AcknowledgedIsQueued'
<1> SUFFICES ASSUME PipelineInv, [Next]_vars
             PROVE  WebhookInv' /\ AcknowledgedIsQueued'
  OBVIOUS
<1>0. TypeOK /\ WebhookInv /\ AcknowledgedIsQueued BY DEF PipelineInv
<1> DEFINE Fine(v, in, re, se, dr) ==
      /\ in = "claimed" => re \in {"handling", "releasing"} \/ v \in dr
      /\ re = "releasing" => v \in dr
      /\ re = "answering" => in = "queued" \/ v \in dr
      /\ se = "acknowledged" => in = "queued" \/ re = "handling" \/ v \in dr
<1>1. \A v \in Revision : Fine(v, inbox[v], receiver[v], sender[v], dropped)
  BY <1>0 DEF WebhookInv, AcknowledgedIsQueued
<1>2. SUFFICES \A v \in Revision : Fine(v, inbox'[v], receiver'[v], sender'[v], dropped')
  BY DEF WebhookInv, AcknowledgedIsQueued
<1>3. ASSUME UNCHANGED <<inbox, receiver, sender, dropped>>
      PROVE  \A v \in Revision : Fine(v, inbox'[v], receiver'[v], sender'[v], dropped')
  BY <1>1, <1>3
<1>4. ASSUME NEW u \in Revision, dropped \subseteq dropped',
             \A v \in Revision : v # u =>
                /\ inbox'[v] = inbox[v] /\ receiver'[v] = receiver[v]
                /\ sender'[v] = sender[v],
             Fine(u, inbox'[u], receiver'[u], sender'[u], dropped')
      PROVE  \A v \in Revision : Fine(v, inbox'[v], receiver'[v], sender'[v], dropped')
  BY <1>1, <1>4
<1>5. ASSUME NEW u \in Revision, ClaimModerationEvent(u)
      PROVE  \A v \in Revision : Fine(v, inbox'[v], receiver'[v], sender'[v], dropped')
  <2>1. /\ inbox'[u] = "claimed" /\ receiver'[u] = "handling" /\ sender'[u] = "sending"
        /\ dropped' = dropped
        /\ \A v \in Revision : v # u =>
                /\ inbox'[v] = inbox[v] /\ receiver'[v] = receiver[v]
                /\ sender'[v] = sender[v]
    BY <1>0, <1>5 DEF ClaimModerationEvent, TypeOK, crowdsource
  <2>2. QED BY <1>4, <2>1
<1>6. ASSUME NEW u \in Revision, RecordDecisionEvent(u)
      PROVE  \A v \in Revision : Fine(v, inbox'[v], receiver'[v], sender'[v], dropped')
  <2>1. /\ inbox'[u] = "queued" /\ receiver'[u] = "answering" /\ dropped' = dropped
        /\ \A v \in Revision : v # u =>
                /\ inbox'[v] = inbox[v] /\ receiver'[v] = receiver[v]
                /\ sender'[v] = sender[v]
    BY <1>0, <1>6 DEF RecordDecisionEvent, TypeOK, crowdsource
  <2>2. QED BY <1>4, <2>1
<1>7. ASSUME NEW u \in Revision, ReleaseModerationEvent(u)
      PROVE  \A v \in Revision : Fine(v, inbox'[v], receiver'[v], sender'[v], dropped')
  <2>1. /\ inbox'[u] = "none" /\ receiver'[u] = "none" /\ dropped' = dropped
        /\ receiver[u] = "releasing"
        /\ \A v \in Revision : v # u =>
                /\ inbox'[v] = inbox[v] /\ receiver'[v] = receiver[v]
                /\ sender'[v] = sender[v]
    BY <1>0, <1>7 DEF ReleaseModerationEvent, TypeOK, crowdsource
  <2>2. u \in dropped' BY <1>1, <2>1
  <2>3. QED BY <1>4, <2>1, <2>2
<1>8. ASSUME NEW u \in Revision, RecordingFails(u) \/ ReceiverDies(u)
      PROVE  \A v \in Revision : Fine(v, inbox'[v], receiver'[v], sender'[v], dropped')
  <2>1. /\ u \in dropped' /\ dropped \subseteq dropped'
        /\ \A v \in Revision : v # u =>
                /\ inbox'[v] = inbox[v] /\ receiver'[v] = receiver[v]
                /\ sender'[v] = sender[v]
    BY <1>0, <1>8 DEF RecordingFails, ReceiverDies, TypeOK, crowdsource
  <2>2. QED BY <1>4, <2>1
<1>9. ASSUME NEW u \in Revision, Answer(u)
      PROVE  \A v \in Revision : Fine(v, inbox'[v], receiver'[v], sender'[v], dropped')
  <2>1. /\ receiver[u] = "answering" /\ receiver'[u] = "none"
        /\ UNCHANGED <<inbox, dropped>>
        /\ \A v \in Revision : v # u =>
                receiver'[v] = receiver[v] /\ sender'[v] = sender[v]
    BY <1>0, <1>9 DEF Answer, Acknowledge, TypeOK
  <2>2. inbox[u] = "queued" \/ u \in dropped BY <1>1, <2>1
  <2>3. QED BY <1>4, <2>1, <2>2
<1>10. ASSUME NEW u \in Revision, AnswerDuplicate(u)
       PROVE  \A v \in Revision : Fine(v, inbox'[v], receiver'[v], sender'[v], dropped')
  <2>1. /\ inbox[u] \in {"claimed", "queued"}
        /\ UNCHANGED <<inbox, receiver, dropped>>
        /\ \A v \in Revision : v # u => sender'[v] = sender[v]
    BY <1>0, <1>10 DEF AnswerDuplicate, Acknowledge, TypeOK, webhook
  <2>2. inbox[u] = "queued" \/ receiver[u] = "handling" \/ u \in dropped
    BY <1>1, <2>1
  <2>3. Fine(u, inbox'[u], receiver'[u], sender'[u], dropped')
    BY <1>1, <2>1, <2>2
  <2>4. QED BY <1>4, <2>1, <2>3
<1>11. ASSUME NEW u \in Revision, Decide(u)
       PROVE  \A v \in Revision : Fine(v, inbox'[v], receiver'[v], sender'[v], dropped')
  <2>1. /\ sender'[u] = "sending" /\ UNCHANGED <<inbox, receiver, dropped>>
        /\ \A v \in Revision : v # u => sender'[v] = sender[v]
    BY <1>0, <1>11 DEF Decide, TypeOK, webhook
  <2>2. QED BY <1>1, <1>4, <2>1
<1>12. CASE \/ \E r \in Report : CreateModerationReport(r) \/ Reconcile(r)
            \/ \E w \in Worker : BuildReportInput(w) \/ FindReports(w)
            \/ \E w \in Worker, r \in Report :
                 \/ CloseUndeliverable(w, r) \/ Send(w, r)
                 \/ RecordReceipt(w, r) \/ RecordFailure(w, r)
            \/ \E w \in Worker, v \in Revision :
                 ApplyDecisionEnforcement(w, v) \/ CacheDecision(w, v)
            \/ \E w \in Worker :
                 Complete(w) \/ Fail(w) \/ Crash(w) \/ HandlerThrows(w)
            \/ \E w \in Worker, e \in Event : Begin(w, e)
            \/ \E e \in Event : Sweep(e)
            \/ DeleteContent
            \/ UNCHANGED vars
  <2>1. UNCHANGED <<webhook, sender>>
    BY <1>12
    DEF CreateModerationReport, Reconcile, BuildReportInput, FindReports,
        CloseUndeliverable, Send, RecordReceipt, RecordFailure,
        ApplyDecisionEnforcement, CacheDecision, Complete, Fail, Crash,
        HandlerThrows, Begin, Sweep, DeleteContent, vars, crowdsource
  <2>2. QED BY <1>3, <2>1 DEF webhook
<1> HIDE DEF Fine
<1>13. QED
  BY <1>5, <1>6, <1>7, <1>8, <1>9, <1>10, <1>11, <1>12, NextSplits DEF Elsewhere

-----------------------------------------------------------------------------
(* As long as nothing goes wrong.                                          *)

Early == {"start", "send", "record", "close"}

\* An owner keeps its event; one that is done completes it next; a delivery that
\* has begun goes on.
CalmStep(u) ==
    /\ task[u].owns /\ task'[u].pc # "idle" => task'[u].owns
    /\ task[u].pc = "ok" /\ task[u].owns =>
          \/ Complete(u)
          \/ Same(u) /\ task'[u].owns
    /\ \A r \in Report : task[u].pc \in Early /\ Delivers(u, r) =>
          task'[u].pc \in Early \cup {"ok"}

LEMMA CalmSteps ==
    ASSUME TypeOK, [Next]_vars, mishaps' = 0, NEW u \in Worker
    PROVE  CalmStep(u)
<1>1. ASSUME NEW w \in Worker,
             HandlerThrows(w) \/ Crash(w) \/ \E e \in Event : Sweep(e)
      PROVE  FALSE
  <2>1. Mishap(TRUE) BY <1>1 DEF HandlerThrows, Crash, Sweep
  <2>2. QED BY <2>1, MishapType
<1>2. ASSUME task'[u].pc = task[u].pc, task'[u].event = task[u].event,
             task[u].owns => task'[u].owns
      PROVE  CalmStep(u)
  BY <1>2 DEF CalmStep, Same
<1>3. ASSUME task[u].pc # "ok", task[u].owns => task'[u].owns,
             \A r \in Report : task[u].pc \in Early /\ Delivers(u, r) =>
                task'[u].pc \in Early \cup {"ok"}
      PROVE  CalmStep(u)
  BY <1>3 DEF CalmStep
<1>4. ASSUME NEW w \in Worker, BuildReportInput(w) PROVE CalmStep(u)
  <2>1. PICK pc \in {"send", "close"} : Goto(w, pc) BY <1>4 DEF BuildReportInput
  <2>2. CASE u = w BY <1>3, <1>4, <2>1, <2>2, GotoMoves DEF BuildReportInput, Early
  <2>3. CASE u # w BY <1>2, <2>1, <2>3, GotoMoves
  <2>4. QED BY <2>2, <2>3
<1>5. ASSUME NEW w \in Worker, FindReports(w) PROVE CalmStep(u)
  <2>1. CASE u = w
    <3>1. \A r \in Report : ~Delivers(u, r)
      BY <1>5, <2>1, EventsDiffer DEF FindReports, Applies, Delivers
    <3>2. QED BY <1>3, <1>5, <2>1, <3>1, FindMoves DEF FindReports
  <2>2. CASE u # w BY <1>2, <1>5, <2>2, FindMoves
  <2>3. QED BY <2>1, <2>2
<1>6. ASSUME NEW w \in Worker, NEW q \in Report,
             \/ CloseUndeliverable(w, q) \/ Send(w, q)
             \/ RecordReceipt(w, q) \/ RecordFailure(w, q)
      PROVE  CalmStep(u)
  <2>1. PICK pc \in {"ok", "record", "fail", "retry", "reject"} :
            Goto(w, pc) /\ (task[w].pc \in Early => pc \in {"ok", "record"})
    <3>1. CASE CloseUndeliverable(w, q) \/ RecordReceipt(w, q)
      BY <3>1 DEF CloseUndeliverable, RecordReceipt
    <3>2. CASE Send(w, q)
      BY <3>2, MishapType DEF Send
    <3>3. CASE RecordFailure(w, q)
      BY <3>3 DEF RecordFailure, Early
    <3>4. QED BY <1>6, <3>1, <3>2, <3>3
  <2>2. task[w].pc # "ok"
    BY <1>6 DEF CloseUndeliverable, Send, RecordReceipt, RecordFailure
  <2>3. CASE u = w BY <1>3, <2>1, <2>2, <2>3, GotoMoves DEF Early
  <2>4. CASE u # w BY <1>2, <2>1, <2>4, GotoMoves
  <2>5. QED BY <2>3, <2>4
<1>7. ASSUME NEW w \in Worker, NEW v \in Revision,
             ApplyDecisionEnforcement(w, v) \/ CacheDecision(w, v)
      PROVE  CalmStep(u)
  <2>1. task[w].pc \in {"enforce", "cache"}
    BY <1>7 DEF ApplyDecisionEnforcement, CacheDecision
  <2>2. task'[w].owns = task[w].owns /\ Others(w)
    BY <1>7, GotoMoves, CacheMoves DEF ApplyDecisionEnforcement, Others
  <2>3. CASE u = w BY <1>3, <2>1, <2>2, <2>3 DEF Early
  <2>4. CASE u # w BY <1>2, <2>2, <2>4 DEF Others
  <2>5. QED BY <2>3, <2>4
<1>8. ASSUME NEW w \in Worker, Complete(w) \/ Fail(w) PROVE CalmStep(u)
  <2>1. /\ task' = [task EXCEPT ![w] = Idle]
        /\ task[w].pc \in {"ok", "retry", "reject"}
        /\ task[w].pc = "ok" => Complete(w)
    BY <1>8 DEF Complete, Fail
  <2>2. CASE u = w
    <3>1. task'[u].pc = "idle" BY <2>1, <2>2 DEF TypeOK, Idle
    <3>2. QED BY <2>1, <2>2, <3>1 DEF CalmStep, Early
  <2>3. CASE u # w BY <1>2, <2>1, <2>3 DEF TypeOK
  <2>4. QED BY <2>2, <2>3
<1>9. ASSUME NEW w \in Worker, NEW e \in Event, Begin(w, e) PROVE CalmStep(u)
  <2>1. \A x \in Worker : ~(task[x].event = e /\ task[x].owns)
    BY <1>9, MishapType DEF Begin
  <2>2. CASE u = w
    <3>1. task[u].pc = "idle" BY <1>9, <2>2 DEF Begin
    <3>2. task'[u].owns BY <1>9, <2>2, BeginMoves
    <3>3. QED BY <1>3, <3>1, <3>2 DEF Early
  <2>3. CASE u # w BY <1>2, <1>9, <2>1, <2>3, BeginMoves
  <2>4. QED BY <2>2, <2>3
<1>10. CASE \/ \E r \in Report : CreateModerationReport(r) \/ Reconcile(r)
            \/ \E v \in Revision : RecordDecisionEvent(v)
            \/ Elsewhere
            \/ UNCHANGED vars
  <2>1. task' = task
    BY <1>10, ElsewhereStays
    DEF CreateModerationReport, Reconcile, RecordDecisionEvent, vars
  <2>2. QED BY <1>2, <2>1
<1>11. QED
  BY <1>1, <1>4, <1>5, <1>6, <1>7, <1>8, <1>9, <1>10, NextSplits

\* What is done stays done until retention takes it.
LEMMA DoneStays ==
    ASSUME TypeOK, OwnerInv, [Next]_vars, mishaps' = 0, NEW e \in Event,
           outbox[e] = "done"
    PROVE  outbox'[e] = "done"
<1>1. ASSUME NEW x \in Event, Sweep(x) PROVE FALSE
  <2>1. Mishap(TRUE) BY <1>1 DEF Sweep
  <2>2. QED BY <2>1, MishapType
<1>2. ASSUME NEW r \in Report, CreateModerationReport(r) \/ Reconcile(r)
      PROVE  outbox'[e] = "done"
  BY <1>2, EnqueuedIs, EventsDiffer DEF CreateModerationReport, Reconcile
<1>3. ASSUME NEW v \in Revision, RecordDecisionEvent(v) PROVE outbox'[e] = "done"
  BY <1>3, EnqueuedIs, EventsDiffer DEF RecordDecisionEvent
<1>4. ASSUME NEW w \in Worker, Complete(w) \/ Fail(w) PROVE outbox'[e] = "done"
  <2>1. task[w].owns => task[w].event # e BY DEF OwnerInv
  <2>2. QED BY <1>4, <2>1 DEF Complete, Fail, TypeOK
<1>5. CASE \/ \E w \in Worker : BuildReportInput(w) \/ FindReports(w)
           \/ \E w \in Worker, r \in Report :
                \/ CloseUndeliverable(w, r) \/ Send(w, r)
                \/ RecordReceipt(w, r) \/ RecordFailure(w, r)
           \/ \E w \in Worker, v \in Revision :
                ApplyDecisionEnforcement(w, v) \/ CacheDecision(w, v)
           \/ \E w \in Worker : Crash(w) \/ HandlerThrows(w)
           \/ \E w \in Worker, x \in Event : Begin(w, x)
           \/ Elsewhere
           \/ UNCHANGED vars
  <2>1. outbox' = outbox
    BY <1>5, ElsewhereStays
    DEF BuildReportInput, FindReports, CloseUndeliverable, Send, RecordReceipt,
        RecordFailure, ApplyDecisionEnforcement, CacheDecision, Crash,
        HandlerThrows, Begin, vars, queue
  <2>2. QED BY <2>1
<1>6. QED BY <1>1, <1>2, <1>3, <1>4, <1>5, NextSplits

LEMMA CalmInvStep == PipelineInv /\ [Next]_vars => CalmInv'
<1> SUFFICES ASSUME PipelineInv, [Next]_vars, mishaps' = 0
             PROVE  CalmOwner' /\ CalmDelivery' /\ CalmReport'
  BY DEF CalmInv
<1>0. /\ TypeOK /\ HandInv /\ OwnerInv
      /\ CalmOwner /\ CalmDelivery /\ CalmReport
  <2>1. mishaps = 0 BY NothingTakenBack DEF PipelineInv, Kept
  <2>2. QED BY <2>1 DEF PipelineInv, CalmInv
<1>1. \A u \in Worker : CalmStep(u) BY <1>0, CalmSteps
<1>2. CalmOwner'
  <2>1. SUFFICES ASSUME NEW u \in Worker, task'[u].pc # "idle" PROVE task'[u].owns
    BY DEF CalmOwner
  <2>2. CASE task[u].pc # "idle" BY <1>0, <1>1, <2>1, <2>2 DEF CalmOwner, CalmStep
  <2>3. CASE \E e \in Event : Begin(u, e) BY <1>0, <2>3, BeginMoves
  <2>4. QED BY <1>0, <2>1, <2>2, <2>3, WhereFrom
\* Who delivers a report owns it, and so delivers it alone.
<1>3. ASSUME NEW w \in Worker, NEW u \in Worker, NEW r \in Report,
             task[w].pc # "idle", task[u].pc # "idle", Delivers(w, r), Delivers(u, r)
      PROVE  w = u
  BY <1>0, <1>3 DEF CalmOwner, OwnerInv, Delivers
<1>4. ASSUME NEW w \in Worker, NEW r \in Report,
             CloseUndeliverable(w, r) \/ RecordReceipt(w, r) \/ RecordFailure(w, r)
      PROVE  ~report[r].linked /\ task[w].pc # "idle" /\ Delivers(w, r)
  BY <1>0, <1>4 DEF CloseUndeliverable, RecordReceipt, RecordFailure, CalmDelivery
<1>5. ASSUME NEW r \in Report, Decided(r) PROVE report[r].linked
  <2>1. PICK w \in Worker, v \in Revision : CacheDecision(w, v) /\ r \in task[w].todo
    BY <1>5 DEF Decided
  <2>2. task[w].todo \subseteq Linked
    BY <1>0, <2>1 DEF CacheDecision, HandInv, Deciding
  <2>3. QED BY <2>1, <2>2 DEF Linked
<1>6. ASSUME NEW r \in Report, CreateModerationReport(r) PROVE ~report[r].linked
  BY <1>0, <1>6 DEF CreateModerationReport, CalmReport
<1>7. ASSUME NEW r \in Report, report'[r].linked
      PROVE  report[r].linked \/ \E w \in Worker : RecordReceipt(w, r)
  <2>1. CASE Decided(r) BY <1>5, <2>1
  <2>2. CASE CreateModerationReport(r) BY <1>0, <1>7, <2>2, FilingWrites
  <2>3. ASSUME NEW w \in Worker, 
               CloseUndeliverable(w, r) \/ RecordReceipt(w, r) \/ RecordFailure(w, r)
        PROVE  report[r].linked \/ RecordReceipt(w, r)
    BY <1>0, <1>7, <2>3, DeliveryWrites
  <2>4. QED BY <1>0, <1>7, <2>1, <2>2, <2>3, WhoWrites
<1>8. CalmDelivery'
  <2>1. SUFFICES ASSUME NEW u \in Worker, NEW r \in Report,
                        task'[u].pc # "idle", task'[u].event = Submit(r),
                        task'[u].pc # "ok"
                 PROVE  task'[u].pc \in Early /\ ~report'[r].linked
    BY DEF CalmDelivery, Delivers, Early
  <2>2. CASE task[u].pc # "idle" /\ task'[u].event = task[u].event
    <3>1. Delivers(u, r) BY <2>1, <2>2 DEF Delivers
    <3>2. CASE task[u].pc = "ok"
      <4>1. Complete(u) \/ Same(u)
        BY <1>0, <1>1, <2>2, <3>2 DEF CalmStep, CalmOwner
      <4>2. Complete(u) => task'[u].pc = "idle"
        BY <1>0 DEF Complete, TypeOK, Idle
      <4>3. QED BY <2>1, <3>2, <4>1, <4>2 DEF Same
    <3>3. CASE task[u].pc # "ok"
      <4>1. task[u].pc \in Early /\ ~report[r].linked
        BY <1>0, <2>2, <3>1, <3>3 DEF CalmDelivery, Early
      <4>2. task'[u].pc \in Early
        BY <1>1, <2>1, <3>1, <4>1 DEF CalmStep
      <4>3. ASSUME NEW w \in Worker, RecordReceipt(w, r) PROVE FALSE
        <5>1. w = u BY <1>3, <1>4, <2>2, <3>1, <4>3
        <5>2. Goto(u, "ok") BY <4>3, <5>1 DEF RecordReceipt
        <5>3. QED BY <1>0, <2>1, <5>2, GotoMoves
      <4>4. QED BY <1>7, <4>1, <4>2, <4>3
    <3>4. QED BY <3>2, <3>3
  <2>3. CASE \E e \in Event : Begin(u, e) /\ task'[u].event = e
    <3>1. Begin(u, Submit(r)) /\ Submit(r) \in Event BY <2>1, <2>3
    <3>2. task'[u].pc = "start" BY <1>0, <3>1, BeginMoves
    <3>3. outbox[Submit(r)] = "owed" /\ report' = report
      BY <3>1 DEF Begin, reports
    <3>4. \A w \in Worker : ~(task[w].event = Submit(r) /\ task[w].owns)
      BY <1>0, <3>1, MishapType DEF Begin
    <3>5. ~report[r].linked BY <1>0, <3>3, <3>4 DEF CalmReport, Delivers
    <3>6. QED BY <3>2, <3>3, <3>5 DEF Early
  <2>4. QED BY <1>0, <2>1, <2>2, <2>3, WhereFrom
<1>9. CalmReport'
  <2>1. ASSUME NEW r \in Report
        PROVE  /\ report'[r].revision # 0 => report'[r].linked
               /\ report'[r].revision \in Final => report'[r].status = "closed"
               /\ report'[r].linked => report'[r].status \in {"submitted", "closed"}
    <3>0. 0 \notin Final BY PipelineAssumption
    <3>1. CASE report'[r] = report[r] BY <1>0, <3>1 DEF CalmReport
    <3>2. CASE CreateModerationReport(r)
      BY <1>0, <1>6, <3>0, <3>2, FilingWrites DEF CalmReport
    <3>3. CASE \E w \in Worker :
                 \/ CloseUndeliverable(w, r) \/ RecordReceipt(w, r)
                 \/ RecordFailure(w, r)
      <4>1. PICK w \in Worker :
               \/ CloseUndeliverable(w, r) \/ RecordReceipt(w, r)
               \/ RecordFailure(w, r)
        BY <3>3
      <4>2. ~report[r].linked BY <1>4, <4>1
      <4>3. report[r].revision = 0 BY <1>0, <4>2 DEF CalmReport
      <4>4. /\ report'[r].revision = 0
            /\ report'[r].linked => report'[r].status = "submitted"
        BY <1>0, <4>1, <4>2, <4>3, DeliveryWrites
      <4>5. QED BY <3>0, <4>4
    <3>4. CASE Decided(r)
      <4>1. report[r].linked BY <1>5, <3>4
      <4>2. PICK v \in Revision :
               /\ report'[r].revision = v
               /\ report'[r].status = LocalStatusForDecision(v)
               /\ report'[r].linked = report[r].linked
        BY <3>4 DEF Decided
      <4>3. QED BY <4>1, <4>2 DEF LocalStatusForDecision
    <3>5. QED BY <1>0, <3>1, <3>2, <3>3, <3>4, WhoWrites
  <2>2. ASSUME NEW r \in Report, report'[r].linked
        PROVE  \/ outbox'[Submit(r)] = "done"
               \/ \E w \in Worker :
                    task'[w].pc = "ok" /\ task'[w].event = Submit(r) /\ task'[w].owns
    <3>0. Submit(r) \in Event BY EventsDiffer
    <3>1. CASE \E w \in Worker : RecordReceipt(w, r)
      <4>1. PICK w \in Worker : RecordReceipt(w, r) BY <3>1
      <4>2. task[w].owns /\ task[w].event = Submit(r)
        BY <1>0, <1>4, <4>1 DEF CalmOwner, Delivers
      <4>3. Goto(w, "ok") BY <4>1 DEF RecordReceipt
      <4>4. QED BY <1>0, <4>2, <4>3, GotoMoves
    <3>2. CASE outbox[Submit(r)] = "done" BY <1>0, <3>0, <3>2, DoneStays
    <3>3. CASE \E w \in Worker :
                 task[w].pc = "ok" /\ Delivers(w, r) /\ task[w].owns
      <4>1. PICK w \in Worker : task[w].pc = "ok" /\ Delivers(w, r) /\ task[w].owns
        BY <3>3
      <4>2. Complete(w) \/ (Same(w) /\ task'[w].owns)
        BY <1>1, <4>1 DEF CalmStep
      <4>3. CASE Complete(w)
        BY <1>0, <3>0, <4>1, <4>3 DEF Complete, Delivers, TypeOK
      <4>4. CASE Same(w) /\ task'[w].owns BY <4>1, <4>4 DEF Same, Delivers
      <4>5. QED BY <4>2, <4>3, <4>4
    <3>4. QED BY <1>0, <1>7, <2>2, <3>1, <3>2, <3>3 DEF CalmReport
  <2>3. QED BY <2>1, <2>2 DEF CalmReport, Delivers
<1>10. QED BY <1>2, <1>8, <1>9

-----------------------------------------------------------------------------
(* The invariant holds.                                                    *)

\* Nothing is filed and nobody is at work.
LEMMA PipelineInvInit == Init => PipelineInv
<1> SUFFICES ASSUME Init PROVE PipelineInv
  OBVIOUS
<1> USE PipelineAssumption DEF Init
<1>1. TypeOK
  BY DEF TypeOK, NoReport, ReportRow, LocalStatus, Idle, Task
<1>2. /\ \A w \in Worker : task[w].pc = "idle" /\ ~task[w].owns
      /\ \A r \in Report : /\ report[r].status = "none"
                           /\ ~report[r].linked /\ report[r].revision = 0
  BY DEF Idle, NoReport
<1>3. HandInv /\ OwnerInv BY <1>2 DEF HandInv, OwnerInv, Delivering, Deciding
<1>4. EnforcedInv /\ EnforcedBeforeTold BY <1>2 DEF EnforcedInv, EnforcedBeforeTold
<1>5. FoundInv BY <1>2 DEF FoundInv, Deciding
<1>6. DoneWasTold BY EventsDiffer DEF DoneWasTold
<1>7. LocalInv /\ LocalOnlyStaysLocal
  BY <1>2, EventsDiffer DEF LocalInv, LocalOnlyStaysLocal
<1>8. WebhookInv /\ AcknowledgedIsQueued BY DEF WebhookInv, AcknowledgedIsQueued
<1>9. CalmInv
  BY <1>2 DEF CalmInv, CalmOwner, CalmDelivery, CalmReport
<1>10. QED
  BY <1>1, <1>3, <1>4, <1>5, <1>6, <1>7, <1>8, <1>9 DEF PipelineInv

\* Every step keeps it.
LEMMA PipelineInvStep == PipelineInv /\ [Next]_vars => PipelineInv'
<1> SUFFICES ASSUME PipelineInv, [Next]_vars PROVE PipelineInv'
  OBVIOUS
<1>1. TypeOK' BY TypeStep DEF PipelineInv
<1>2. QED
  BY <1>1, HandStep, OwnerStep, DecisionStep, LocalStep, WebhookStep, CalmInvStep
  DEF PipelineInv

LEMMA PipelineInvHolds == Spec => []PipelineInv
  BY PipelineInvInit, PipelineInvStep, PTL DEF Spec

-----------------------------------------------------------------------------
(* The theorems.                                                           *)

\* Reports, rows, webhooks and dispatchers have their types.
THEOREM TypeCorrect == Spec => []TypeOK
  BY PipelineInvHolds, PTL DEF PipelineInv

\* A report about a type without a subject provider never gets a delivery event,
\* whatever reconciliation sweeps and decisions do.
THEOREM LocalReportsStayLocal == Spec => []LocalOnlyStaysLocal
  BY PipelineInvHolds, PTL DEF PipelineInv

\* However often a decision is applied, and by however many dispatchers at once,
\* no report shows it before its enforcement was carried out.
THEOREM ConsequencesComeFirst == Spec => []EnforcedBeforeTold
  BY PipelineInvHolds, PTL DEF PipelineInv

\* A decision whose event is done is on a report, in that revision or a newer one.
THEOREM DoneDecisionsWereTold == Spec => []DoneWasTold
  BY PipelineInvHolds, PTL DEF PipelineInv

\* A decision is done when every report its run found shows it or a newer one,
\* whatever other runs and revisions wrote meanwhile (applyDecisionOutboxEvent).
THEOREM EveryFoundReportIsTold == Spec => FoundReportsAreTold
<1> DEFINE Due(v) == outbox[Apply(v)] # "done" /\ outbox'[Apply(v)] = "done"
           Tells(v) == \E w \in Worker :
              /\ Applies(w, v) /\ task[w].owns /\ task[w].found # {}
              /\ \A r \in task[w].found : report[r].revision >= v
<1>1. ASSUME PipelineInv, [Next]_vars, NEW v \in Revision, Due(v) PROVE Tells(v)
  <2>0. TypeOK /\ FoundInv /\ Apply(v) \in Event BY <1>1, EventsDiffer DEF PipelineInv
  <2>1. PICK w \in Worker : Complete(w) /\ task[w].event = Apply(v)
    BY <1>1, <2>0, WhoSettles
  <2>2. task[w].owns BY <1>1, <2>0, <2>1 DEF Complete
  <2>3. task[w].found # {} /\ \A r \in task[w].found : Shown(r, v)
    BY <2>0, <2>1 DEF Complete, FoundInv, Applies
  <2>4. QED BY <2>1, <2>2, <2>3 DEF Applies, Shown
<1>2. PipelineInv /\ [Next]_vars => [\A v \in Revision : Due(v) => Tells(v)]_vars
  BY <1>1
<1>3. QED BY <1>2, PipelineInvHolds, PTL DEF Spec, FoundReportsAreTold

\* A webhook answered 2xx is queued or about to be, unless a request failed on it.
THEOREM AcknowledgementsHold == Spec => []AcknowledgedIsQueued
  BY PipelineInvHolds, PTL DEF PipelineInv

\* No report goes back to an older revision.
THEOREM RevisionsOnlyGrow == Spec => RevisionNeverGoesBack
<1>1. PipelineInv /\ [Next]_vars =>
        [\A r \in Report : report'[r].revision >= report[r].revision]_vars
  BY NothingTakenBack DEF PipelineInv, Kept
<1>2. QED BY <1>1, PipelineInvHolds, PTL DEF Spec, RevisionNeverGoesBack

\* Until something goes wrong, no late delivery rewrites the status of a report
\* whose case is closed.
THEOREM ClosedReportsStayClosed == Spec => DecidedStatusHolds
<1> DEFINE Holds(r) ==
      mishaps = 0 /\ report[r].revision \in Final =>
        report'[r].status = "closed" \/ report'[r].revision # report[r].revision
<1>1. ASSUME PipelineInv, [Next]_vars, NEW r \in Report,
             mishaps = 0, report[r].revision \in Final
      PROVE  report'[r].status = "closed" \/ report'[r].revision # report[r].revision
  <2>1. TypeOK /\ CalmDelivery /\ CalmReport BY <1>1 DEF PipelineInv, CalmInv
  <2>2. /\ report[r].status = "closed" /\ report[r].linked
    BY <1>1, <2>1, PipelineAssumption DEF CalmReport
  <2>3. ~CreateModerationReport(r) BY <2>2 DEF CreateModerationReport
  <2>4. ASSUME NEW w \in Worker,
               \/ CloseUndeliverable(w, r) \/ RecordReceipt(w, r)
               \/ RecordFailure(w, r)
        PROVE  FALSE
    BY <2>1, <2>2, <2>4
    DEF CloseUndeliverable, RecordReceipt, RecordFailure, CalmDelivery
  <2>5. CASE Decided(r)
    BY <1>1, <2>5 DEF Decided, LocalStatusForDecision
  <2>6. CASE report'[r] = report[r] BY <2>2, <2>6
  <2>7. QED BY <1>1, <2>1, <2>3, <2>4, <2>5, <2>6, WhoWrites
<1>2. PipelineInv /\ [Next]_vars => [\A r \in Report : Holds(r)]_vars
  BY <1>1
<1>3. QED BY <1>2, PipelineInvHolds, PTL DEF Spec, DecidedStatusHolds

-----------------------------------------------------------------------------
(* The queue.                                                              *)

\* Every step of the pipeline is a step of DurableWork, or none.
LEMMA QueueStep == PipelineInv /\ [Next]_vars => [Queue!Next]_(Queue!vars)
<1> SUFFICES ASSUME PipelineInv, [Next]_vars
             PROVE  Queue!Next \/ UNCHANGED <<outbox, performed>>
  BY DEF Queue!vars
<1> DEFINE Goal == Queue!Next \/ UNCHANGED <<outbox, performed>>
<1> SUFFICES Goal OBVIOUS
<1> HIDE DEF Goal
<1>0. /\ TypeOK /\ OwnerInv
      /\ \A u \in Worker : task[u].pc # "idle" => task[u].event \in Event
  BY DEF PipelineInv, HandInv
<1>1. ASSUME NEW e \in Event, outbox' = Enqueued(e), UNCHANGED performed PROVE Goal
  BY <1>1 DEF Goal, Enqueued, Queue!Next, Queue!Promise
<1>2. ASSUME NEW w \in Worker, task[w].pc # "idle", UNCHANGED outbox, Performs(w)
      PROVE  Goal
  <2>1. task[w].event \in Event BY <1>0, <1>2
  <2>2. CASE outbox[task[w].event] # "absent"
    BY <1>2, <2>1, <2>2 DEF Goal, Performs, Queue!Next, Queue!Perform
  <2>3. CASE outbox[task[w].event] = "absent" BY <1>2, <2>3 DEF Goal, Performs
  <2>4. QED BY <2>2, <2>3
<1>3. ASSUME NEW w \in Worker, Complete(w) PROVE Goal
  <2>1. CASE task[w].owns
    <3>1. /\ task[w].event \in Event /\ outbox[task[w].event] = "owed"
          /\ task[w].event \in performed
      BY <1>0, <1>3, <2>1 DEF OwnerInv, Complete
    <3>2. /\ outbox' = [outbox EXCEPT ![task[w].event] = "done"]
          /\ UNCHANGED performed
      BY <1>3, <2>1 DEF Complete
    <3>3. QED BY <3>1, <3>2 DEF Goal, Queue!Next, Queue!Settle
  <2>2. CASE ~task[w].owns BY <1>3, <2>2 DEF Goal, Complete
  <2>3. QED BY <2>1, <2>2
<1>4. ASSUME NEW w \in Worker, Fail(w) PROVE Goal
  <2>1. UNCHANGED performed BY <1>4 DEF Fail
  <2>2. CASE outbox' = outbox BY <2>1, <2>2 DEF Goal
  <2>3. CASE task[w].owns /\ outbox' = [outbox EXCEPT ![task[w].event] = "abandoned"]
    <3>1. task[w].event \in Event /\ outbox[task[w].event] = "owed"
      BY <1>0, <2>3 DEF OwnerInv
    <3>2. QED BY <2>1, <2>3, <3>1 DEF Goal, Queue!Next, Queue!GiveUp
  <2>4. QED BY <1>4, <2>2, <2>3 DEF Fail
<1>5. ASSUME NEW e \in Event, Sweep(e) PROVE Goal
  BY <1>5 DEF Goal, Sweep, Queue!Next, Queue!Forget
<1>6. ASSUME NEW r \in Report, CreateModerationReport(r) \/ Reconcile(r) PROVE Goal
  <2>1. Submit(r) \in Event BY EventsDiffer
  <2>2. UNCHANGED performed /\ (outbox' = outbox \/ outbox' = Enqueued(Submit(r)))
    BY <1>6 DEF CreateModerationReport, Reconcile
  <2>3. QED BY <1>1, <2>1, <2>2 DEF Goal
<1>7. ASSUME NEW v \in Revision, RecordDecisionEvent(v) PROVE Goal
  <2>1. Apply(v) \in Event BY EventsDiffer
  <2>2. outbox' = Enqueued(Apply(v)) /\ UNCHANGED performed
    BY <1>7 DEF RecordDecisionEvent
  <2>3. QED BY <1>1, <2>1, <2>2
<1>8. ASSUME NEW w \in Worker, NEW r \in Report,
             CloseUndeliverable(w, r) \/ RecordReceipt(w, r)
      PROVE  Goal
  BY <1>2, <1>8 DEF CloseUndeliverable, RecordReceipt
<1>9. ASSUME NEW w \in Worker, NEW v \in Revision, CacheDecision(w, v) PROVE Goal
  <2>1. UNCHANGED outbox /\ task[w].pc # "idle" BY <1>9 DEF CacheDecision
  <2>2. CASE Performs(w) BY <1>2, <2>1, <2>2
  <2>3. CASE UNCHANGED performed BY <2>1, <2>3 DEF Goal
  <2>4. QED BY <1>0, <1>9, <2>2, <2>3, CacheMoves
<1>10. CASE \/ \E w \in Worker : BuildReportInput(w) \/ FindReports(w)
            \/ \E w \in Worker, r \in Report : Send(w, r) \/ RecordFailure(w, r)
            \/ \E w \in Worker, v \in Revision : ApplyDecisionEnforcement(w, v)
            \/ \E w \in Worker : Crash(w) \/ HandlerThrows(w)
            \/ \E w \in Worker, e \in Event : Begin(w, e)
            \/ Elsewhere
            \/ UNCHANGED vars
  BY <1>10, ElsewhereStays
  DEF Goal, BuildReportInput, FindReports, Send, RecordFailure,
      ApplyDecisionEnforcement, Crash, HandlerThrows, Begin, vars, queue
<1>11. QED
  BY <1>3, <1>4, <1>5, <1>6, <1>7, <1>8, <1>9, <1>10, NextSplits

\* The pipeline settles an event only when it has performed it, gives up and loses
\* only events that it owes, and never revives one: the contract that
\* ModerationOutbox implements.
THEOREM UsesTheQueueAsPromised == Spec => UsesQueueAsPromised
<1>1. Init => Queue!Init BY DEF Init, Queue!Init
<1>2. QED
  BY <1>1, QueueStep, PipelineInvHolds, PTL
  DEF Spec, UsesQueueAsPromised, Queue!Safety
=============================================================================
