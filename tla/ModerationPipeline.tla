------------------------- MODULE ModerationPipeline -------------------------
(***************************************************************************)
(* The moderation pipeline around its queue, for one reported object and   *)
(* the CrowdSource case its reports become: intake                         *)
(* (ReportIntakeService.ts), delivery (ModerationDeliveryWorker.ts), the   *)
(* webhook receiver (ModerationInboundService.ts, moderationEventStore.ts),*)
(* decisions (ModerationDecisionWorker.ts) and reconciliation              *)
(* (ModerationReconciliation.ts).                                          *)
(*                                                                         *)
(* The outbox is what DurableWork promises and ModerationOutbox            *)
(* implements; applying a decision to the object is one step here and      *)
(* ModerationEnforcement in detail. Statements of a handler commit one by  *)
(* one, so each is an action.                                              *)
(*                                                                         *)
(* CrowdSource is external: it accepts a report once per external id,      *)
(* decides the case in revisions, and sends each revision's webhook until  *)
(* it is answered 2xx. Mishaps are crashes, statements and calls that fail,*)
(* lost leases and retention reaching unfinished work.                     *)
(***************************************************************************)
EXTENDS Integers, FiniteSets

CONSTANTS
    NReports,       \* reports 1..NReports are filed in that order
    LastRevision,   \* the case is decided in revisions 1..LastRevision
    Worker,         \* the processes that run a dispatcher
    Final,          \* the revisions that end Homiio's side of the case
    BatchSize,      \* reports a reconciliation sweep looks at
    MaxMishaps

ASSUME PipelineAssumption ==
    /\ NReports \in Nat /\ LastRevision \in Nat /\ MaxMishaps \in Nat
    /\ Final \subseteq 1..LastRevision

Report == 1..NReports
Revision == 1..LastRevision

\* reportSubmitEventId, decisionApplyEventId.
Submit(r) == <<"report.submit", r>>
Apply(v) == <<"decision.apply", v>>
Event == {Submit(r) : r \in Report} \cup {Apply(v) : v \in Revision}

VARIABLES
    provider,    \* does the reported type have a subject provider?
    content,     \* does the reported object still exist?
    report,      \* moderation_reports
    outbox,      \* moderation_outbox, as DurableWork sees it
    performed,   \* history, as in DurableWork
    inbox,       \* moderation_events
    receiver,    \* the request that handles a revision's webhook
    sender,      \* CrowdSource: each revision's webhook
    accepted,    \* CrowdSource: reports that are part of the case
    heard,       \* history: the reports of the case when a revision was decided
    task,        \* what each dispatcher is doing
    enforced,    \* revisions whose enforcement was carried out
    mishaps,
    dropped      \* history: revisions a receiver failed on

reports == <<content, report>>
queue == <<outbox, performed>>
webhook == <<inbox, receiver, dropped>>
crowdsource == <<sender, accepted, heard>>
vars == <<provider, reports, queue, webhook, crowdsource, task, enforced, mishaps>>

LocalStatus == {"none", "received", "queued", "submitted", "delivery_failed",
                "closed"}

\* "linked": crowdSourceCaseId is set. Revision 0 is NULL.
ReportRow == [status : LocalStatus, linked : BOOLEAN, revision : 0..LastRevision]

NoReport == [status |-> "none", linked |-> FALSE, revision |-> 0]

Task == [pc : {"idle", "start", "send", "record", "fail", "close", "enforce",
               "cache", "ok", "retry", "reject"},
         event : Event \cup {<<>>},
         found : SUBSET Report,   \* the reports the handler read,
         todo : SUBSET Report,    \* and those it has yet to write
         owns : BOOLEAN]          \* is the lease still its own?

Idle == [pc |-> "idle", event |-> <<>>, found |-> {}, todo |-> {}, owns |-> FALSE]

Init ==
    /\ provider \in BOOLEAN
    /\ content = TRUE
    /\ report = [r \in Report |-> NoReport]
    /\ outbox = [e \in Event |-> "absent"]
    /\ performed = {}
    /\ inbox = [v \in Revision |-> "none"]
    /\ receiver = [v \in Revision |-> "none"]
    /\ sender = [v \in Revision |-> "undecided"]
    /\ accepted = {}
    /\ heard = [v \in Revision |-> {}]
    /\ task = [w \in Worker |-> Idle]
    /\ enforced = {}
    /\ mishaps = 0
    /\ dropped = {}

Mishap(happens) ==
    /\ happens => mishaps < MaxMishaps
    /\ mishaps' = IF happens THEN mishaps + 1 ELSE mishaps

\* enqueueModerationOutboxEvent: an existing row is left alone.
Enqueued(e) ==
    IF outbox[e] = "absent" THEN [outbox EXCEPT ![e] = "owed"] ELSE outbox

-----------------------------------------------------------------------------
(* Intake: the report and its delivery event in one transaction.           *)

CreateModerationReport(r) ==
    /\ report[r].status = "none"
    /\ \A q \in Report : q < r => report[q].status # "none"
    /\ report' = [report EXCEPT ![r].status =
                     IF provider THEN "queued" ELSE "received"]
    /\ outbox' = IF provider THEN Enqueued(Submit(r)) ELSE outbox
    /\ UNCHANGED <<provider, content, performed, webhook, crowdsource, task,
                   enforced, mishaps>>

\* The review is deleted by its author, or the listing is reaped when its ad expires.
DeleteContent ==
    /\ content
    /\ content' = FALSE
    /\ UNCHANGED <<provider, report, queue, webhook, crowdsource, task, enforced,
                   mishaps>>

-----------------------------------------------------------------------------
(* The dispatchers: at least once, and twice at once when a lease is lost. *)

Goto(w, pc) == task' = [task EXCEPT ![w].pc = pc]

Begin(w, e) ==
    /\ task[w].pc = "idle"
    /\ outbox[e] = "owed"
    /\ Mishap(\E v \in Worker : task[v].event = e /\ task[v].owns)
    /\ task' = [v \in Worker |->
          IF v = w
          THEN [pc |-> "start", event |-> e, found |-> {}, todo |-> {}, owns |-> TRUE]
          ELSE IF task[v].event = e THEN [task[v] EXCEPT !.owns = FALSE]
          ELSE task[v]]
    /\ UNCHANGED <<provider, reports, queue, webhook, crowdsource, enforced>>

\* Faulty Complete: the row is never marked.
CompleteNothing(w) ==
    /\ task[w].pc = "ok"
    /\ task' = [task EXCEPT ![w] = Idle]
    /\ UNCHANGED <<provider, reports, queue, webhook, crowdsource, enforced, mishaps>>

\* Faulty Complete: the row is marked whoever the lease belongs to.
CompleteAnyLease(w) ==
    /\ task[w].pc = "ok"
    /\ outbox' = [outbox EXCEPT ![task[w].event] = "done"]
    /\ task' = [task EXCEPT ![w] = Idle]
    /\ UNCHANGED <<provider, reports, performed, webhook, crowdsource, enforced,
                   mishaps>>

\* The handler returned, and the row is completed if the lease is still its own.
Complete(w) ==
    /\ task[w].pc = "ok"
    /\ IF task[w].owns
       THEN /\ outbox' = [outbox EXCEPT ![task[w].event] = "done"]
       ELSE UNCHANGED outbox
    /\ task' = [task EXCEPT ![w] = Idle]
    /\ UNCHANGED <<provider, reports, performed, webhook, crowdsource, enforced,
                   mishaps>>

\* The handler threw: the event is retried, or dead-lettered because the error
\* says so or because that was its last attempt.
Fail(w) ==
    /\ task[w].pc \in {"retry", "reject"}
    /\ \/ /\ task[w].pc = "retry" \/ ~task[w].owns
          /\ UNCHANGED outbox
       \/ /\ task[w].owns
          /\ outbox' = [outbox EXCEPT ![task[w].event] = "abandoned"]
    /\ task' = [task EXCEPT ![w] = Idle]
    /\ UNCHANGED <<provider, reports, performed, webhook, crowdsource, enforced,
                   mishaps>>

\* The process dies.
Crash(w) ==
    /\ task[w].pc # "idle"
    /\ Mishap(TRUE)
    /\ task' = [task EXCEPT ![w] = Idle]
    /\ UNCHANGED <<provider, reports, queue, webhook, crowdsource, enforced>>

\* Any statement or call of a handler throws something retryable.
HandlerThrows(w) ==
    /\ task[w].pc \in {"start", "record", "fail", "close", "enforce", "cache"}
    /\ Mishap(TRUE)
    /\ Goto(w, "retry")
    /\ UNCHANGED <<provider, reports, queue, webhook, crowdsource, enforced>>

\* What a handler that returns leaves behind.
Performs(w) ==
    performed' = IF outbox[task[w].event] # "absent"
                 THEN performed \cup {task[w].event} ELSE performed

-----------------------------------------------------------------------------
(* deliverReportOutboxEvent.                                               *)

Delivers(w, r) == task[w].event = Submit(r)

\* The snapshot is taken: a report about nothing is closed.
BuildReportInput(w) ==
    /\ task[w].pc = "start" /\ \E r \in Report : Delivers(w, r)
    /\ Goto(w, IF content THEN "send" ELSE "close")
    /\ UNCHANGED <<provider, reports, queue, webhook, crowdsource, enforced,
                   mishaps>>

CloseUndeliverable(w, r) ==
    /\ task[w].pc = "close" /\ Delivers(w, r)
    /\ report' = [report EXCEPT ![r].status = "closed"]
    /\ Goto(w, "ok")
    /\ Performs(w)
    /\ UNCHANGED <<provider, content, outbox, webhook, crowdsource, enforced,
                   mishaps>>

\* crowdsource.reports.create: accepted and answered, accepted and the answer
\* lost, or not accepted.
Send(w, r) ==
    /\ task[w].pc = "send" /\ Delivers(w, r)
    /\ \/ /\ accepted' = accepted \cup {r}
          /\ Goto(w, "record")
          /\ UNCHANGED mishaps
       \/ /\ accepted' \in {accepted, accepted \cup {r}}
          /\ Mishap(TRUE)
          /\ Goto(w, "fail")
    /\ UNCHANGED <<provider, reports, queue, webhook, sender, heard, enforced>>

\* Written whatever the report has become since the handler read it.
RecordReceipt(w, r) ==
    /\ task[w].pc = "record" /\ Delivers(w, r)
    /\ report' = [report EXCEPT ![r].status = "submitted", ![r].linked = TRUE]
    /\ Goto(w, "ok")
    /\ Performs(w)
    /\ UNCHANGED <<provider, content, outbox, webhook, crowdsource, enforced,
                   mishaps>>

RecordFailure(w, r) ==
    /\ task[w].pc = "fail" /\ Delivers(w, r)
    /\ report' = [report EXCEPT ![r].status = "delivery_failed"]
    /\ \E verdict \in {"retry", "reject"} : Goto(w, verdict)
    /\ UNCHANGED <<provider, content, queue, webhook, crowdsource, enforced,
                   mishaps>>

-----------------------------------------------------------------------------
(* The case is decided, and each decision is sent until it is answered.    *)

Decide(v) ==
    /\ sender[v] = "undecided"
    /\ accepted # {} /\ \A u \in Revision : u < v => sender[u] # "undecided"
    /\ sender' = [sender EXCEPT ![v] = "sending"]
    /\ heard' = [heard EXCEPT ![v] = accepted]
    /\ UNCHANGED <<provider, reports, queue, webhook, accepted, task, enforced,
                   mishaps>>

\* claimModerationEvent: the PRIMARY KEY lets one delivery of an event past.
ClaimModerationEvent(v) ==
    /\ sender[v] = "sending" /\ inbox[v] = "none"
    /\ inbox' = [inbox EXCEPT ![v] = "claimed"]
    /\ receiver' = [receiver EXCEPT ![v] = "handling"]
    /\ UNCHANGED <<provider, reports, queue, dropped, crowdsource, task,
                   enforced, mishaps>>

\* Faulty RecordDecisionEvent: the work is queued, the inbox row not completed.
RecordWorkOnly(v) ==
    /\ receiver[v] = "handling"
    /\ outbox' = Enqueued(Apply(v))
    /\ receiver' = [receiver EXCEPT ![v] = "answering"]
    /\ UNCHANGED <<provider, reports, performed, inbox, dropped, crowdsource,
                   task, enforced, mishaps>>

\* Faulty RecordDecisionEvent: the row is marked as one without work.
RecordAsIgnored(v) ==
    /\ receiver[v] = "handling"
    /\ inbox' = [inbox EXCEPT ![v] = "ignored"]
    /\ receiver' = [receiver EXCEPT ![v] = "answering"]
    /\ UNCHANGED <<provider, reports, queue, dropped, crowdsource, task, enforced,
                   mishaps>>

\* recordDecisionEvent: both rows in one transaction.
RecordDecisionEvent(v) ==
    /\ receiver[v] = "handling"
    /\ inbox' = [inbox EXCEPT ![v] = "queued"]
    /\ outbox' = Enqueued(Apply(v))
    /\ receiver' = [receiver EXCEPT ![v] = "answering"]
    /\ UNCHANGED <<provider, reports, performed, dropped, crowdsource, task,
                   enforced, mishaps>>

\* The transaction fails: the claim is to be given back.
RecordingFails(v) ==
    /\ receiver[v] = "handling"
    /\ Mishap(TRUE)
    /\ receiver' = [receiver EXCEPT ![v] = "releasing"]
    /\ dropped' = dropped \cup {v}
    /\ UNCHANGED <<provider, reports, queue, inbox, crowdsource, task, enforced>>

ReleaseModerationEvent(v) ==
    /\ receiver[v] = "releasing"
    /\ inbox' = [inbox EXCEPT ![v] = "none"]
    /\ receiver' = [receiver EXCEPT ![v] = "none"]
    /\ UNCHANGED <<provider, reports, queue, dropped, crowdsource, task,
                   enforced, mishaps>>

ReceiverDies(v) ==
    /\ receiver[v] # "none"
    /\ Mishap(TRUE)
    /\ receiver' = [receiver EXCEPT ![v] = "none"]
    /\ dropped' = dropped \cup {v}
    /\ UNCHANGED <<provider, reports, queue, inbox, crowdsource, task, enforced>>

Acknowledge(v) == sender' = [sender EXCEPT ![v] = "acknowledged"]

\* 2xx from the request that recorded it.
Answer(v) ==
    /\ receiver[v] = "answering"
    /\ Acknowledge(v)
    /\ receiver' = [receiver EXCEPT ![v] = "none"]
    /\ UNCHANGED <<provider, reports, queue, inbox, dropped, accepted, heard,
                   task, enforced, mishaps>>

\* 2xx for a delivery that finds the row there.
AnswerDuplicate(v) ==
    /\ sender[v] = "sending" /\ inbox[v] # "none"
    /\ Acknowledge(v)
    /\ UNCHANGED <<provider, reports, queue, webhook, accepted, heard, task,
                   enforced, mishaps>>

-----------------------------------------------------------------------------
(* applyDecisionOutboxEvent.                                               *)

Applies(w, v) == task[w].event = Apply(v)

Linked == {r \in Report : report[r].linked}

\* findModerationReportsByCaseId: with no report linked yet, the decision is
\* deferred.
FindReports(w) ==
    /\ task[w].pc = "start" /\ \E v \in Revision : Applies(w, v)
    /\ task' = [task EXCEPT ![w].pc = IF Linked = {} THEN "retry" ELSE "enforce",
                            ![w].found = Linked, ![w].todo = Linked]
    /\ UNCHANGED <<provider, reports, queue, webhook, crowdsource, enforced,
                   mishaps>>

ApplyDecisionEnforcement(w, v) ==
    /\ task[w].pc = "enforce" /\ Applies(w, v)
    /\ enforced' = enforced \cup {v}
    /\ Goto(w, "cache")
    /\ UNCHANGED <<provider, reports, queue, webhook, crowdsource, mishaps>>

\* localStatusForDecision
LocalStatusForDecision(v) == IF v \in Final THEN "closed" ELSE "submitted"

\* Faulty CacheDecision: the last writer wins.
CacheLatestWrite(w, v) ==
    /\ task[w].pc = "cache" /\ Applies(w, v)
    /\ \E r \in task[w].todo :
        /\ report' = [report EXCEPT ![r].status = LocalStatusForDecision(v),
                                    ![r].revision = v]
        /\ IF task[w].todo = {r}
           THEN /\ task' = [task EXCEPT ![w].pc = "ok", ![w].todo = {}]
                /\ Performs(w)
           ELSE /\ task' = [task EXCEPT ![w].todo = @ \ {r}]
                /\ UNCHANGED performed
    /\ UNCHANGED <<provider, content, outbox, webhook, crowdsource, enforced, mishaps>>

\* Faulty CacheDecision: one report of the case stands for all.
CacheOnOne(w, v) ==
    /\ task[w].pc = "cache" /\ Applies(w, v)
    /\ \E r \in task[w].todo :
        /\ report' = IF report[r].revision <= v
                     THEN [report EXCEPT ![r].status = LocalStatusForDecision(v),
                                         ![r].revision = v]
                     ELSE report
        /\ task' = [task EXCEPT ![w].pc = "ok", ![w].todo = {}]
        /\ Performs(w)
    /\ UNCHANGED <<provider, content, outbox, webhook, crowdsource, enforced, mishaps>>

\* cacheDecisionOnReport: the row refuses a revision older than its own.
CacheDecision(w, v) ==
    /\ task[w].pc = "cache" /\ Applies(w, v)
    /\ \E r \in task[w].todo :
        /\ report' = IF report[r].revision <= v
                     THEN [report EXCEPT ![r].status = LocalStatusForDecision(v),
                                         ![r].revision = v]
                     ELSE report
        /\ IF task[w].todo = {r}
           THEN /\ task' = [task EXCEPT ![w].pc = "ok", ![w].todo = {}]
                /\ Performs(w)
           ELSE /\ task' = [task EXCEPT ![w].todo = @ \ {r}]
                /\ UNCHANGED performed
    /\ UNCHANGED <<provider, content, outbox, webhook, crowdsource, enforced,
                   mishaps>>

-----------------------------------------------------------------------------
(* Reconciliation and retention.                                           *)

\* Faulty AwaitingDelivery: the reports that were going nowhere, too.
AwaitingAnything ==
    {r \in Report : report[r].status \in {"received", "queued", "delivery_failed"}}

\* Faulty AwaitingDelivery: only those that failed.
AwaitingRetry == {r \in Report : report[r].status = "delivery_failed"}

\* RECONCILABLE_LOCAL_STATUSES.
AwaitingDelivery ==
    {r \in Report : report[r].status \in {"queued", "delivery_failed"}}

\* reconcileModerationReports, one report of it: one of the oldest BatchSize
\* that await delivery is enqueued again when it has no event at all. The list is
\* read moments earlier, which ninety days of retention make the same instant.
Reconcile(r) ==
    /\ r \in AwaitingDelivery
    /\ Cardinality({q \in AwaitingDelivery : q < r}) < BatchSize
    /\ outbox[Submit(r)] = "absent"
    /\ outbox' = Enqueued(Submit(r))
    /\ UNCHANGED <<provider, reports, performed, webhook, crowdsource, task,
                   enforced, mishaps>>

\* The retention sweep of db/expiry.ts, ninety days after the insert.
Sweep(e) ==
    /\ outbox[e] # "absent"
    /\ Mishap(TRUE)
    /\ outbox' = [outbox EXCEPT ![e] = "absent"]
    /\ performed' = performed \ {e}
    /\ task' = [w \in Worker |-> IF task[w].event = e
                                 THEN [task[w] EXCEPT !.owns = FALSE]
                                 ELSE task[w]]
    /\ UNCHANGED <<provider, reports, webhook, crowdsource, enforced>>

-----------------------------------------------------------------------------
Handler(w) ==
    \/ BuildReportInput(w) \/ FindReports(w)
    \/ \E r \in Report : \/ CloseUndeliverable(w, r) \/ Send(w, r)
                         \/ RecordReceipt(w, r) \/ RecordFailure(w, r)
    \/ \E v \in Revision : ApplyDecisionEnforcement(w, v) \/ CacheDecision(w, v)

Settle(w) == Complete(w) \/ Fail(w)

Request(v) ==
    ClaimModerationEvent(v) \/ RecordDecisionEvent(v) \/ ReleaseModerationEvent(v)
    \/ Answer(v) \/ AnswerDuplicate(v)

Next ==
    \/ \E r \in Report : CreateModerationReport(r) \/ Reconcile(r)
    \/ DeleteContent
    \/ \E w \in Worker : Handler(w) \/ Settle(w) \/ Crash(w) \/ HandlerThrows(w)
    \/ \E w \in Worker, e \in Event : Begin(w, e)
    \/ \E v \in Revision : \/ Decide(v) \/ Request(v)
                           \/ RecordingFails(v) \/ ReceiverDies(v)
    \/ \E e \in Event : Sweep(e)

Spec == Init /\ [][Next]_vars

\* Every owed event is claimed in its turn, handlers and requests end, and cron
\* sweeps again and again. Nobody has to report, decide, delete or fail.
Fairness ==
    /\ \A w \in Worker : WF_vars(Handler(w)) /\ WF_vars(Settle(w))
    /\ \A e \in Event : SF_vars(\E w \in Worker : Begin(w, e))
    /\ \A v \in Revision : WF_vars(Request(v))
    /\ \A r \in Report : WF_vars(Reconcile(r))

FairSpec == Spec /\ Fairness

-----------------------------------------------------------------------------
(* Properties.                                                             *)

TypeOK ==
    /\ provider \in BOOLEAN /\ content \in BOOLEAN
    /\ report \in [Report -> ReportRow]
    /\ outbox \in [Event -> {"absent", "owed", "done", "abandoned"}]
    /\ performed \subseteq Event
    /\ inbox \in [Revision -> {"none", "claimed", "queued"}]
    /\ receiver \in [Revision -> {"none", "handling", "releasing", "answering"}]
    /\ sender \in [Revision -> {"undecided", "sending", "acknowledged"}]
    /\ accepted \subseteq Report
    /\ heard \in [Revision -> SUBSET Report]
    /\ task \in [Worker -> Task]
    /\ enforced \subseteq Revision
    /\ mishaps \in 0..MaxMishaps
    /\ dropped \subseteq Revision

\* A report whose type has no subject provider never gets a delivery event, from
\* intake or from any reconciliation sweep, and stays where it is.
LocalOnlyStaysLocal == ~provider => \A r \in Report :
    outbox[Submit(r)] = "absent" /\ report[r].status \in {"none", "received"}

\* A report never shows a decision that was not enforced: the consequence comes
\* first, across retries and overlapping runs.
EnforcedBeforeTold == \A r \in Report :
    report[r].revision # 0 => report[r].revision \in enforced

\* A decision that overtakes the response carrying its case id is deferred, not
\* thrown away: its event is done only once some report shows it or a newer one.
DoneWasTold == \A v \in Revision :
    outbox[Apply(v)] = "done" => \E r \in Report : report[r].revision >= v

\* Nor is it done while it is missing from any report its run found: the event is
\* completed by a run that found some, and each of them shows the decision or a
\* newer one, though other runs and other revisions wrote the same reports.
FoundReportsAreTold == [][\A v \in Revision :
    outbox[Apply(v)] # "done" /\ outbox'[Apply(v)] = "done" =>
        \E w \in Worker :
            /\ Applies(w, v) /\ task[w].owns /\ task[w].found # {}
            /\ \A r \in task[w].found : report[r].revision >= v]_vars

\* The webhook's dedupe loses nothing by itself: a revision that was answered
\* 2xx is queued, or the request that claimed it is still on its way to queue it,
\* unless a request failed on it.
AcknowledgedIsQueued == \A v \in Revision :
    sender[v] = "acknowledged" =>
        inbox[v] = "queued" \/ receiver[v] = "handling" \/ v \in dropped

\* Overlapping applications of two revisions never take a report back.
RevisionNeverGoesBack ==
    [][\A r \in Report : report'[r].revision >= report[r].revision]_vars

\* Without crashes, lost leases and lost rows, no delivery rewrites the status a
\* final decision gave a report.
DecidedStatusHolds == [][\A r \in Report :
    mishaps = 0 /\ report[r].revision \in Final =>
        report'[r].status = "closed" \/ report'[r].revision # report[r].revision]_vars

\* The pipeline uses its queue by the contract the outbox implements: it settles
\* only what it performed, and nothing is settled twice or revived.
Queue == INSTANCE DurableWork WITH state <- outbox
UsesQueueAsPromised == Queue!Safety

\* No report is forgotten: what intake queued is delivered, closed, or
\* dead-lettered where an operator sees it, even if its event is lost.
NoReportIsForgotten == \A r \in Report :
    report[r].status = "queued" ~>
        report[r].status \in {"submitted", "closed"} \/ outbox[Submit(r)] = "abandoned"

-----------------------------------------------------------------------------
(* Properties the documentation states and the code does not have.         *)

\* ModerationInboundService.ts: the only two outcomes are "recorded and queued"
\* or "neither", and "neither" is redelivered.
NoDecisionIsLost == \A v \in Revision :
    sender[v] = "acknowledged" => inbox[v] = "queued" \/ receiver[v] # "none"

\* ModerationDecisionWorker.ts: the decision is written onto every report that
\* opened or joined the case. When all is done, the reports CrowdSource had when
\* it decided show that decision.
AllDone ==
    /\ \A e \in Event : outbox[e] \in {"absent", "done"}
    /\ \A w \in Worker : task[w].pc = "idle"

EveryReportIsTold == \A v \in Revision :
    AllDone /\ outbox[Apply(v)] = "done" =>
        \A r \in heard[v] : report[r].revision >= v
=============================================================================
