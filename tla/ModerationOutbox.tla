-------------------------- MODULE ModerationOutbox --------------------------
(***************************************************************************)
(* The moderation_outbox table and the tasks that drain it: every API      *)
(* process runs one dispatcher (server.ts), which claims an event under a  *)
(* lease, renews the lease while the handler runs, and writes what became  *)
(* of the event only if the lease is still its own                         *)
(* (moderationOutboxRepository.ts, ModerationOutboxService.ts,             *)
(* ModerationOutboxDispatcher.ts, and the retention sweep of db/expiry.ts).*)
(*                                                                         *)
(* Every database statement is one action: each runs outside a transaction *)
(* and autocommits, and FOR UPDATE SKIP LOCKED makes the claim atomic.     *)
(*                                                                         *)
(* Time. available_at of a pending row and lease_until of a processing one *)
(* become "timer", the ticks left until that instant; one tick is a third  *)
(* of a lease, the heartbeat's period. A row is due when its timer is 0.   *)
(*                                                                         *)
(* Mishaps. A crash, a renewal that throws, a lease that runs out under a  *)
(* live task and retention reaching unfinished work each spend one of      *)
(* MaxMishaps: the bound is on what goes wrong, never on what the code     *)
(* does about it.                                                          *)
(***************************************************************************)
EXTENDS Naturals

CONSTANTS
    Event,         \* outbox ids: reportSubmitEventId, decisionApplyEventId
    Worker,        \* the tasks that run a dispatcher
    NoEvent, NoWorker,
    MaxAttempts,   \* MAX_RETRYABLE_ATTEMPTS
    LeaseTicks,    \* leaseMs, in heartbeat periods
    BackoffCap,    \* MAX_BACKOFF_MS, in heartbeat periods
    MaxMishaps

ASSUME NullAssumption == NoEvent \notin Event /\ NoWorker \notin Worker

ASSUME BoundAssumption ==
    /\ MaxAttempts \in Nat \ {0}
    /\ LeaseTicks \in Nat \ {0}
    /\ BackoffCap \in Nat \ {0}
    /\ MaxMishaps \in Nat

VARIABLES
    row,        \* the table, one row per event id
    older,      \* for each row, the rows created before it (created_at)
    task,       \* what each dispatcher is doing
    stopping,   \* dispatchers whose abort signal is raised
    mishaps,    \* how many things have gone wrong so far
    performed   \* history: events whose handler returned since their insert

table == <<row, older>>
vars == <<row, older, task, stopping, mishaps, performed>>

Status == {"absent", "pending", "processing", "processed", "dead_letter"}
Finished == {"processed", "dead_letter"}
Verdict == {"ok", "retryable", "permanent"}

\* "absent" stands for no row with that id.
Row == [status   : Status,
        owner    : Worker \cup {NoWorker},
        timer    : Nat,
        attempts : Nat]

Task == [pc       : {"idle", "handling", "settling"},
         event    : Event \cup {NoEvent},
         attempts : Nat,
         verdict  : Verdict \cup {"none"},
         lost     : BOOLEAN]

NoRow == [status |-> "absent", owner |-> NoWorker, timer |-> 0, attempts |-> 0]

Idle == [pc |-> "idle", event |-> NoEvent, attempts |-> 0,
         verdict |-> "none", lost |-> FALSE]

Init ==
    /\ row = [e \in Event |-> NoRow]
    /\ older = [e \in Event |-> {}]
    /\ task = [w \in Worker |-> Idle]
    /\ stopping = {}
    /\ mishaps = 0
    /\ performed = {}

-----------------------------------------------------------------------------
(* The rows.                                                               *)

Exists(e) == row[e].status # "absent"

\* Faulty Due: a processing row is taken from under a live lease.
DueInSpiteOfLease(e) ==
    \/ row[e].status = "pending" /\ row[e].timer = 0
    \/ row[e].status = "processing"

\* Faulty Due: a lease that ran out is never taken over.
DueIfPending(e) == row[e].status = "pending" /\ row[e].timer = 0

\* The two branches of the claim's WHERE: a pending row whose available_at has
\* passed, or a processing row whose lease_until has.
Due(e) == row[e].status \in {"pending", "processing"} /\ row[e].timer = 0

\* ORDER BY created_at LIMIT 1: no older row is due.
OldestDue(e) == Due(e) /\ \A f \in older[e] : ~Due(f)

\* ownedLease: every write but the claim carries it.
OwnsLease(w, e) ==
    /\ row[e].status = "processing"
    /\ row[e].owner = w
    /\ row[e].timer > 0

\* nextAttemptAt: 2^(attempts-1) units, up to a cap.
Backoff(attempts) ==
    IF 2 ^ (attempts - 1) \in 1..BackoffCap THEN 2 ^ (attempts - 1) ELSE BackoffCap

Holds(w, e) == task[w].pc # "idle" /\ task[w].event = e

\* A live dispatcher is still renewing this row's lease.
Attended(e) == \E w \in Worker :
    Holds(w, e) /\ OwnsLease(w, e) /\ ~task[w].lost

Mishap(happens) ==
    /\ happens => mishaps < MaxMishaps
    /\ mishaps' = IF happens THEN mishaps + 1 ELSE mishaps

-----------------------------------------------------------------------------
(* The producers: intake, the webhook receiver and reconciliation.         *)

\* INSERT ... ON CONFLICT DO NOTHING: with the row there, nothing changes.
Enqueue(e) ==
    /\ ~Exists(e)
    /\ row' = [row EXCEPT ![e] = [NoRow EXCEPT !.status = "pending"]]
    /\ older' = [older EXCEPT ![e] = {f \in Event : Exists(f)}]
    /\ UNCHANGED <<task, stopping, mishaps, performed>>

-----------------------------------------------------------------------------
(* The dispatchers.                                                        *)

\* The claim: one statement takes the oldest due row under a lease and counts
\* the attempt.
Claim(w, e) ==
    /\ task[w].pc = "idle"
    /\ w \notin stopping
    /\ OldestDue(e)
    /\ LET n == row[e].attempts + 1 IN
       /\ row' = [row EXCEPT ![e] = [status |-> "processing", owner |-> w,
                                     timer |-> LeaseTicks, attempts |-> n]]
       /\ task' = [task EXCEPT ![w] = [pc |-> "handling", event |-> e,
                      attempts |-> n, verdict |-> "none", lost |-> FALSE]]
    /\ UNCHANGED <<older, stopping, mishaps, performed>>

\* The heartbeat: the lease is extended only while it is still this task's.
Renew(w) ==
    /\ task[w].pc = "handling" /\ ~task[w].lost
    /\ LET e == task[w].event IN
       IF OwnsLease(w, e)
       THEN /\ row' = [row EXCEPT ![e].timer = LeaseTicks]
            /\ UNCHANGED task
       ELSE /\ task' = [task EXCEPT ![w].lost = TRUE]
            /\ UNCHANGED row
    /\ UNCHANGED <<older, stopping, mishaps, performed>>

\* The renewal's statement throws: the dispatcher counts the lease as lost.
RenewalFails(w) ==
    /\ task[w].pc = "handling" /\ ~task[w].lost
    /\ task' = [task EXCEPT ![w].lost = TRUE]
    /\ Mishap(TRUE)
    /\ UNCHANGED <<row, older, stopping, performed>>

\* The handler resolves, or throws an error that is retryable or is not.
HandlerReturns(w, verdict) ==
    /\ task[w].pc = "handling"
    /\ task' = [task EXCEPT ![w].pc = "settling", ![w].verdict = verdict]
    /\ performed' = IF verdict = "ok" /\ Exists(task[w].event)
                    THEN performed \cup {task[w].event}
                    ELSE performed
    /\ UNCHANGED <<row, older, stopping, mishaps>>

\* completeModerationOutboxEvent.
Complete(w) ==
    LET e == task[w].event IN
    /\ task[w].pc = "settling" /\ task[w].verdict = "ok"
    /\ ~task[w].lost /\ OwnsLease(w, e)
    /\ row' = [row EXCEPT ![e].status = "processed",
                          ![e].owner = NoWorker, ![e].timer = 0]
    /\ task' = [task EXCEPT ![w] = Idle]
    /\ UNCHANGED <<older, stopping, mishaps, performed>>

\* Faulty DeadLetters: one attempt too early.
DeadLettersEarly(t) == t.verdict = "permanent" \/ t.attempts + 1 >= MaxAttempts

\* deadLettered = !retryable || event.attempts >= MAX_RETRYABLE_ATTEMPTS.
DeadLetters(t) == t.verdict = "permanent" \/ t.attempts >= MaxAttempts

\* Faulty Release: the attempt is counted a second time.
ReleaseAndCount(w) ==
    LET e == task[w].event IN
    /\ task[w].pc = "settling" /\ task[w].verdict \in {"retryable", "permanent"}
    /\ ~task[w].lost /\ OwnsLease(w, e)
    /\ row' = [row EXCEPT
          ![e].status = IF DeadLetters(task[w]) THEN "dead_letter" ELSE "pending",
          ![e].owner = NoWorker,
          ![e].timer = IF DeadLetters(task[w]) THEN 0 ELSE Backoff(task[w].attempts),
          ![e].attempts = @ + 1]
    /\ task' = [task EXCEPT ![w] = Idle]
    /\ UNCHANGED <<older, stopping, mishaps, performed>>

\* Faulty Release: a status the column does not know.
ReleaseAsFailed(w) ==
    LET e == task[w].event IN
    /\ task[w].pc = "settling" /\ task[w].verdict \in {"retryable", "permanent"}
    /\ ~task[w].lost /\ OwnsLease(w, e)
    /\ row' = [row EXCEPT
          ![e].status = IF DeadLetters(task[w]) THEN "failed" ELSE "pending",
          ![e].owner = NoWorker,
          ![e].timer = IF DeadLetters(task[w]) THEN 0 ELSE Backoff(task[w].attempts)]
    /\ task' = [task EXCEPT ![w] = Idle]
    /\ UNCHANGED <<older, stopping, mishaps, performed>>

\* Faulty Release: by id alone, whoever the lease belongs to.
ReleaseAnyLease(w) ==
    LET e == task[w].event IN
    /\ task[w].pc = "settling" /\ task[w].verdict \in {"retryable", "permanent"}
    /\ Exists(e)
    /\ row' = [row EXCEPT
          ![e].status = IF DeadLetters(task[w]) THEN "dead_letter" ELSE "pending",
          ![e].owner = NoWorker,
          ![e].timer = IF DeadLetters(task[w]) THEN 0 ELSE Backoff(task[w].attempts)]
    /\ task' = [task EXCEPT ![w] = Idle]
    /\ UNCHANGED <<older, stopping, mishaps, performed>>

\* failModerationOutboxEvent, releaseModerationOutboxEvent.
Release(w) ==
    LET e == task[w].event IN
    /\ task[w].pc = "settling" /\ task[w].verdict \in {"retryable", "permanent"}
    /\ ~task[w].lost /\ OwnsLease(w, e)
    /\ row' = [row EXCEPT
          ![e].status = IF DeadLetters(task[w]) THEN "dead_letter" ELSE "pending",
          ![e].owner = NoWorker,
          ![e].timer = IF DeadLetters(task[w]) THEN 0 ELSE Backoff(task[w].attempts)]
    /\ task' = [task EXCEPT ![w] = Idle]
    /\ UNCHANGED <<older, stopping, mishaps, performed>>

\* The lease was lost: nothing is written, or the write matches no row.
WalkAway(w) ==
    /\ task[w].pc = "settling"
    /\ task[w].lost \/ ~OwnsLease(w, task[w].event)
    /\ task' = [task EXCEPT ![w] = Idle]
    /\ UNCHANGED <<row, older, stopping, mishaps, performed>>

\* The process dies, or a statement of the loop itself throws: either way the
\* task forgets the event and the row keeps its lease.
Crash(w) ==
    /\ task[w].pc # "idle"
    /\ task' = [task EXCEPT ![w] = Idle]
    /\ Mishap(TRUE)
    /\ UNCHANGED <<row, older, stopping, performed>>

\* stop(): no new claim, and the event in flight is finished.
Stop(w) ==
    /\ w \notin stopping
    /\ stopping' = stopping \cup {w}
    /\ UNCHANGED <<row, older, task, mishaps, performed>>

\* start(), by the next process of the deployment.
Start(w) ==
    /\ w \in stopping /\ task[w].pc = "idle"
    /\ stopping' = stopping \ {w}
    /\ UNCHANGED <<row, older, task, mishaps, performed>>

-----------------------------------------------------------------------------
(* Time and retention.                                                     *)

TimePasses(e) ==
    /\ row[e].timer > 0
    /\ Mishap(row[e].timer = 1 /\ Attended(e))
    /\ row' = [row EXCEPT ![e].timer = @ - 1]
    /\ UNCHANGED <<older, task, stopping, performed>>

\* The expiry sweep deletes by expires_at alone, whatever the status.
Sweep(e) ==
    /\ Exists(e)
    /\ Mishap(row[e].status \notin Finished)
    /\ row' = [row EXCEPT ![e] = NoRow]
    /\ older' = [f \in Event |-> IF f = e THEN {} ELSE older[f] \ {e}]
    /\ performed' = performed \ {e}
    /\ UNCHANGED <<task, stopping>>

-----------------------------------------------------------------------------
Settles(w) == Complete(w) \/ Release(w) \/ WalkAway(w)

Next ==
    \/ \E e \in Event : Enqueue(e) \/ TimePasses(e) \/ Sweep(e)
    \/ \E w \in Worker, e \in Event : Claim(w, e)
    \/ \E w \in Worker, v \in Verdict : HandlerReturns(w, v)
    \/ \E w \in Worker : \/ Renew(w) \/ RenewalFails(w)
                         \/ Complete(w) \/ Release(w) \/ WalkAway(w)
                         \/ Crash(w) \/ Stop(w) \/ Start(w)

Spec == Init /\ [][Next]_vars

\* Handlers end (the client's own timeouts), the loop goes on, a stopped task is
\* replaced, and the clock runs for rows nobody is renewing. A claim needs strong
\* fairness: a task that is stopped and started again and again still polls.
Fairness ==
    /\ \A w \in Worker :
        /\ SF_vars(\E e \in Event : Claim(w, e))
        /\ WF_vars(\E v \in Verdict : HandlerReturns(w, v))
        /\ WF_vars(Settles(w))
        /\ WF_vars(Start(w))
    /\ \A e \in Event : WF_vars(TimePasses(e) /\ ~Attended(e))

FairSpec == Spec /\ Fairness

-----------------------------------------------------------------------------
(* Properties.                                                             *)

TypeOK ==
    /\ row \in [Event -> Row]
    /\ older \in [Event -> SUBSET Event]
    /\ task \in [Worker -> Task]
    /\ stopping \subseteq Worker
    /\ mishaps \in 0..MaxMishaps
    /\ performed \subseteq Event

\* No contradictory outcomes: while a task holds an event whose lease is in its
\* name, the attempt count it was handed is the row's own, so its dead-letter
\* verdict is about this attempt and not about one that was superseded.
AttemptIsCurrent == \A w \in Worker, e \in Event :
    Holds(w, e) /\ OwnsLease(w, e) => task[w].attempts = row[e].attempts

\* The lease and its heartbeat are what keeps two tasks from handling one event
\* at the same time: it takes something going wrong for that to happen.
OverlapNeedsMishap == \A v, w \in Worker, e \in Event :
    v # w /\ Holds(v, e) /\ Holds(w, e) => mishaps > 0

\* The limit holds but for what goes wrong: a task that dies or loses its lease
\* reports no failure, and the next claim counts on past MAX_RETRYABLE_ATTEMPTS.
\* Each attempt beyond the limit is paid for by a mishap; an event whose every
\* handler takes its process down is tried for as long as that goes on.
AttemptsAreBounded == \A e \in Event :
    row[e].attempts <= MaxAttempts + mishaps

\* A row is processed only if a handler finished the work since the row was
\* inserted: no path marks work as done that nobody did.
ProcessedWasPerformed == \A e \in Event :
    row[e].status = "processed" => e \in performed

\* A finished row never changes again until retention deletes it: no enqueue
\* revives it, no late task rewrites its outcome.
OutcomeIsFinal == [][\A e \in Event :
    row[e].status \in Finished => row'[e] = row[e] \/ row'[e] = NoRow]_vars

\* A row is dead-lettered only from the last permitted attempt or by an error
\* that no retry can mend, and by the task the row is leased to.
DeadLetterIsEarned == [][\A e \in Event :
    row[e].status # "dead_letter" /\ row'[e].status = "dead_letter" =>
        \E w \in Worker :
            /\ row[e].owner = w /\ Holds(w, e)
            /\ task[w].verdict = "permanent" \/ row[e].attempts >= MaxAttempts]_vars

\* Stranded work is reclaimed: an event in the outbox is eventually processed,
\* dead-lettered or deleted by retention, however its handlers fail.
NothingIsStranded == \A e \in Event :
    row[e].status \in {"pending", "processing"} ~>
        row[e].status \in Finished \cup {"absent"}

(* The outbox keeps the promise of DurableWork.                            *)
AbstractState(e) ==
    CASE row[e].status \in {"pending", "processing"} -> "owed"
      [] row[e].status = "processed" -> "done"
      [] row[e].status = "dead_letter" -> "abandoned"
      [] OTHER -> "absent"

Promise == INSTANCE DurableWork WITH
    state <- [e \in Event |-> AbstractState(e)]

\* The outbox is an at-least-once queue: it implements DurableWork, including
\* that whatever is owed is eventually settled, given up or forgotten.
KeepsPromise == Promise!Spec
=============================================================================
