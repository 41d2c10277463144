----------------------- MODULE ModerationOutboxProofs -----------------------
(***************************************************************************)
(* Theorems about ModerationOutbox, for any set of events and tasks, any   *)
(* attempt limit and any number of mishaps.                                *)
(*                                                                         *)
(* The inductive invariant OutboxInv relates the two halves of a lease,    *)
(* the row and the task that holds it:                                     *)
(*   - a row has an owner exactly while it is processing, and a timer only *)
(*     while it is pending or processing;                                  *)
(*   - a task that is not idle holds an event, and one that is settling    *)
(*     has its handler's verdict;                                          *)
(*   - while the row still names the task, the attempt count the task was  *)
(*     handed is the row's, and an "ok" verdict means performed work;      *)
(*   - until something goes wrong, every holder's lease is alive;          *)
(*   - a pending row has an attempt left, and a processing row no task     *)
(*     attends has had its mishap, which pays for the next attempt.        *)
(***************************************************************************)
EXTENDS ModerationOutbox, TLAPS

RowInv == \A e \in Event :
    /\ row[e].status = "processing" <=> row[e].owner # NoWorker
    /\ row[e].status \notin {"pending", "processing"} => row[e].timer = 0

HolderInv == \A w \in Worker : task[w].pc # "idle" =>
    /\ task[w].event \in Event
    /\ task[w].pc = "settling" => task[w].verdict \in Verdict

VerdictInv == \A w \in Worker, e \in Event :
    /\ Holds(w, e) /\ row[e].owner = w
    /\ task[w].pc = "settling" /\ task[w].verdict = "ok"
    => e \in performed

CurrentInv == \A w \in Worker, e \in Event :
    Holds(w, e) /\ row[e].owner = w => task[w].attempts = row[e].attempts

CalmInv == mishaps = 0 => \A w \in Worker : task[w].pc # "idle" =>
    OwnsLease(w, task[w].event) /\ ~task[w].lost

LimitInv == \A e \in Event :
    /\ row[e].status = "pending" => row[e].attempts < MaxAttempts
    /\ row[e].attempts <= MaxAttempts + mishaps
    /\ row[e].status = "processing" /\ ~Attended(e) =>
          row[e].attempts < MaxAttempts + mishaps

PerformedInv == \A e \in Event :
    /\ e \in performed => Exists(e)
    /\ row[e].status = "processed" => e \in performed

OutboxInv ==
    /\ TypeOK
    /\ RowInv
    /\ HolderInv
    /\ VerdictInv
    /\ CurrentInv
    /\ CalmInv
    /\ PerformedInv

-----------------------------------------------------------------------------
(* Facts the steps below share.                                            *)

\* A failed attempt's delay is one the timer can hold.
LEMMA BackoffType ==
    ASSUME NEW n \in Nat
    PROVE  Backoff(n) \in Nat
BY BoundAssumption DEF Backoff

\* A task that is not idle has exactly one event in its hands.
LEMMA HolderHasEvent ==
    ASSUME OutboxInv, NEW w \in Worker, task[w].pc # "idle"
    PROVE  task[w].event \in Event /\ Holds(w, task[w].event)
BY DEF OutboxInv, HolderInv, Holds

-----------------------------------------------------------------------------
(* The invariant is inductive.                                             *)

\* An empty table and idle tasks satisfy it.
LEMMA OutboxInvInit == Init => OutboxInv
<1> SUFFICES ASSUME Init PROVE OutboxInv
  OBVIOUS
<1> USE NullAssumption, BoundAssumption DEF Init, NoRow, Idle
<1>1. TypeOK BY DEF TypeOK, Row, Task, Status
<1>2. RowInv BY DEF RowInv
<1>3. HolderInv /\ VerdictInv /\ CurrentInv
  BY DEF HolderInv, VerdictInv, CurrentInv, Holds
<1>4. CalmInv BY DEF CalmInv
<1>5. PerformedInv BY DEF PerformedInv, Exists
<1> QED BY <1>1, <1>2, <1>3, <1>4, <1>5 DEF OutboxInv

\* Every action keeps it.
LEMMA OutboxInvStep == OutboxInv /\ [Next]_vars => OutboxInv'
<1> SUFFICES ASSUME OutboxInv, [Next]_vars PROVE OutboxInv'
  OBVIOUS
<1> USE NullAssumption, BoundAssumption
<1> USE DEF OutboxInv, TypeOK, Row, Task, Status, Verdict,
            Holds, OwnsLease, Exists, Idle, NoRow
<1>1. ASSUME NEW e \in Event, Enqueue(e)
      PROVE  OutboxInv'
  <2>1. TypeOK' BY <1>1 DEF Enqueue
  <2>2. RowInv' BY <1>1 DEF Enqueue, RowInv
  <2>3. HolderInv' BY <1>1 DEF Enqueue, HolderInv
  <2>4. VerdictInv' BY <1>1 DEF Enqueue, HolderInv, VerdictInv, RowInv
  <2>5. CurrentInv' BY <1>1 DEF Enqueue, HolderInv, CurrentInv
  <2>6. CalmInv' BY <1>1 DEF Enqueue, HolderInv, CalmInv, RowInv
  <2>7. PerformedInv' BY <1>1 DEF Enqueue, PerformedInv, VerdictInv
  <2> QED BY <2>1, <2>2, <2>3, <2>4, <2>5, <2>6, <2>7
<1>2. ASSUME NEW w \in Worker, NEW e \in Event, Claim(w, e)
      PROVE  OutboxInv'
  <2>1. TypeOK' BY <1>2 DEF Claim, Due, OldestDue
  <2>2. RowInv' BY <1>2 DEF Claim, Due, OldestDue, RowInv
  <2>3. HolderInv' BY <1>2 DEF Claim, Due, OldestDue, HolderInv
  <2>4. VerdictInv' BY <1>2 DEF Claim, Due, OldestDue, HolderInv, VerdictInv, RowInv
  <2>5. CurrentInv' BY <1>2 DEF Claim, Due, OldestDue, HolderInv, CurrentInv
  <2>6. CalmInv' BY <1>2 DEF Claim, Due, OldestDue, HolderInv, CalmInv, RowInv
  <2>7. PerformedInv' BY <1>2 DEF Claim, Due, OldestDue, PerformedInv, VerdictInv
  <2> QED BY <2>1, <2>2, <2>3, <2>4, <2>5, <2>6, <2>7
<1>3. ASSUME NEW w \in Worker, Renew(w)
      PROVE  OutboxInv'
  <2>0. task[w].event \in Event BY <1>3, HolderHasEvent DEF Renew
  <2>a. /\ \A x \in Worker :
             /\ task'[x].pc = task[x].pc /\ task'[x].event = task[x].event
             /\ task'[x].verdict = task[x].verdict
             /\ task'[x].attempts = task[x].attempts
        /\ \A e \in Event :
             /\ row'[e].status = row[e].status /\ row'[e].owner = row[e].owner
             /\ row'[e].attempts = row[e].attempts
             /\ row'[e].timer # row[e].timer => row[e].status = "processing"
    <3>1. CASE OwnsLease(w, task[w].event)
      <4>1. task' = task /\ row' = [row EXCEPT ![task[w].event].timer = LeaseTicks]
        BY <1>3, <3>1 DEF Renew
      <4>2. \A e \in Event : e # task[w].event => row'[e] = row[e]
        BY <4>1, <2>0
      <4>3. row'[task[w].event] = [row[task[w].event] EXCEPT !.timer = LeaseTicks]
        BY <4>1, <2>0
      <4> QED BY <3>1, <4>1, <4>2, <4>3, <2>0
    <3>2. CASE ~OwnsLease(w, task[w].event)
      <4>1. row' = row /\ task' = [task EXCEPT ![w].lost = TRUE]
        BY <1>3, <3>2 DEF Renew
      <4> QED BY <4>1
    <3> QED BY <3>1, <3>2
  <2>1. TypeOK'
    <3>1. row' \in [Event -> Row] BY <1>3, <2>0 DEF Renew
    <3>2. [task[w] EXCEPT !.lost = TRUE] \in Task BY <1>3, <2>0 DEF Renew
    <3>3. task' \in [Worker -> Task] BY <3>2, <1>3, <2>0 DEF Renew
    <3> QED BY <3>1, <3>3, <1>3, <2>0 DEF Renew
  <2>2. RowInv' BY <2>a DEF RowInv
  <2>3. HolderInv'
    <3>1. \A x \in Worker : task'[x].pc # "idle" =>
             /\ task'[x].event \in Event
             /\ task'[x].pc = "settling" => task'[x].verdict \in Verdict
      BY <2>a, Zenon DEF HolderInv
    <3> QED BY <3>1 DEF HolderInv
  <2>4. VerdictInv' BY <1>3, <2>0, <2>a DEF Renew, VerdictInv
  <2>5. CurrentInv' BY <1>3, <2>0, <2>a DEF CurrentInv
  <2>6. CalmInv'
    <3>1. CASE mishaps = 0
      <4>1. OwnsLease(w, task[w].event)
        BY <1>3, <3>1 DEF Renew, CalmInv
      <4>2. task' = task /\ row' = [row EXCEPT ![task[w].event].timer = LeaseTicks]
        BY <1>3, <4>1 DEF Renew
      <4> QED BY <3>1, <4>2, <2>0 DEF CalmInv, HolderInv
    <3>2. CASE mishaps # 0 BY <1>3, <3>2 DEF Renew, CalmInv
    <3> QED BY <3>1, <3>2
  <2>b. performed' = performed BY <1>3 DEF Renew
  <2>7. PerformedInv' BY <2>a, <2>b DEF PerformedInv
  <2> QED BY <2>1, <2>2, <2>3, <2>4, <2>5, <2>6, <2>7
<1>4. ASSUME NEW w \in Worker, RenewalFails(w)
      PROVE  OutboxInv'
  <2>0. task[w].event \in Event BY <1>4, HolderHasEvent DEF RenewalFails
  <2>1. TypeOK'
    <3>1. [task[w] EXCEPT !.lost = TRUE] \in Task BY <1>4, <2>0 DEF RenewalFails
    <3>2. task' \in [Worker -> Task] BY <3>1, <1>4, <2>0 DEF RenewalFails
    <3> QED BY <3>2, <1>4, <2>0 DEF RenewalFails, Mishap
  <2>2. RowInv' BY <1>4, <2>0 DEF RenewalFails, Mishap, RowInv
  <2>3. HolderInv' BY <1>4, <2>0 DEF RenewalFails, Mishap, HolderInv
  <2>4. VerdictInv' BY <1>4, <2>0 DEF RenewalFails, Mishap, HolderInv, VerdictInv, RowInv
  <2>5. CurrentInv' BY <1>4, <2>0 DEF RenewalFails, Mishap, HolderInv, CurrentInv
  <2>6. CalmInv' BY <1>4, <2>0 DEF RenewalFails, Mishap, HolderInv, CalmInv, RowInv
  <2>7. PerformedInv' BY <1>4, <2>0 DEF RenewalFails, Mishap, PerformedInv, VerdictInv
  <2> QED BY <2>1, <2>2, <2>3, <2>4, <2>5, <2>6, <2>7
<1>5. ASSUME NEW w \in Worker, NEW v \in Verdict, HandlerReturns(w, v)
      PROVE  OutboxInv'
  <2>0. task[w].event \in Event BY <1>5, HolderHasEvent DEF HandlerReturns
  <2>1. TypeOK'
    <3>1. [task[w] EXCEPT !.pc = "settling", !.verdict = v] \in Task
      BY <1>5, <2>0 DEF HandlerReturns
    <3>2. task' \in [Worker -> Task] BY <3>1, <1>5, <2>0 DEF HandlerReturns
    <3> QED BY <3>2, <1>5, <2>0 DEF HandlerReturns
  <2>2. RowInv' BY <1>5, <2>0 DEF HandlerReturns, RowInv
  <2>3. HolderInv' BY <1>5, <2>0 DEF HandlerReturns, HolderInv
  <2>4. VerdictInv' BY <1>5, <2>0 DEF HandlerReturns, HolderInv, VerdictInv, RowInv
  <2>5. CurrentInv' BY <1>5, <2>0 DEF HandlerReturns, HolderInv, CurrentInv
  <2>6. CalmInv' BY <1>5, <2>0 DEF HandlerReturns, HolderInv, CalmInv, RowInv
  <2>7. PerformedInv' BY <1>5, <2>0 DEF HandlerReturns, PerformedInv, VerdictInv
  <2> QED BY <2>1, <2>2, <2>3, <2>4, <2>5, <2>6, <2>7
<1>6. ASSUME NEW w \in Worker, Complete(w)
      PROVE  OutboxInv'
  <2>0. task[w].event \in Event BY <1>6, HolderHasEvent DEF Complete
  <2>1. TypeOK' BY <1>6, <2>0 DEF Complete
  <2>2. RowInv' BY <1>6, <2>0 DEF Complete, RowInv
  <2>3. HolderInv' BY <1>6, <2>0 DEF Complete, HolderInv
  <2>4. VerdictInv' BY <1>6, <2>0 DEF Complete, HolderInv, VerdictInv, RowInv
  <2>5. CurrentInv' BY <1>6, <2>0 DEF Complete, HolderInv, CurrentInv
  <2>6. CalmInv' BY <1>6, <2>0 DEF Complete, HolderInv, CalmInv, RowInv
  <2>7. PerformedInv' BY <1>6, <2>0 DEF Complete, PerformedInv, VerdictInv
  <2> QED BY <2>1, <2>2, <2>3, <2>4, <2>5, <2>6, <2>7
<1>7. ASSUME NEW w \in Worker, Release(w)
      PROVE  OutboxInv'
  <2>0. task[w].event \in Event BY <1>7, HolderHasEvent DEF Release
  <2>b. Backoff(task[w].attempts) \in Nat BY <1>7, BackoffType
  <2>1. TypeOK' BY <1>7, <2>0, <2>b DEF Release, DeadLetters
  <2>2. RowInv' BY <1>7, <2>0 DEF Release, DeadLetters, RowInv
  <2>3. HolderInv' BY <1>7, <2>0 DEF Release, DeadLetters, HolderInv
  <2>4. VerdictInv' BY <1>7, <2>0 DEF Release, DeadLetters, HolderInv, VerdictInv, RowInv
  <2>5. CurrentInv' BY <1>7, <2>0 DEF Release, DeadLetters, HolderInv, CurrentInv
  <2>6. CalmInv' BY <1>7, <2>0 DEF Release, DeadLetters, HolderInv, CalmInv, RowInv
  <2>7. PerformedInv' BY <1>7, <2>0 DEF Release, DeadLetters, PerformedInv, VerdictInv
  <2> QED BY <2>1, <2>2, <2>3, <2>4, <2>5, <2>6, <2>7
<1>8. ASSUME NEW w \in Worker, WalkAway(w)
      PROVE  OutboxInv'
  <2>1. TypeOK' BY <1>8 DEF WalkAway
  <2>2. RowInv' BY <1>8 DEF WalkAway, RowInv
  <2>3. HolderInv' BY <1>8 DEF WalkAway, HolderInv
  <2>4. VerdictInv' BY <1>8 DEF WalkAway, HolderInv, VerdictInv, RowInv
  <2>5. CurrentInv' BY <1>8 DEF WalkAway, HolderInv, CurrentInv
  <2>6. CalmInv' BY <1>8 DEF WalkAway, HolderInv, CalmInv, RowInv
  <2>7. PerformedInv' BY <1>8 DEF WalkAway, PerformedInv, VerdictInv
  <2> QED BY <2>1, <2>2, <2>3, <2>4, <2>5, <2>6, <2>7
<1>9. ASSUME NEW w \in Worker, Crash(w)
      PROVE  OutboxInv'
  <2>1. TypeOK' BY <1>9 DEF Crash, Mishap
  <2>2. RowInv' BY <1>9 DEF Crash, Mishap, RowInv
  <2>3. HolderInv' BY <1>9 DEF Crash, Mishap, HolderInv
  <2>4. VerdictInv' BY <1>9 DEF Crash, Mishap, HolderInv, VerdictInv, RowInv
  <2>5. CurrentInv' BY <1>9 DEF Crash, Mishap, HolderInv, CurrentInv
  <2>6. CalmInv' BY <1>9 DEF Crash, Mishap, HolderInv, CalmInv, RowInv
  <2>7. PerformedInv' BY <1>9 DEF Crash, Mishap, PerformedInv, VerdictInv
  <2> QED BY <2>1, <2>2, <2>3, <2>4, <2>5, <2>6, <2>7
<1>10. ASSUME NEW w \in Worker, Stop(w)
      PROVE  OutboxInv'
  BY <1>10 DEF Stop, RowInv, HolderInv, VerdictInv, CurrentInv,
              CalmInv, PerformedInv
<1>11. ASSUME NEW w \in Worker, Start(w)
      PROVE  OutboxInv'
  BY <1>11 DEF Start, RowInv, HolderInv, VerdictInv, CurrentInv,
              CalmInv, PerformedInv
<1>12. ASSUME NEW e \in Event, TimePasses(e)
      PROVE  OutboxInv'
  <2>1. TypeOK' BY <1>12 DEF TimePasses, Mishap, Attended
  <2>2. RowInv' BY <1>12 DEF TimePasses, Mishap, Attended, RowInv
  <2>3. HolderInv' BY <1>12 DEF TimePasses, Mishap, Attended, HolderInv
  <2>4. VerdictInv' BY <1>12 DEF TimePasses, Mishap, Attended, HolderInv, VerdictInv, RowInv
  <2>5. CurrentInv' BY <1>12 DEF TimePasses, Mishap, Attended, HolderInv, CurrentInv
  <2>6. CalmInv' BY <1>12 DEF TimePasses, Mishap, Attended, HolderInv, CalmInv, RowInv
  <2>7. PerformedInv' BY <1>12 DEF TimePasses, Mishap, Attended, PerformedInv, VerdictInv
  <2> QED BY <2>1, <2>2, <2>3, <2>4, <2>5, <2>6, <2>7
<1>13. ASSUME NEW e \in Event, Sweep(e)
      PROVE  OutboxInv'
  <2>1. TypeOK' BY <1>13 DEF Sweep, Mishap, Finished
  <2>2. RowInv' BY <1>13 DEF Sweep, Mishap, Finished, RowInv
  <2>3. HolderInv' BY <1>13 DEF Sweep, Mishap, Finished, HolderInv
  <2>4. VerdictInv' BY <1>13 DEF Sweep, Mishap, Finished, HolderInv, VerdictInv, RowInv
  <2>5. CurrentInv' BY <1>13 DEF Sweep, Mishap, Finished, HolderInv, CurrentInv
  <2>6. CalmInv' BY <1>13 DEF Sweep, Mishap, Finished, HolderInv, CalmInv, RowInv
  <2>7. PerformedInv' BY <1>13 DEF Sweep, Mishap, Finished, PerformedInv, VerdictInv
  <2> QED BY <2>1, <2>2, <2>3, <2>4, <2>5, <2>6, <2>7
<1>14. CASE UNCHANGED vars
  BY <1>14 DEF vars, RowInv, HolderInv, VerdictInv, CurrentInv, CalmInv, PerformedInv
<1> QED
  BY <1>1, <1>2, <1>3, <1>4, <1>5, <1>6, <1>7, <1>8, <1>9, <1>10, <1>11, <1>12, <1>13, <1>14
  DEF Next

\* The limit is kept as well: only Release makes a row pending again, and it asks
\* for an attempt left; what takes a task off its row spends a mishap.
LEMMA LimitStep == OutboxInv /\ LimitInv /\ [Next]_vars => LimitInv'
<1> DEFINE Kept(g) ==
       /\ row'[g].status = "pending" => row'[g].attempts < MaxAttempts
       /\ row'[g].attempts <= MaxAttempts + mishaps'
       /\ row'[g].status = "processing" /\ ~Attended(g)' =>
             row'[g].attempts < MaxAttempts + mishaps'
<1> SUFFICES ASSUME OutboxInv, LimitInv, [Next]_vars, NEW f \in Event
             PROVE  Kept(f)
  BY DEF LimitInv
<1> USE NullAssumption, BoundAssumption
<1>t. /\ row[f].attempts \in Nat /\ mishaps \in Nat
      /\ row \in [Event -> Row] /\ task \in [Worker -> Task]
  BY DEF OutboxInv, TypeOK, Row
<1>i. /\ row[f].status = "pending" => row[f].attempts < MaxAttempts
      /\ row[f].attempts <= MaxAttempts + mishaps
      /\ row[f].status = "processing" /\ ~Attended(f) =>
            row[f].attempts < MaxAttempts + mishaps
  BY DEF LimitInv
<1>h. \A w \in Worker : task[w].pc # "idle" => task[w].event \in Event
  BY HolderHasEvent
\* A row that stays as it is, with its attendant or with a mishap more.
<1>s. ASSUME row'[f].status = row[f].status, row'[f].attempts = row[f].attempts,
             \/ mishaps' = mishaps /\ (Attended(f) => Attended(f)')
             \/ mishaps' = mishaps + 1
      PROVE  Kept(f)
  BY <1>s, <1>i, <1>t
<1>1. ASSUME NEW e \in Event, Enqueue(e) PROVE Kept(f)
  <2>1. CASE f = e BY <1>1, <2>1, <1>t DEF Enqueue, NoRow
  <2>2. CASE f # e
    <3>1. row'[f] = row[f] /\ task' = task /\ mishaps' = mishaps
      BY <1>1, <2>2, <1>t DEF Enqueue
    <3> QED BY <3>1, <1>s DEF Attended, Holds, OwnsLease
  <2> QED BY <2>1, <2>2
<1>2. ASSUME NEW w \in Worker, NEW e \in Event, Claim(w, e) PROVE Kept(f)
  <2>1. CASE f = e
    <3>1. Attended(f)'
      BY <1>2, <2>1, <1>t DEF Claim, Attended, Holds, OwnsLease
    <3>2. row'[f].status = "processing" /\ row'[f].attempts = row[f].attempts + 1
      BY <1>2, <2>1, <1>t DEF Claim
    <3>3. ~Attended(f)
      BY <1>2, <2>1 DEF Claim, OldestDue, Due, Attended, OwnsLease
    <3>4. row[f].status \in {"pending", "processing"} /\ mishaps' = mishaps
      BY <1>2, <2>1 DEF Claim, OldestDue, Due
    <3> QED BY <3>1, <3>2, <3>3, <3>4, <1>i, <1>t
  <2>2. CASE f # e
    <3>1. row'[f] = row[f] /\ mishaps' = mishaps
      BY <1>2, <2>2, <1>t DEF Claim
    <3>2. \A v \in Worker : Holds(v, f) => task'[v] = task[v]
      BY <1>2, <1>t DEF Claim, Holds
    <3>3. Attended(f) => Attended(f)'
      BY <3>1, <3>2 DEF Attended, Holds, OwnsLease
    <3> QED BY <3>1, <3>3, <1>s
  <2> QED BY <2>1, <2>2
<1>3. ASSUME NEW w \in Worker, Renew(w) PROVE Kept(f)
  <2>1. task[w].event \in Event BY <1>3, <1>h DEF Renew
  <2>2. CASE OwnsLease(w, task[w].event)
    <3>1. /\ task' = task /\ mishaps' = mishaps
          /\ row' = [row EXCEPT ![task[w].event].timer = LeaseTicks]
      BY <1>3, <2>2 DEF Renew
    <3>2. /\ row'[f].status = row[f].status /\ row'[f].owner = row[f].owner
          /\ row'[f].attempts = row[f].attempts
          /\ row[f].timer > 0 => row'[f].timer > 0
      BY <3>1, <2>1, <1>t DEF Row
    <3>3. Attended(f) => Attended(f)'
      BY <3>1, <3>2 DEF Attended, Holds, OwnsLease
    <3> QED BY <3>1, <3>2, <3>3, <1>s
  <2>3. CASE ~OwnsLease(w, task[w].event)
    <3>1. /\ row' = row /\ mishaps' = mishaps
          /\ task' = [task EXCEPT ![w].lost = TRUE]
      BY <1>3, <2>3 DEF Renew
    <3>2. \A v \in Worker : v # w => task'[v] = task[v]
      BY <3>1, <1>t
    <3>3. Attended(f) => Attended(f)'
      BY <3>1, <3>2, <2>3 DEF Attended, Holds, OwnsLease
    <3> QED BY <3>1, <3>3, <1>s
  <2> QED BY <2>2, <2>3
<1>4. ASSUME NEW w \in Worker, RenewalFails(w) \/ Crash(w) PROVE Kept(f)
  BY <1>4, <1>s DEF RenewalFails, Crash, Mishap
<1>5. ASSUME NEW w \in Worker, NEW v \in Verdict, HandlerReturns(w, v) PROVE Kept(f)
  <2>1. /\ row' = row /\ mishaps' = mishaps
        /\ task' = [task EXCEPT ![w].pc = "settling", ![w].verdict = v]
    BY <1>5 DEF HandlerReturns
  <2>2. \A x \in Worker : /\ task'[x].event = task[x].event
                          /\ task'[x].lost = task[x].lost
                          /\ task[x].pc # "idle" => task'[x].pc # "idle"
    BY <2>1, <1>t DEF Task
  <2>3. Attended(f) => Attended(f)'
    BY <2>1, <2>2 DEF Attended, Holds, OwnsLease
  <2> QED BY <2>1, <2>3, <1>s
<1>6. ASSUME NEW w \in Worker, Complete(w) \/ Release(w) PROVE Kept(f)
  <2>1. /\ task[w].event \in Event /\ OwnsLease(w, task[w].event)
        /\ Holds(w, task[w].event) /\ mishaps' = mishaps
        /\ task' = [task EXCEPT ![w] = Idle]
    BY <1>6, <1>h DEF Complete, Release, Holds
  <2>2. CASE f = task[w].event
    <3>1. CASE Complete(w)
      <4>1. row'[f].status = "processed" /\ row'[f].attempts = row[f].attempts
        BY <3>1, <2>2, <2>1, <1>t DEF Complete
      <4> QED BY <4>1, <2>1, <1>i
    <3>2. CASE Release(w)
      <4>1. /\ row'[f].status = IF DeadLetters(task[w]) THEN "dead_letter" ELSE "pending"
            /\ row'[f].attempts = row[f].attempts
        BY <3>2, <2>2, <2>1, <1>t DEF Release
      <4>2. task[w].attempts = row[f].attempts
        BY <2>1, <2>2 DEF OutboxInv, CurrentInv, OwnsLease
      <4>3. ~DeadLetters(task[w]) => row[f].attempts < MaxAttempts
        BY <4>2, <1>t DEF DeadLetters
      <4> QED BY <4>1, <4>3, <2>1, <1>i
    <3> QED BY <3>1, <3>2, <1>6
  <2>3. CASE f # task[w].event
    <3>1. row'[f] = row[f]
      BY <1>6, <2>3, <1>t DEF Complete, Release
    <3>2. \A v \in Worker : Holds(v, f) => task'[v] = task[v]
      BY <2>1, <2>3, <1>t DEF Holds
    <3>3. Attended(f) => Attended(f)'
      BY <3>1, <3>2 DEF Attended, Holds, OwnsLease
    <3> QED BY <2>1, <3>1, <3>3, <1>s
  <2> QED BY <2>2, <2>3
<1>7. ASSUME NEW w \in Worker, WalkAway(w) PROVE Kept(f)
  <2>1. /\ row' = row /\ mishaps' = mishaps /\ task' = [task EXCEPT ![w] = Idle]
        /\ task[w].lost \/ ~OwnsLease(w, task[w].event)
    BY <1>7 DEF WalkAway
  <2>2. \A v \in Worker : v # w => task'[v] = task[v]
    BY <2>1, <1>t
  <2>3. Attended(f) => Attended(f)'
    BY <2>1, <2>2 DEF Attended, Holds, OwnsLease
  <2> QED BY <2>1, <2>3, <1>s
<1>8. ASSUME NEW w \in Worker, Stop(w) \/ Start(w) PROVE Kept(f)
  BY <1>8, <1>s DEF Stop, Start, Attended, Holds, OwnsLease
<1>9. ASSUME NEW e \in Event, TimePasses(e) PROVE Kept(f)
  <2>1. task' = task /\ row' = [row EXCEPT ![e].timer = @ - 1]
    BY <1>9 DEF TimePasses
  <2>2. /\ row'[f].status = row[f].status /\ row'[f].owner = row[f].owner
        /\ row'[f].attempts = row[f].attempts
    BY <2>1, <1>t DEF Row
  <2>3. CASE row[e].timer = 1 /\ Attended(e)
    BY <1>9, <2>2, <2>3, <1>s DEF TimePasses, Mishap
  <2>4. CASE ~(row[e].timer = 1 /\ Attended(e))
    <3>1. mishaps' = mishaps BY <1>9, <2>4 DEF TimePasses, Mishap
    <3>2. f = e /\ Attended(f) => row'[f].timer > 0
      BY <1>9, <2>1, <2>4, <1>t DEF TimePasses, Row
    <3>3. f # e => row'[f] = row[f]
      BY <2>1, <1>t
    <3>4. Attended(f) => Attended(f)'
      BY <2>1, <2>2, <3>2, <3>3 DEF Attended, Holds, OwnsLease
    <3> QED BY <2>2, <3>1, <3>4, <1>s
  <2> QED BY <2>3, <2>4
<1>10. ASSUME NEW e \in Event, Sweep(e) PROVE Kept(f)
  <2>1. /\ row' = [row EXCEPT ![e] = NoRow] /\ task' = task
        /\ mishaps' \in {mishaps, mishaps + 1}
    BY <1>10 DEF Sweep, Mishap
  <2>2. CASE f = e
    <3>1. row'[f].status = "absent" /\ row'[f].attempts = 0
      BY <2>1, <2>2, <1>t DEF NoRow
    <3>2. MaxAttempts \in Nat /\ MaxAttempts # 0 /\ mishaps' \in Nat
      BY <2>1, <1>t
    <3>3. 0 < MaxAttempts
      BY <3>2
    <3>4. \A m \in Nat : 0 <= MaxAttempts + m
      BY <3>2
    <3>5. 0 <= MaxAttempts + mishaps'
      BY <3>2, <3>4
    <3> QED BY <3>1, <3>3, <3>5, Zenon
  <2>3. CASE f # e
    <3>1. row'[f] = row[f] BY <2>1, <2>3, <1>t
    <3>2. Attended(f) => Attended(f)'
      BY <2>1, <3>1 DEF Attended, Holds, OwnsLease
    <3> QED BY <2>1, <3>1, <3>2, <1>s
  <2> QED BY <2>2, <2>3
<1>11. CASE UNCHANGED vars
  BY <1>11, <1>s DEF vars, Attended, Holds, OwnsLease
<1> QED
  BY <1>1, <1>2, <1>3, <1>4, <1>5, <1>6, <1>7, <1>8, <1>9, <1>10, <1>11
  DEF Next, Verdict

\* The invariant holds in every reachable state.
THEOREM OutboxInvariant == Spec => []OutboxInv
<1>1. Init => OutboxInv BY OutboxInvInit
<1>2. OutboxInv /\ [Next]_vars => OutboxInv' BY OutboxInvStep
<1> QED BY <1>1, <1>2, PTL DEF Spec

-----------------------------------------------------------------------------
(* Safety.                                                                 *)

\* Every variable keeps its type: the columns of a row, what a task holds.
THEOREM TypeCorrect == Spec => []TypeOK
<1>1. OutboxInv => TypeOK BY DEF OutboxInv
<1> QED BY <1>1, OutboxInvariant, PTL

\* failModerationOutboxEvent decides on event.attempts, read at the claim: for
\* as long as the write it guards can succeed, that count is the row's.
THEOREM AttemptCorrect == Spec => []AttemptIsCurrent
<1>1. OutboxInv => AttemptIsCurrent
  BY DEF OutboxInv, CurrentInv, AttemptIsCurrent, OwnsLease
<1> QED BY <1>1, OutboxInvariant, PTL

\* Two tasks never handle one event at once unless a task crashed, stalled past
\* its lease, could not renew it, or retention deleted unfinished work.
THEOREM OverlapCorrect == Spec => []OverlapNeedsMishap
<1>1. OutboxInv => OverlapNeedsMishap
  <2> SUFFICES ASSUME OutboxInv,
                      NEW v \in Worker, NEW w \in Worker, NEW e \in Event,
                      v # w, Holds(v, e), Holds(w, e), ~(mishaps > 0)
               PROVE  FALSE
    BY DEF OverlapNeedsMishap
  <2>1. mishaps = 0 BY BoundAssumption DEF OutboxInv, TypeOK
  <2>2. OwnsLease(v, e) /\ OwnsLease(w, e)
    BY <2>1 DEF OutboxInv, CalmInv, Holds
  <2> QED BY <2>2 DEF OwnsLease
<1> QED BY <1>1, OutboxInvariant, PTL

\* Every attempt beyond MAX_RETRYABLE_ATTEMPTS follows a crash, a renewal that
\* failed, a lease that ran out under its task, or a row deleted unfinished.
THEOREM LimitCorrect == Spec => []AttemptsAreBounded
<1>1. Init => LimitInv
  <2>1. ASSUME Init, NEW e \in Event
        PROVE  row[e].status = "absent" /\ row[e].attempts = 0 /\ mishaps = 0
    BY <2>1 DEF Init, NoRow
  <2>2. 0 < MaxAttempts /\ 0 <= MaxAttempts + 0
    BY BoundAssumption
  <2> QED BY <2>1, <2>2 DEF LimitInv
<1>2. OutboxInv /\ LimitInv /\ [Next]_vars => LimitInv' BY LimitStep
<1>3. LimitInv => AttemptsAreBounded BY DEF LimitInv, AttemptsAreBounded
<1> QED BY <1>1, <1>2, <1>3, OutboxInvariant, PTL DEF Spec

\* completeModerationOutboxEvent never marks work done that no handler did.
THEOREM ProcessedCorrect == Spec => []ProcessedWasPerformed
<1>1. OutboxInv => ProcessedWasPerformed
  BY DEF OutboxInv, PerformedInv, ProcessedWasPerformed
<1> QED BY <1>1, OutboxInvariant, PTL

-----------------------------------------------------------------------------
(* What a step may never do.                                               *)

FinalStep == \A e \in Event :
    row[e].status \in Finished => row'[e] = row[e] \/ row'[e] = NoRow

\* One step never changes a finished row but to delete it.
LEMMA FinalStepHolds == OutboxInv /\ [Next]_vars => FinalStep
<1> SUFFICES ASSUME OutboxInv, [Next]_vars,
                    NEW f \in Event, row[f].status \in Finished
             PROVE  row'[f] = row[f] \/ row'[f] = NoRow
  BY DEF FinalStep
<1> USE DEF OutboxInv, TypeOK, Row, Finished, OwnsLease, Exists
<1>1. ASSUME NEW e \in Event, Enqueue(e) PROVE row'[f] = row[f]
  BY <1>1 DEF Enqueue
<1>2. ASSUME NEW w \in Worker, NEW e \in Event, Claim(w, e)
      PROVE  row'[f] = row[f]
  BY <1>2 DEF Claim, OldestDue, Due
<1>3. ASSUME NEW w \in Worker, Renew(w) PROVE row'[f] = row[f]
  BY <1>3 DEF Renew
<1>4. ASSUME NEW w \in Worker, Complete(w) PROVE row'[f] = row[f]
  BY <1>4 DEF Complete
<1>5. ASSUME NEW w \in Worker, Release(w) PROVE row'[f] = row[f]
  BY <1>5 DEF Release
<1>6. ASSUME NEW e \in Event, TimePasses(e) PROVE row'[f] = row[f]
  BY <1>6 DEF TimePasses, RowInv
<1>7. ASSUME NEW e \in Event, Sweep(e) PROVE row'[f] = row[f] \/ row'[f] = NoRow
  BY <1>7 DEF Sweep
<1>8. ASSUME NEW w \in Worker, NEW v \in Verdict,
             \/ HandlerReturns(w, v) \/ RenewalFails(w) \/ WalkAway(w)
             \/ Crash(w) \/ Stop(w) \/ Start(w)
      PROVE  row' = row
  BY <1>8 DEF HandlerReturns, RenewalFails, WalkAway, Crash, Stop, Start
<1>9. CASE UNCHANGED vars BY <1>9 DEF vars
<1> QED
  BY <1>1, <1>2, <1>3, <1>4, <1>5, <1>6, <1>7, <1>8, <1>9 DEF Next, Verdict

\* An outcome, once written, is never rewritten: ON CONFLICT DO NOTHING and the
\* owner check keep every producer and every late task away from it.
THEOREM OutcomeCorrect == Spec => OutcomeIsFinal
<1>1. OutboxInv /\ [Next]_vars => [FinalStep]_vars BY FinalStepHolds
<1>2. Spec => [][FinalStep]_vars BY <1>1, OutboxInvariant, PTL DEF Spec
<1> QED BY <1>2 DEF OutcomeIsFinal, FinalStep

DeadLetterStep == \A e \in Event :
    row[e].status # "dead_letter" /\ row'[e].status = "dead_letter" =>
        \E w \in Worker :
            /\ row[e].owner = w /\ Holds(w, e)
            /\ task[w].verdict = "permanent" \/ row[e].attempts >= MaxAttempts

\* One step dead-letters only what its owner was told to give up.
LEMMA DeadLetterStepHolds == OutboxInv /\ [Next]_vars => DeadLetterStep
<1> SUFFICES ASSUME OutboxInv, [Next]_vars, NEW f \in Event,
                    row[f].status # "dead_letter", row'[f].status = "dead_letter"
             PROVE  \E w \in Worker :
                /\ row[f].owner = w /\ Holds(w, f)
                /\ task[w].verdict = "permanent" \/ row[f].attempts >= MaxAttempts
  BY DEF DeadLetterStep
<1> USE DEF OutboxInv, TypeOK, Row
<1>1. ASSUME NEW e \in Event, Enqueue(e) PROVE FALSE
  BY <1>1 DEF Enqueue, NoRow
<1>2. ASSUME NEW w \in Worker, NEW e \in Event, Claim(w, e) PROVE FALSE
  BY <1>2 DEF Claim
<1>3. ASSUME NEW w \in Worker, Renew(w) PROVE FALSE
  BY <1>3 DEF Renew
<1>4. ASSUME NEW w \in Worker, Complete(w) PROVE FALSE
  BY <1>4 DEF Complete
<1>5. ASSUME NEW w \in Worker, Release(w)
      PROVE  /\ row[f].owner = w /\ Holds(w, f)
             /\ task[w].verdict = "permanent" \/ row[f].attempts >= MaxAttempts
  <2>1. task[w].event = f BY <1>5 DEF Release
  <2>2. OwnsLease(w, f) /\ Holds(w, f) /\ DeadLetters(task[w])
    BY <1>5, <2>1 DEF Release, Holds
  <2>3. task[w].attempts = row[f].attempts
    BY <2>2 DEF CurrentInv, OwnsLease
  <2>4. task[w].verdict = "permanent" \/ row[f].attempts >= MaxAttempts
    BY <2>2, <2>3, BoundAssumption DEF DeadLetters
  <2> QED BY <2>2, <2>4 DEF OwnsLease
<1>6. ASSUME NEW e \in Event, TimePasses(e) PROVE FALSE
  BY <1>6 DEF TimePasses
<1>7. ASSUME NEW e \in Event, Sweep(e) PROVE FALSE
  BY <1>7 DEF Sweep, NoRow
<1>8. ASSUME NEW w \in Worker, NEW v \in Verdict,
             \/ HandlerReturns(w, v) \/ RenewalFails(w) \/ WalkAway(w)
             \/ Crash(w) \/ Stop(w) \/ Start(w)
      PROVE  FALSE
  BY <1>8 DEF HandlerReturns, RenewalFails, WalkAway, Crash, Stop, Start
<1>9. CASE UNCHANGED vars BY <1>9 DEF vars
<1> QED
  BY <1>1, <1>2, <1>3, <1>4, <1>5, <1>6, <1>7, <1>8, <1>9 DEF Next, Verdict

\* Work stops being retried only on its last attempt or on an error no retry
\* can mend, and only by the task that still owns it.
THEOREM DeadLetterCorrect == Spec => DeadLetterIsEarned
<1>1. OutboxInv /\ [Next]_vars => [DeadLetterStep]_vars BY DeadLetterStepHolds
<1>2. Spec => [][DeadLetterStep]_vars BY <1>1, OutboxInvariant, PTL DEF Spec
<1> QED BY <1>2 DEF DeadLetterIsEarned, DeadLetterStep

-----------------------------------------------------------------------------
(* The outbox implements DurableWork.                                      *)

\* A step that leaves every row's status alone, and performs nothing, is a
\* stutter of the abstract specification.
LEMMA SameStatusStutters ==
    ASSUME \A e \in Event : row'[e].status = row[e].status,
           performed' = performed
    PROVE  UNCHANGED Promise!vars
<1>1. \A e \in Event : AbstractState(e)' = AbstractState(e)
  BY DEF AbstractState
<1> QED BY <1>1 DEF Promise!vars

\* Every step is a step of the promise, or a stutter of it.
LEMMA StepImplements == OutboxInv /\ [Next]_vars => [Promise!Next]_(Promise!vars)
<1> SUFFICES ASSUME OutboxInv, [Next]_vars
             PROVE  Promise!Next \/ UNCHANGED Promise!vars
  OBVIOUS
<1> USE DEF OutboxInv, TypeOK, Row, Status, Exists, OwnsLease
<1>1. ASSUME NEW e \in Event, Enqueue(e) PROVE Promise!Promise(e)
  BY <1>1 DEF Enqueue, NoRow, AbstractState, Promise!Promise
<1>2. ASSUME NEW w \in Worker, NEW e \in Event, Claim(w, e)
      PROVE  UNCHANGED Promise!vars
  BY <1>2 DEF Claim, OldestDue, Due, AbstractState, Promise!vars
<1>3. ASSUME NEW w \in Worker, Renew(w) PROVE UNCHANGED Promise!vars
  BY <1>3, SameStatusStutters DEF Renew
<1>4. ASSUME NEW w \in Worker, NEW v \in Verdict, HandlerReturns(w, v)
      PROVE  \/ Promise!Perform(task[w].event) \/ UNCHANGED Promise!vars
  <2>1. row' = row BY <1>4 DEF HandlerReturns
  <2>2. CASE v = "ok" /\ Exists(task[w].event)
    BY <1>4, <2>1, <2>2, HolderHasEvent
       DEF HandlerReturns, AbstractState, Promise!Perform
  <2>3. CASE ~(v = "ok" /\ Exists(task[w].event))
    BY <1>4, <2>1, <2>3, SameStatusStutters DEF HandlerReturns
  <2> QED BY <2>2, <2>3
<1>5. ASSUME NEW w \in Worker, Complete(w) PROVE Promise!Settle(task[w].event)
  <2>1. task[w].event \in Event /\ Holds(w, task[w].event)
    BY <1>5, HolderHasEvent DEF Complete
  <2>2. task[w].event \in performed BY <1>5, <2>1 DEF Complete, VerdictInv
  <2> QED BY <1>5, <2>1, <2>2 DEF Complete, AbstractState, Promise!Settle
<1>6. ASSUME NEW w \in Worker, Release(w)
      PROVE  \/ Promise!GiveUp(task[w].event) \/ UNCHANGED Promise!vars
  <2>1. task[w].event \in Event BY <1>6, HolderHasEvent DEF Release
  <2>2. CASE DeadLetters(task[w])
    BY <1>6, <2>1, <2>2 DEF Release, AbstractState, Promise!GiveUp
  <2>3. CASE ~DeadLetters(task[w])
    BY <1>6, <2>1, <2>3 DEF Release, AbstractState, Promise!vars
  <2> QED BY <2>2, <2>3
<1>7. ASSUME NEW e \in Event, TimePasses(e) PROVE UNCHANGED Promise!vars
  BY <1>7, SameStatusStutters DEF TimePasses
<1>8. ASSUME NEW e \in Event, Sweep(e) PROVE Promise!Forget(e)
  BY <1>8 DEF Sweep, NoRow, AbstractState, Promise!Forget
<1>9. ASSUME NEW w \in Worker,
             RenewalFails(w) \/ WalkAway(w) \/ Crash(w) \/ Stop(w) \/ Start(w)
      PROVE  UNCHANGED Promise!vars
  BY <1>9, SameStatusStutters DEF RenewalFails, WalkAway, Crash, Stop, Start
<1>10. CASE UNCHANGED vars BY <1>10, SameStatusStutters DEF vars
<1>11. \A w \in Worker : task[w].pc # "idle" => task[w].event \in Event
  BY HolderHasEvent
<1>12. ASSUME NEW w \in Worker, NEW v \in Verdict, HandlerReturns(w, v)
       PROVE  Promise!Next \/ UNCHANGED Promise!vars
  BY <1>12, <1>4, <1>11 DEF HandlerReturns, Promise!Next
<1>13. ASSUME NEW w \in Worker, Complete(w) \/ Release(w)
       PROVE  Promise!Next \/ UNCHANGED Promise!vars
  BY <1>13, <1>5, <1>6, <1>11 DEF Complete, Release, Promise!Next
<1> QED
  BY <1>1, <1>2, <1>3, <1>7, <1>8, <1>9, <1>10, <1>12, <1>13
  DEF Next, Promise!Next

\* Every behaviour of the outbox, with its leases, crashes and retries, is a
\* behaviour of the durable promise: at least once, and settled only if done.
THEOREM Implements == Spec => Promise!Safety
<1>1. Init => Promise!Init
  BY DEF Init, NoRow, AbstractState, Promise!Init
<1>2. OutboxInv /\ [Next]_vars => [Promise!Next]_(Promise!vars)
  BY StepImplements
<1> QED BY <1>1, <1>2, OutboxInvariant, PTL DEF Spec, Promise!Safety
=============================================================================
