---------------------------- MODULE DurableWork ----------------------------
(***************************************************************************)
(* What moderation_outbox promises to the code that writes to it and to    *)
(* the handlers it calls, with no lease, worker, clock or retry in sight.  *)
(* An event that was promised stays owed until its effect was performed    *)
(* at least once and it is settled, until it is given up for a human to    *)
(* look at, or until retention deletes it. The effect may be performed     *)
(* again and again, and even after the event was settled or given up: a    *)
(* handler has to be idempotent.                                           *)
(*                                                                         *)
(* ModerationOutbox.tla implements this specification.                     *)
(***************************************************************************)
CONSTANT Event

VARIABLES
    state,      \* "absent", "owed", "done" or "abandoned", for each event
    performed   \* events whose effect happened since they were promised

vars == <<state, performed>>

States == {"absent", "owed", "done", "abandoned"}

TypeOK ==
    /\ state \in [Event -> States]
    /\ performed \subseteq {e \in Event : state[e] # "absent"}

Init ==
    /\ state = [e \in Event |-> "absent"]
    /\ performed = {}

Promise(e) ==
    /\ state[e] = "absent"
    /\ state' = [state EXCEPT ![e] = "owed"]
    /\ UNCHANGED performed

Perform(e) ==
    /\ state[e] # "absent"
    /\ performed' = performed \cup {e}
    /\ UNCHANGED state

Settle(e) ==
    /\ state[e] = "owed"
    /\ e \in performed
    /\ state' = [state EXCEPT ![e] = "done"]
    /\ UNCHANGED performed

GiveUp(e) ==
    /\ state[e] = "owed"
    /\ state' = [state EXCEPT ![e] = "abandoned"]
    /\ UNCHANGED performed

Forget(e) ==
    /\ state[e] # "absent"
    /\ state' = [state EXCEPT ![e] = "absent"]
    /\ performed' = performed \ {e}

Next == \E e \in Event :
    Promise(e) \/ Perform(e) \/ Settle(e) \/ GiveUp(e) \/ Forget(e)

\* What is owed does not stay owed.
Resolve(e) == state[e] = "owed" /\ (Settle(e) \/ GiveUp(e) \/ Forget(e))

Safety == Init /\ [][Next]_vars

Spec ==
    /\ Safety
    /\ \A e \in Event : WF_vars(Resolve(e))
=============================================================================
