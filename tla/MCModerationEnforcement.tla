----------------------- MODULE MCModerationEnforcement -----------------------
(* Small instances of ModerationEnforcement for TLC.                       *)
EXTENDS ModerationEnforcement, TLC

\* One decision of each kind that moves the object, and one that adds a note:
\* take down, mark as contested, acquit.
Decisions == {
    [outcome |-> "violation", recommended |-> {"remove", "suspend_user"},
     severities |-> {"high"}],
    [outcome |-> "violation", recommended |-> {}, severities |-> {"low", "medium"}],
    [outcome |-> "no_violation", recommended |-> {"no_action"}, severities |-> {}]}

WorkerSymmetry == Permutations(Worker)
=============================================================================
