--------------------------- MODULE EnforcementPlan ---------------------------
(***************************************************************************)
(* enforcementPlan.ts: what Homiio will do about a decision, a pure        *)
(* function from the decision to the actions to carry out.                 *)
(*                                                                         *)
(* A plan is a set. The code's plan is a list without repetitions, and its *)
(* order does not show: at most one of its actions has an effect on the    *)
(* reported object (PlanIsSound of ModerationEnforcement).            *)
(***************************************************************************)

Action == {"restrict", "restore", "flag_for_review", "unflag",
           "manual_review", "none"}

Outcome == {"violation", "no_violation", "insufficient_context",
            "inconclusive", "escalated", "content_unavailable", "duplicate",
            "unrecognised"}

Severity == {"low", "medium", "high", "critical"}

\* RECOMMENDATION_TO_ACTION, by the action each recommendation becomes. What is
\* in none of these, a recommendation of a newer CrowdSource included, is a note
\* for a human.
Restricting == {"remove", "remove_or_restrict", "hide"}
Flagging == {"label", "allow_with_label", "age_gate", "reduce_distribution"}
Permitting == {"allow", "no_action", "no_global_effect"}

ActionFor(recommended) ==
    CASE recommended \in Restricting -> "restrict"
      [] recommended \in Flagging -> "flag_for_review"
      [] recommended \in Permitting -> "none"
      [] recommended = "restore" -> "restore"
      [] OTHER -> "manual_review"

\* withRestoreForNoViolation
WithRestoreForNoViolation(outcome, actions) ==
    IF outcome = "no_violation" THEN actions \cup {"restore"} ELSE actions

\* Faulty Collapse: an acquittal stays beside a takedown.
CollapseKeepingRestore(actions) ==
    LET kept == actions \ (IF "restrict" \in actions
                           THEN {"flag_for_review", "none"} ELSE {})
    IN  IF kept = {"none"} THEN kept ELSE kept \ {"none"}

\* collapse: a restriction absorbs what it makes moot, a restore absorbs the
\* mark it would contradict, and "none" never stands beside anything else.
Collapse(actions) ==
    LET absorbed ==
            (IF "restrict" \in actions
             THEN {"flag_for_review", "none", "restore"} ELSE {})
            \cup (IF "restore" \in actions THEN {"flag_for_review"} ELSE {})
        kept == actions \ absorbed
    IN  IF kept = {"none"} THEN kept ELSE kept \ {"none"}

\* highestSeverity and SEVERITY_FALLBACK: the worst finding decides, and the
\* worst of all goes to a human.
SeverityFallback(severities) ==
    CASE "critical" \in severities -> "manual_review"
      [] "critical" \notin severities /\ "high" \in severities -> "restrict"
      [] severities \subseteq {"low", "medium"} /\ "medium" \in severities ->
            "flag_for_review"
      [] OTHER -> "manual_review"

\* The action when nothing was recommended.
FallbackFor(outcome, severities) ==
    CASE outcome = "violation" -> SeverityFallback(severities)
      [] outcome = "no_violation" -> "restore"
      [] outcome \in {"content_unavailable", "duplicate"} -> "none"
      [] OTHER -> "manual_review"

\* planEnforcement. A decision is [outcome, recommended, severities], the last
\* two as sets.
PlanEnforcement(decision) ==
    IF decision.recommended # {}
    THEN Collapse(WithRestoreForNoViolation(decision.outcome,
             {ActionFor(r) : r \in decision.recommended}))
    ELSE {FallbackFor(decision.outcome, decision.severities)}
=============================================================================
