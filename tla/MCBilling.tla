------------------------------ MODULE MCBilling ------------------------------
(* Small instance of Billing for TLC: two Plus sessions with a subscription   *)
(* each; the file credits are those activated by hand.                        *)
EXTENDS Billing

CONSTANTS first, second, sub1, sub2

Products == [x \in Session |-> "plus"]
Subscriptions == [x \in PlusSession |-> IF x = first THEN sub1 ELSE sub2]
=============================================================================
