---------------------------- MODULE MCHousingAlerts ----------------------------
(* Small instance of HousingAlerts for TLC: a price drop and a further drop of *)
(* the same listing, seen by one watch that is interested in both.             *)
EXTENDS HousingAlerts, TLC

CONSTANTS e1, e2, drop, fall, priceOfHome

TwoDrops == [e \in Event |-> IF e = e2 THEN fall ELSE drop]
OneTopic == [c \in Change |-> priceOfHome]
InterestedInAll == [w \in Watch |-> Change]
SweeperSymmetry == Permutations(Sweeper)
AllDaily == [d \in Digester |-> "daily"]
=============================================================================
