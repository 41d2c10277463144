------------------------------- MODULE MCLeases -------------------------------
(* A small instance of Leases for TLC, and the schedule on many terms.     *)
EXTENDS Leases, TLC

\* From a leap year's January into March and the same days of the year after;
\* terms shorter than a month, about a month or two long, and longer.
Begins == 0..130 \cup 732..860
Lengths == {1, 30, 56, 57, 59, 62, 63, 120, 124, 300}
ManyTerms == {[start |-> s, end |-> s + n, dueDay |-> d, rent |-> 2, deposit |-> 0] :
                 s \in Begins, n \in Lengths, d \in {1, 15, 28, 29, 30, 31}}

ASSUME TermsAreBilledThroughout == \A t \in ManyTerms : BilledThroughout(t)

\* From a 31st, due on the 31st, for two months; half a month that no due day is in.
LongTerms == [start |-> 60, end |-> 182, dueDay |-> 31, rent |-> 2, deposit |-> 1]
ShortTerms == [start |-> 20, end |-> 40, dueDay |-> 5, rent |-> 2, deposit |-> 0]
OtherTerms == [start |-> 60, end |-> 182, dueDay |-> 31, rent |-> 3, deposit |-> 1]

SomeTerms == {LongTerms, ShortTerms, OtherTerms}

RequestSymmetry == Permutations(Request)
=============================================================================
