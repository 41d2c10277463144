---------------------------- MODULE PlusAccount ----------------------------
(***************************************************************************)
(* What an account is to its owner, with no webhook, transaction, request  *)
(* or crash in sight. A Checkout session is granted once, and at the same  *)
(* time as what it buys. Credits come from nowhere else and are spent down *)
(* to zero. The account is subscribed to what a granted session started,   *)
(* and only a grant or a standing subscription turns Plus on.              *)
(*                                                                         *)
(* Billing.tla implements this specification.                              *)
(***************************************************************************)
EXTENDS Naturals

CONSTANTS
    Session,        \* Checkout sessions of the account
    SubOf,          \* the subscription a session starts, if it starts one
    NoSub

VARIABLES
    granted,        \* what each session was granted as
    balance,        \* file credits to spend
    plus,           \* Plus is on
    subscription    \* the subscription it depends on

vars == <<granted, balance, plus, subscription>>

Init ==
    /\ granted = [x \in Session |-> "none"]
    /\ balance = 0
    /\ ~plus
    /\ subscription = NoSub

Grant(x, product) ==
    /\ granted[x] = "none"
    /\ granted' = [granted EXCEPT ![x] = product]

GrantPlus(x) ==
    /\ Grant(x, "plus")
    /\ plus' = TRUE
    /\ \/ UNCHANGED subscription
       \/ x \in DOMAIN SubOf /\ subscription' = SubOf[x]
    /\ UNCHANGED balance

GrantCredit(x) ==
    /\ Grant(x, "file")
    /\ balance' = balance + 1
    /\ UNCHANGED <<plus, subscription>>

GrantFounder(x) ==
    /\ Grant(x, "founder")
    /\ UNCHANGED <<balance, plus, subscription>>

Spend ==
    /\ balance > 0
    /\ balance' = balance - 1
    /\ UNCHANGED <<granted, plus, subscription>>

Suspend ==
    /\ plus' = FALSE
    /\ UNCHANGED <<granted, balance, subscription>>

Resume ==
    /\ subscription # NoSub
    /\ plus' = TRUE
    /\ UNCHANGED <<granted, balance, subscription>>

Next ==
    \/ \E x \in Session : GrantPlus(x) \/ GrantCredit(x) \/ GrantFounder(x)
    \/ Spend \/ Suspend \/ Resume

Spec == Init /\ [][Next]_vars

\* Nobody has Plus, or a subscription to bring it back, whom no session was granted
\* it: every other writer of the record only moves between what a grant allowed
\* (billingRepository.ts:272-299, 355-413).
NoPlusUngranted ==
    /\ plus => \E x \in Session : granted[x] = "plus"
    /\ subscription # NoSub =>
           \E x \in Session \cap DOMAIN SubOf :
               granted[x] = "plus" /\ subscription = SubOf[x]
=============================================================================
