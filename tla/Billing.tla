------------------------------- MODULE Billing -------------------------------
(***************************************************************************)
(* Homiio Plus and file credits: one account's billing record              *)
(* (billingRepository.ts) and those that write it at the same time         *)
(* (billingController.ts): Stripe's webhook, the requests of the person,   *)
(* and the crediting transactions both of them open.                       *)
(*                                                                         *)
(* Stripe is external: it completes Checkout sessions, lives through its   *)
(* subscriptions and delivers its news in any order, again until they are  *)
(* acknowledged and possibly again after that. A request to Stripe and the *)
(* write that follows it are separate steps, and a request may die at each *)
(* of them. Accounts share nothing, so one is enough.                      *)
(*                                                                         *)
(* Left out: the time stamps nothing branches on (plus_since,              *)
(* founder_since, last_payment_at with the invoice.payment_succeeded       *)
(* handler that only sets it) and the founder flag.                        *)
(***************************************************************************)
EXTENDS Naturals, FiniteSets

CONSTANTS
    Session,        \* Checkout sessions of the account
    NoSession,
    ProductOf,      \* the product in a session's metadata
    Sub,            \* Stripe subscriptions
    SubOf,          \* the subscription a plus session starts
    NoSub,
    Call,           \* transactions of creditCheckoutSession
    Request,        \* sync, cancel and reactivate requests of the person
    Spender,        \* requests that spend a file credit
    MaxDeaths,      \* how many crediting transactions may die
    MaxMoves        \* how often Stripe or the person changes their mind

PlusSession == {x \in Session : ProductOf[x] = "plus"}

ASSUME BillingAssumption ==
    /\ IsFiniteSet(Session)
    /\ ProductOf \in [Session -> {"plus", "file", "founder"}]
    /\ SubOf \in [PlusSession -> Sub]
    /\ \A x, y \in PlusSession : SubOf[x] = SubOf[y] => x = y
    /\ NoSub \notin Sub /\ NoSession \notin Session
    /\ MaxDeaths \in Nat /\ MaxMoves \in Nat

VARIABLES
    row,        \* the billing row
    credited,   \* billing_processed_sessions: what a session was credited as
    spent,      \* file credits spent
    call,       \* crediting transactions
    req,        \* requests of the person that talk to Stripe
    spender,    \* what consumeFileCredit has read
    paid,       \* Stripe: the completed sessions
    sub,        \* Stripe: the subscriptions
    news,       \* Stripe: what there is to deliver
    acked,      \* Stripe: what was acknowledged
    deaths, moves,
    hist        \* history, in no guard

vars == <<row, credited, spent, call, req, spender, paid, sub, news, acked, deaths, moves,
          hist>>

\* canceled: plus_canceled_at is set.
Row == [exists : BOOLEAN, plusActive : BOOLEAN, canceled : BOOLEAN,
        subscription : Sub \cup {NoSub}, fileCredits : Nat]

NewRow == [exists |-> FALSE, plusActive |-> FALSE, canceled |-> FALSE,
           subscription |-> NoSub, fileCredits |-> 0]

Product == {"plus", "file", "founder"}

\* A transaction of creditCheckoutSession. by: who opened it.
CreditCall == [at : {"idle", "claimed"}, by : {"webhook", "confirm", "manual"},
               session : Session \cup {NoSession}, product : Product]

IdleCall == [at |-> "idle", by |-> "webhook", session |-> NoSession, product |-> "file"]

\* A request of the person: what it read of the row, and what it will write.
StateRequest == [at : {"idle", "read", "answered"},
                 kind : {"sync", "end", "cancel", "reactivate"},
                 subscription : Sub \cup {NoSub},
                 seenActive : BOOLEAN, seenCanceled : BOOLEAN,
                 write : {"none", "on", "off", "stamp"}]

IdleRequest == [at |-> "idle", kind |-> "sync", subscription |-> NoSub,
                seenActive |-> FALSE, seenCanceled |-> FALSE, write |-> "none"]

\* ending: cancel_at_period_end, and with it canceled_at.
StripeSub == [status : {"none", "active", "past_due", "unpaid", "canceled"},
              ending : BOOLEAN]

Trouble == [type : {"ending", "failed", "deleted"}, about : Sub]

News == [type : {"completed"}, about : Session] \cup Trouble

Completed(x) == [type |-> "completed", about |-> x]
Ending(s) == [type |-> "ending", about |-> s]
Failed(s) == [type |-> "failed", about |-> s]
Deleted(s) == [type |-> "deleted", about |-> s]

TypeOK ==
    /\ row \in Row
    /\ credited \in [Session -> Product \cup {"none"}]
    /\ spent \in Nat
    /\ call \in [Call -> CreditCall]
    /\ req \in [Request -> StateRequest]
    /\ spender \in [Spender -> {"idle", "charge"}]
    /\ paid \subseteq Session
    /\ sub \in [Sub -> StripeSub]
    /\ news \subseteq News /\ acked \subseteq news
    /\ deaths \in 0..MaxDeaths /\ moves \in 0..MaxMoves
    /\ hist \in [recorded : SUBSET PlusSession, revived : SUBSET Sub, stale : SUBSET Sub]

Init ==
    /\ row = NewRow
    /\ credited = [x \in Session |-> "none"]
    /\ spent = 0
    /\ call = [p \in Call |-> IdleCall]
    /\ req = [h \in Request |-> IdleRequest]
    /\ spender = [c \in Spender |-> "idle"]
    /\ paid = {}
    /\ sub = [s \in Sub |-> [status |-> "none", ending |-> FALSE]]
    /\ news = {} /\ acked = {}
    /\ deaths = 0 /\ moves = 0
    /\ hist = [recorded |-> {}, revived |-> {}, stale |-> {}]

-----------------------------------------------------------------------------
(***************************************************************************)
(* Stripe.                                                                 *)
(***************************************************************************)
stripe == <<paid, sub, news, acked>>
ours == <<row, credited, spent, call, req, spender, deaths, hist>>

Move == moves < MaxMoves /\ moves' = moves + 1

\* News that is sent again is not acknowledged any more.
Send(message) == news' = news \cup {message} /\ acked' = acked \ {message}

SetSub(s, status, ending) ==
    sub' = [sub EXCEPT ![s] = [status |-> status, ending |-> ending]]

\* The person pays a session of createCheckoutSession.
CompleteSession(x) ==
    /\ x \notin paid
    /\ paid' = paid \cup {x}
    /\ IF x \in PlusSession THEN SetSub(SubOf[x], "active", FALSE) ELSE UNCHANGED sub
    /\ Send(Completed(x))
    /\ UNCHANGED <<ours, moves>>

\* In the customer portal the person schedules the end and takes it back.
ScheduleEnd(s) ==
    /\ sub[s].status = "active" /\ ~sub[s].ending
    /\ SetSub(s, "active", TRUE)
    /\ Send(Ending(s))
    /\ Move
    /\ UNCHANGED <<paid, ours>>

Resume(s) ==
    /\ sub[s].status = "active" /\ sub[s].ending
    /\ SetSub(s, "active", FALSE)
    /\ Move
    /\ UNCHANGED <<paid, news, acked, ours>>

InvoiceFails(s) ==
    /\ sub[s].status = "active"
    /\ SetSub(s, "past_due", sub[s].ending)
    /\ Send(Failed(s))
    /\ Move
    /\ UNCHANGED <<paid, ours>>

\* A retried payment goes through, or Stripe gives the invoice up.
InvoiceSettles(s, status) ==
    /\ sub[s].status = "past_due"
    /\ SetSub(s, status, sub[s].ending)
    /\ Move
    /\ UNCHANGED <<paid, news, acked, ours>>

SubscriptionEnds(s) ==
    /\ sub[s].ending \/ sub[s].status \in {"past_due", "unpaid"}
    /\ sub[s].status # "canceled"
    /\ SetSub(s, "canceled", sub[s].ending)
    /\ Send(Deleted(s))
    /\ Move
    /\ UNCHANGED <<paid, ours>>

-----------------------------------------------------------------------------
(***************************************************************************)
(* Crediting a session: creditCheckoutSession and its three callers.       *)
(***************************************************************************)

\* Faulty Unclaimed: a read instead of a claim.
UnclaimedWhenRead(x) == credited[x] = "none"

\* claimStripeSession waits for a claim that is not committed and takes nothing
\* that is.
Unclaimed(x) ==
    /\ credited[x] = "none"
    /\ \A q \in Call : ~(call[q].at = "claimed" /\ call[q].session = x)

SetCall(p, c) == call' = [call EXCEPT ![p] = c]

Claim(p, by, x, product) ==
    /\ call[p].at = "idle"
    /\ Unclaimed(x)
    /\ SetCall(p, [at |-> "claimed", by |-> by, session |-> x, product |-> product])
    /\ UNCHANGED <<row, credited, spent, req, spender, deaths, hist, stripe, moves>>

\* stripeWebhook: checkout.session.completed, for the first time or again.
DeliverCompleted(p, x) == Completed(x) \in news /\ Claim(p, "webhook", x, ProductOf[x])

DeliverAgain(x) ==
    /\ Completed(x) \in news /\ credited[x] # "none"
    /\ acked' = acked \cup {Completed(x)}
    /\ UNCHANGED <<paid, sub, news, ours, moves>>

\* confirmCheckoutSession
Confirm(p, x) == x \in paid /\ Claim(p, "confirm", x, ProductOf[x])

\* manuallyActivateSubscription: it asks for no evidence of Stripe.
ActivateManually(p, x, product) == Claim(p, "manual", x, product)

\* The subscription id the caller carries.
IdOf(c) ==
    IF c.by # "manual" /\ c.session \in PlusSession THEN SubOf[c.session] ELSE NoSub

\* Faulty RecordedId: an id that is absent is written too.
RecordedIdOrNull(c) == IdOf(c)

\* setPlusActive leaves the stored id alone when the caller carries none.
RecordedId(c) == IF IdOf(c) = NoSub THEN row.subscription ELSE IdOf(c)

\* The row after ensureBilling and then setPlusActive, addFileCredits or
\* updateBilling with the founder's columns.
Bought(c) ==
    IF c.product = "plus"
    THEN [exists |-> TRUE, plusActive |-> TRUE, canceled |-> FALSE,
          subscription |-> RecordedId(c), fileCredits |-> row.fileCredits]
    ELSE [exists |-> TRUE, plusActive |-> row.plusActive, canceled |-> row.canceled,
          subscription |-> row.subscription,
          fileCredits |-> IF c.product = "file" THEN row.fileCredits + 1
                          ELSE row.fileCredits]

\* The transaction commits: the claim and what it buys. The answer of a webhook may
\* be lost. History: which subscriptions were recorded, and which one was on when
\* Plus was given without one.
CommitCredit(p, answered) ==
    LET c == call[p]
        plus == c.product = "plus"
    IN  /\ c.at = "claimed"
        /\ row' = Bought(c)
        /\ credited' = [credited EXCEPT ![c.session] = c.product]
        /\ SetCall(p, IdleCall)
        /\ acked' = IF c.by = "webhook" /\ answered
                    THEN acked \cup {Completed(c.session)} ELSE acked
        /\ hist' = [recorded |-> IF plus /\ IdOf(c) # NoSub
                                 THEN hist.recorded \cup {c.session} ELSE hist.recorded,
                    revived |-> IF plus /\ IdOf(c) = NoSub
                                THEN hist.revived \cup ({row.subscription} \cap Sub)
                                ELSE hist.revived,
                    stale |-> hist.stale]
        /\ UNCHANGED <<spent, req, spender, paid, sub, news, deaths, moves>>

\* Faulty CallDies: a handler that failed is answered like one that returned.
CallDiesQuietly(p) ==
    /\ call[p].at # "idle" /\ deaths < MaxDeaths
    /\ deaths' = deaths + 1
    /\ acked' = acked \cup (IF call[p].by = "webhook" THEN {Completed(call[p].session)}
                            ELSE {})
    /\ SetCall(p, IdleCall)
    /\ UNCHANGED <<row, credited, spent, req, spender, paid, sub, news, hist, moves>>

\* The transaction fails or its process dies before the commit: Stripe gets a 500
\* or no answer.
CallDies(p) ==
    /\ call[p].at # "idle" /\ deaths < MaxDeaths
    /\ deaths' = deaths + 1
    /\ SetCall(p, IdleCall)
    /\ UNCHANGED <<row, credited, spent, req, spender, hist, stripe, moves>>

-----------------------------------------------------------------------------
(***************************************************************************)
(* The state of the subscription.                                          *)
(***************************************************************************)
SetRow(active, canceled) ==
    row' = [exists |-> row.exists, plusActive |-> active, canceled |-> canceled,
            subscription |-> row.subscription, fileCredits |-> row.fileCredits]

\* Faulty Concerns: the account is looked up, not the subscription.
ConcernsAccount(message) == row.subscription # NoSub

\* The WHERE of deactivateSubscriptionByStripeId.
Concerns(message) == row.subscription = message.about

\* stripeWebhook: customer.subscription.updated with a scheduled end,
\* customer.subscription.deleted and invoice.payment_failed. The answer may be
\* lost. History: an end that is acknowledged while the row names another
\* subscription, or while a request about it is under way.
DeliverTrouble(message, answered) ==
    /\ message \in news \cap Trouble
    /\ IF Concerns(message) THEN SetRow(FALSE, TRUE) ELSE UNCHANGED row
    /\ acked' = IF answered THEN acked \cup {message} ELSE acked
    /\ LET s == message.about
           overtaken == \/ row.subscription # s
                        \/ \E h \in Request : req[h].at # "idle" /\ req[h].subscription = s
       IN  hist' = [recorded |-> hist.recorded,
                    revived |-> IF answered /\ message = Deleted(s) /\ overtaken
                                THEN hist.revived \cup {s} ELSE hist.revived,
                    stale |-> hist.stale]
    /\ UNCHANGED <<credited, spent, call, req, spender, paid, sub, news, deaths, moves>>

SetReq(h, r) == req' = [req EXCEPT ![h] = r]

\* syncSubscriptionStatus, cancelSubscription and reactivateSubscription find the
\* record and its subscription.
ReadRow(h, kind) ==
    /\ req[h].at = "idle"
    /\ row.exists /\ row.subscription # NoSub
    /\ SetReq(h, [at |-> "read", kind |-> kind, subscription |-> row.subscription,
                  seenActive |-> row.plusActive, seenCanceled |-> row.canceled,
                  write |-> "none"])
    /\ Move
    /\ UNCHANGED <<row, credited, spent, call, spender, deaths, hist, stripe>>

\* From here on a request only needs what it will write.
Answered(r, write) ==
    [at |-> "answered", kind |-> "sync", subscription |-> r.subscription,
     seenActive |-> FALSE, seenCanceled |-> FALSE, write |-> write]

\* Faulty SyncWrite: whatever Stripe has not ended is active.
SyncWriteUnlessEnded(r, s) ==
    IF sub[s].ending \/ sub[s].status = "unpaid" THEN "off" ELSE "on"

\* What sync makes of a subscription.
SyncWrite(r, s) ==
    LET asOn == r.seenActive /\ ~r.seenCanceled
        asOff == ~r.seenActive /\ r.seenCanceled
    IN  IF sub[s].ending \/ sub[s].status \in {"canceled", "unpaid"}
        THEN IF asOff THEN "none" ELSE "off"
        ELSE IF sub[s].status = "active" /\ ~asOn THEN "on" ELSE "none"

\* subscriptions.retrieve
AskSync(h) ==
    /\ req[h].at = "read" /\ req[h].kind = "sync"
    /\ SetReq(h, Answered(req[h], SyncWrite(req[h], req[h].subscription)))
    /\ UNCHANGED <<row, credited, spent, call, spender, deaths, hist, stripe, moves>>

\* subscriptions.cancel, for an immediate end. A canceled subscription is refused.
AskEnd(h) ==
    LET s == req[h].subscription IN
    /\ req[h].at = "read" /\ req[h].kind = "end"
    /\ sub[s].status # "canceled"
    /\ SetSub(s, "canceled", sub[s].ending)
    /\ Send(Deleted(s))
    /\ SetReq(h, Answered(req[h], "off"))
    /\ UNCHANGED <<row, credited, spent, call, spender, paid, deaths, hist, moves>>

\* subscriptions.update with cancel_at_period_end.
AskCancel(h) ==
    LET s == req[h].subscription IN
    /\ req[h].at = "read" /\ req[h].kind = "cancel"
    /\ sub[s].status # "canceled"
    /\ SetSub(s, sub[s].status, TRUE)
    /\ Send(Ending(s))
    /\ SetReq(h, Answered(req[h], "stamp"))
    /\ UNCHANGED <<row, credited, spent, call, spender, paid, deaths, hist, moves>>

AskReactivate(h) ==
    LET s == req[h].subscription IN
    /\ req[h].at = "read" /\ req[h].kind = "reactivate"
    /\ sub[s].status # "canceled"
    /\ SetSub(s, sub[s].status, FALSE)
    /\ SetReq(h, Answered(req[h], "on"))
    /\ UNCHANGED <<row, credited, spent, call, spender, paid, news, acked, deaths, hist, moves>>

\* applySubscriptionState, by the account. History: a subscription that was
\* recorded since the request read the row.
Apply(h) ==
    LET r == req[h] IN
    /\ r.at = "answered"
    /\ \/ r.write = "on" /\ SetRow(TRUE, FALSE)
       \/ r.write = "off" /\ SetRow(FALSE, TRUE)
       \/ r.write = "stamp" /\ SetRow(row.plusActive, TRUE)
       \/ r.write = "none" /\ UNCHANGED row
    /\ SetReq(h, IdleRequest)
    /\ hist' = [recorded |-> hist.recorded,
                revived |-> IF r.write = "on" /\ r.subscription # row.subscription
                            THEN hist.revived \cup ({row.subscription} \cap Sub)
                            ELSE hist.revived,
                stale |-> IF r.subscription # row.subscription
                          THEN hist.stale \cup ({row.subscription} \cap Sub)
                          ELSE hist.stale]
    /\ UNCHANGED <<credited, spent, call, spender, deaths, stripe, moves>>

\* Stripe refuses the call, or the process dies before its write.
RequestDies(h) ==
    /\ req[h].at # "idle"
    /\ SetReq(h, IdleRequest)
    /\ UNCHANGED <<row, credited, spent, call, spender, deaths, hist, stripe, moves>>

\* manuallyCancelSubscription. History: the person wanted it off.
CancelManually ==
    /\ row.exists
    /\ SetRow(FALSE, TRUE)
    /\ hist' = [recorded |-> hist.recorded, revived |-> hist.revived,
                stale |-> hist.stale \cup ({row.subscription} \cap Sub)]
    /\ Move
    /\ UNCHANGED <<credited, spent, call, req, spender, deaths, stripe>>

-----------------------------------------------------------------------------
(***************************************************************************)
(* Spending a file credit: the route and consumeFileCredit.                *)
(***************************************************************************)

\* ensureBilling, then the read that lets Plus members pass.
SpendReads(c) ==
    /\ spender[c] = "idle"
    /\ row' = [row EXCEPT !.exists = TRUE]
    /\ spender' = [spender EXCEPT ![c] = IF row.plusActive THEN "idle" ELSE "charge"]
    /\ UNCHANGED <<credited, spent, call, req, deaths, hist, stripe, moves>>

\* Faulty SpendCharges: the decrement without its predicate.
SpendUnguarded(c) ==
    /\ spender[c] = "charge"
    /\ spender' = [spender EXCEPT ![c] = "idle"]
    /\ row' = [row EXCEPT !.fileCredits = row.fileCredits - 1]
    /\ spent' = spent + 1
    /\ UNCHANGED <<credited, call, req, deaths, hist, stripe, moves>>

\* The guarded decrement, which finds nothing to spend or spends it.
SpendCharges(c) ==
    /\ spender[c] = "charge"
    /\ spender' = [spender EXCEPT ![c] = "idle"]
    /\ IF row.fileCredits > 0
       THEN /\ row' = [row EXCEPT !.fileCredits = row.fileCredits - 1]
            /\ spent' = spent + 1
       ELSE UNCHANGED <<row, spent>>
    /\ UNCHANGED <<credited, call, req, deaths, hist, stripe, moves>>

-----------------------------------------------------------------------------
StripeMoves ==
    \/ \E x \in Session : CompleteSession(x)
    \/ \E s \in Sub :
           \/ ScheduleEnd(s) \/ Resume(s) \/ InvoiceFails(s) \/ SubscriptionEnds(s)
           \/ \E status \in {"active", "unpaid"} : InvoiceSettles(s, status)

CallStep(p) ==
    \/ \E x \in Session :
           \/ DeliverCompleted(p, x) \/ Confirm(p, x)
           \/ \E product \in {"plus", "file"} : ActivateManually(p, x, product)
    \/ \E answered \in BOOLEAN : CommitCredit(p, answered)

RequestStep(h) ==
    \/ \E kind \in {"sync", "end", "cancel", "reactivate"} : ReadRow(h, kind)
    \/ AskSync(h) \/ AskEnd(h) \/ AskCancel(h) \/ AskReactivate(h)
    \/ Apply(h) \/ RequestDies(h)

Next ==
    \/ StripeMoves
    \/ \E p \in Call : CallStep(p) \/ CallDies(p)
    \/ \E x \in Session : DeliverAgain(x)
    \/ \E message \in Trouble, answered \in BOOLEAN : DeliverTrouble(message, answered)
    \/ \E h \in Request : RequestStep(h)
    \/ CancelManually
    \/ \E c \in Spender : SpendReads(c) \/ SpendCharges(c)

Spec == Init /\ [][Next]_vars

\* Stripe redelivers a completed session until it is acknowledged, and a
\* transaction that was opened ends.
FairSpec ==
    /\ Spec
    /\ \A x \in Session : WF_vars(/\ Completed(x) \notin acked
                                  /\ \E p \in Call : DeliverCompleted(p, x))
    /\ \A p \in Call : WF_vars(\E answered \in BOOLEAN : CommitCredit(p, answered))

-----------------------------------------------------------------------------
(***************************************************************************)
(* Properties.                                                             *)
(***************************************************************************)

\* The balance is what was bought less what was spent: no session is credited
\* twice, by whatever callers, and no credit is spent twice or lost
\* (billingRepository.ts:29-37, 140-164, 355-413).
CreditsAddUp ==
    row.fileCredits + spent = Cardinality({x \in Session : credited[x] = "file"})

\* A subscription with which Stripe has seen no trouble is on, as long as the row
\* names it: the end of an earlier one, late or repeated news and the person's
\* requests do not turn it off, except where the person turned Plus off here or a
\* request that read the row before it wrote after it
\* (billingRepository.ts:272-299, billingController.ts:599-785).
PaidIsOn ==
    \A s \in Sub :
        /\ row.subscription = s /\ s \notin hist.stale
        /\ \A message \in news \cap Trouble : message.about # s
        => row.plusActive /\ ~row.canceled

\* A subscription whose end was acknowledged does not keep Plus on, unless the
\* news overtook the session that started it or crossed a request about it, Plus
\* was given without a subscription since, or a request wrote Stripe's answer about
\* another subscription over it
\* (billingRepository.ts:272-299, billingController.ts:224-236, 599-685).
EndedIsOff ==
    \A s \in Sub :
        /\ row.subscription = s /\ s \notin hist.revived
        /\ Deleted(s) \in acked
        => ~row.plusActive

\* Whoever bought Plus through Stripe keeps a subscription to sync, cancel or
\* reactivate, whatever was delivered or asked since: one that a session started,
\* and the only one if there was one (billingRepository.ts:279-282, 366-369).
WayBack ==
    hist.recorded # {} =>
        \E x \in hist.recorded : row.subscription = SubOf[x]

\* A completed session is credited in the end, whoever applies it and whatever
\* dies on the way (billingRepository.ts:205-232, 355-413).
PaidIsGranted ==
    \A x \in Session : x \in paid ~> credited[x] # "none"

Account == INSTANCE PlusAccount WITH
    granted <- credited,
    balance <- row.fileCredits,
    plus <- row.plusActive,
    subscription <- row.subscription

\* Whatever is delivered again or late, dies halfway or crosses another request,
\* the record changes as an account does: it implements PlusAccount
\* (billingRepository.ts:140-164, 272-299, 355-413).
KeepsAccount == Account!Spec
=============================================================================
