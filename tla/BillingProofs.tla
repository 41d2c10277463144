---------------------------- MODULE BillingProofs ----------------------------
(***************************************************************************)
(* Theorems about Billing, for any sessions, subscriptions, transactions,  *)
(* requests and any number of deaths and changes of mind.                  *)
(*                                                                         *)
(* The inductive invariant BillingInv says                                 *)
(*   - of a claim in flight that its session is not credited and claimed   *)
(*     by no other;                                                        *)
(*   - of Stripe that a subscription that is not simply active has sent    *)
(*     news about it, and that an ended one stays ended;                   *)
(*   - of the row that it names a subscription a credited session started; *)
(*   - of a request that has Stripe's answer that it will turn off only a  *)
(*     subscription there was trouble with, and turn on none whose end was *)
(*     acknowledged.                                                       *)
(***************************************************************************)
EXTENDS Billing, FiniteSetTheorems, TLAPS

Troubled(s) == \E message \in news : message \in Trouble /\ message.about = s

CallInv ==
    /\ \A p \in Call : call[p].at = "claimed" =>
           /\ call[p].session \in Session /\ credited[call[p].session] = "none"
           /\ call[p].by = "webhook" => Completed(call[p].session) \in news
           /\ call[p].by # "manual" => /\ call[p].product = ProductOf[call[p].session]
                                       /\ call[p].session \in paid
    /\ \A p, q \in Call :
           /\ call[p].at = "claimed" /\ call[q].at = "claimed"
           /\ call[p].session = call[q].session
           => p = q

StripeInv ==
    /\ \A x \in Session : Completed(x) \in news => x \in paid
    /\ \A x \in PlusSession : x \in paid <=> sub[SubOf[x]].status # "none"
    /\ \A s \in Sub :
           /\ sub[s].status = "none" => ~sub[s].ending /\ ~Troubled(s)
           /\ sub[s].ending \/ sub[s].status \in {"past_due", "unpaid", "canceled"}
                  => Troubled(s)
           /\ Deleted(s) \in news => sub[s].status = "canceled"

RecordInv ==
    /\ \/ row.subscription = NoSub /\ hist.recorded = {}
       \/ \E x \in hist.recorded : row.subscription = SubOf[x]
    /\ \A x \in hist.recorded : x \in paid /\ credited[x] = "plus"
    /\ \A h \in Request : req[h].at # "idle" =>
           \E x \in hist.recorded : req[h].subscription = SubOf[x]

OnInv == \A s \in Sub : ~Troubled(s) =>
    /\ row.subscription = s /\ s \notin hist.stale => row.plusActive /\ ~row.canceled
    /\ \A h \in Request : req[h].at = "answered" /\ req[h].subscription = s =>
           req[h].write \in {"none", "on"}

OffInv == \A s \in Sub : Deleted(s) \in acked /\ s \notin hist.revived =>
    /\ \E x \in hist.recorded : SubOf[x] = s
    /\ row.subscription = s => ~row.plusActive
    /\ \A h \in Request : req[h].at = "answered" /\ req[h].subscription = s =>
           req[h].write # "on"

BillingInv ==
    /\ TypeOK /\ CallInv /\ CreditsAddUp /\ StripeInv /\ RecordInv /\ OnInv /\ OffInv

-----------------------------------------------------------------------------
LEMMA NewsAreApart ==
    ASSUME NEW x, NEW s
    PROVE  /\ Completed(x) # Deleted(s) /\ Completed(x) # Ending(s)
           /\ Completed(x) # Failed(s) /\ Completed(x) \notin Trouble
           /\ Ending(s) # Deleted(s) /\ Failed(s) # Deleted(s)
           /\ Deleted(s).about = s /\ Ending(s).about = s /\ Failed(s).about = s
           /\ s \in Sub => Ending(s) \in Trouble /\ Failed(s) \in Trouble /\ Deleted(s) \in Trouble
  BY DEF Completed, Deleted, Ending, Failed, Trouble

LEMMA DeletedIsOfOne ==
    ASSUME NEW s, NEW t, Deleted(s) = Deleted(t)
    PROVE  s = t
  BY DEF Deleted

LEMMA BillingInvInit == Init => BillingInv
<1> SUFFICES ASSUME Init PROVE BillingInv OBVIOUS
<1> USE BillingAssumption
<1>1. TypeOK
  BY DEF Init, TypeOK, Row, NewRow, CreditCall, IdleCall, StateRequest, IdleRequest,
         Product, StripeSub, News
<1>2. {x \in Session : credited[x] = "file"} = {}
  BY DEF Init
<1>3. CreditsAddUp
  <2>1. Cardinality({x \in Session : credited[x] = "file"}) = 0
    BY <1>2, FS_EmptySet
  <2>2. row.fileCredits = 0 /\ spent = 0
    BY DEF Init, NewRow
  <2>3. QED BY <2>1, <2>2 DEF CreditsAddUp
<1>4. CallInv /\ StripeInv /\ RecordInv /\ OnInv /\ OffInv
  BY DEF Init, CallInv, StripeInv, RecordInv, OnInv, OffInv, IdleCall, IdleRequest,
         NewRow, Troubled, PlusSession
<1>5. QED BY <1>1, <1>3, <1>4 DEF BillingInv

-----------------------------------------------------------------------------
(***************************************************************************)
(* Stripe alone: what the row, the calls and the requests say about a      *)
(* subscription only gets easier to keep when there is more news.          *)
(***************************************************************************)
LEMMA MoreNews ==
    ASSUME BillingInv, TypeOK', StripeInv',
           UNCHANGED <<row, credited, spent, call, req, hist>>,
           paid \subseteq paid',
           news \subseteq news', acked' \subseteq acked
    PROVE  BillingInv'
<1>1. CallInv'
  BY DEF BillingInv, CallInv, TypeOK
<1>2. CreditsAddUp'
  BY DEF BillingInv, CreditsAddUp
<1>3. RecordInv'
  BY DEF BillingInv, RecordInv
<1>4. OnInv'
  BY DEF BillingInv, OnInv, Troubled
<1>5. OffInv'
  BY DEF BillingInv, OffInv
<1>6. QED BY <1>1, <1>2, <1>3, <1>4, <1>5 DEF BillingInv

LEMMA StripeKeeps ==
    ASSUME BillingInv, StripeMoves
    PROVE  BillingInv'
<1> USE BillingAssumption
<1>1. ASSUME NEW x \in Session, CompleteSession(x)
     PROVE  BillingInv'
  <2>1. /\ UNCHANGED <<row, credited, spent, call, req, spender, deaths, hist>>
        /\ paid \subseteq paid' /\ news \subseteq news' /\ acked' \subseteq acked
    BY <1>1 DEF CompleteSession, ours, Send
  <2>2. TypeOK'
    <3>1. news' \subseteq News /\ acked' \subseteq news'
      BY <1>1 DEF BillingInv, TypeOK, CompleteSession, Send, News, Completed
    <3>2. x \in PlusSession => SubOf[x] \in Sub
      OBVIOUS
    <3>3. sub' \in [Sub -> StripeSub]
      <4>1. sub \in [Sub -> StripeSub]
        BY DEF BillingInv, TypeOK
      <4>2. CASE x \in PlusSession
        <5>1. sub' = [sub EXCEPT ![SubOf[x]] = [status |-> "active", ending |-> FALSE]]
          BY <1>1, <4>2 DEF CompleteSession, SetSub
        <5>2. [status |-> "active", ending |-> FALSE] \in StripeSub
          BY DEF StripeSub
        <5>3. QED BY <3>2, <4>1, <4>2, <5>1, <5>2
      <4>3. CASE x \notin PlusSession
        BY <1>1, <4>1, <4>3 DEF CompleteSession
      <4>4. QED BY <4>2, <4>3
    <3>4. paid' \subseteq Session /\ moves' \in 0..MaxMoves
      BY <1>1 DEF BillingInv, TypeOK, CompleteSession
    <3>5. QED BY <1>1, <2>1, <3>1, <3>3, <3>4 DEF BillingInv, TypeOK, CompleteSession
  <2>3. StripeInv'
    BY <1>1, <2>1, NewsAreApart, DeletedIsOfOne DEF BillingInv, TypeOK, StripeInv, CompleteSession, Send, SetSub,
       PlusSession, Troubled, StripeSub, Completed
  <2>4. QED BY <2>1, <2>2, <2>3, MoreNews
<1>2. ASSUME NEW s \in Sub, ScheduleEnd(s)
     PROVE  BillingInv'
  <2>1. /\ UNCHANGED <<row, credited, spent, call, req, spender, deaths, hist>>
        /\ paid \subseteq paid' /\ news \subseteq news' /\ acked' \subseteq acked
    BY <1>2 DEF ScheduleEnd, ours, Send
  <2>2. TypeOK'
    <3>1. news' \subseteq News /\ acked' \subseteq news'
      BY <1>2, NewsAreApart DEF BillingInv, TypeOK, ScheduleEnd, Send, News
    <3>2. sub' \in [Sub -> StripeSub] /\ moves' \in 0..MaxMoves
      BY <1>2 DEF BillingInv, TypeOK, ScheduleEnd, SetSub, Move, StripeSub
    <3>3. QED BY <1>2, <2>1, <3>1, <3>2 DEF BillingInv, TypeOK, ScheduleEnd
  <2>3. StripeInv'
    BY <1>2, <2>1, NewsAreApart, DeletedIsOfOne DEF BillingInv, TypeOK, StripeInv, ScheduleEnd, Send, SetSub,
       PlusSession, Troubled, StripeSub
  <2>4. QED BY <2>1, <2>2, <2>3, MoreNews
<1>3. ASSUME NEW s \in Sub, Resume(s)
     PROVE  BillingInv'
  <2>1. /\ UNCHANGED <<row, credited, spent, call, req, spender, deaths, hist>>
        /\ paid \subseteq paid' /\ news \subseteq news' /\ acked' \subseteq acked
    BY <1>3 DEF Resume, ours, Send
  <2>2. TypeOK'
    BY <1>3, <2>1, NewsAreApart DEF BillingInv, TypeOK, Resume, Send, SetSub, Move, StripeSub, News, Completed, PlusSession
  <2>3. StripeInv'
    BY <1>3, <2>1, NewsAreApart, DeletedIsOfOne DEF BillingInv, TypeOK, StripeInv, Resume, Send, SetSub,
       PlusSession, Troubled, StripeSub
  <2>4. QED BY <2>1, <2>2, <2>3, MoreNews
<1>4. ASSUME NEW s \in Sub, InvoiceFails(s)
     PROVE  BillingInv'
  <2>1. /\ UNCHANGED <<row, credited, spent, call, req, spender, deaths, hist>>
        /\ paid \subseteq paid' /\ news \subseteq news' /\ acked' \subseteq acked
    BY <1>4 DEF InvoiceFails, ours, Send
  <2>2. TypeOK'
    <3>1. news' \subseteq News /\ acked' \subseteq news'
      BY <1>4, NewsAreApart DEF BillingInv, TypeOK, InvoiceFails, Send, News
    <3>2. sub' \in [Sub -> StripeSub] /\ moves' \in 0..MaxMoves
      BY <1>4 DEF BillingInv, TypeOK, InvoiceFails, SetSub, Move, StripeSub
    <3>3. QED BY <1>4, <2>1, <3>1, <3>2 DEF BillingInv, TypeOK, InvoiceFails
  <2>3. StripeInv'
    <3>1. sub[s].status = "active" /\ news' = news \cup {Failed(s)} /\ paid' = paid
      BY <1>4 DEF InvoiceFails, Send
    <3>2. /\ sub'[s].status = "past_due" /\ Troubled(s)'
          /\ \A t \in Sub \ {s} : sub'[t] = sub[t] /\ (Troubled(t)' <=> Troubled(t))
      BY <1>4, <3>1, NewsAreApart DEF BillingInv, TypeOK, InvoiceFails, SetSub, Troubled
    <3>3. \A t \in Sub :
             /\ sub'[t].status = "none" => ~sub'[t].ending /\ ~Troubled(t)'
             /\ sub'[t].ending \/ sub'[t].status \in {"past_due", "unpaid", "canceled"}
                  => Troubled(t)'
      BY <3>1, <3>2 DEF BillingInv, StripeInv
    <3>4. /\ \A x \in Session : Completed(x) \in news' => x \in paid'
          /\ \A x \in PlusSession : x \in paid' <=> sub'[SubOf[x]].status # "none"
          /\ \A t \in Sub : Deleted(t) \in news' => sub'[t].status = "canceled"
      BY <3>1, <3>2, NewsAreApart DEF BillingInv, StripeInv
    <3>5. QED BY <3>3, <3>4 DEF StripeInv
  <2>4. QED BY <2>1, <2>2, <2>3, MoreNews
<1>5. ASSUME NEW s \in Sub, NEW status \in {"active", "unpaid"}, InvoiceSettles(s, status)
     PROVE  BillingInv'
  <2>1. /\ UNCHANGED <<row, credited, spent, call, req, spender, deaths, hist>>
        /\ paid \subseteq paid' /\ news \subseteq news' /\ acked' \subseteq acked
    BY <1>5 DEF InvoiceSettles, ours, Send
  <2>2. TypeOK'
    BY <1>5, <2>1, NewsAreApart DEF BillingInv, TypeOK, InvoiceSettles, Send, SetSub, Move, StripeSub, News, Completed, PlusSession
  <2>3. StripeInv'
    <3>1. Troubled(s) /\ sub[s].status = "past_due" /\ news' = news /\ paid' = paid
      BY <1>5 DEF BillingInv, StripeInv, InvoiceSettles
    <3>2. /\ sub'[s].status = status /\ status \in {"active", "unpaid"}
          /\ \A t \in Sub \ {s} : sub'[t] = sub[t]
      BY <1>5 DEF BillingInv, TypeOK, InvoiceSettles, SetSub
    <3>3. \A t \in Sub : Troubled(t)' <=> Troubled(t)
      BY <3>1 DEF Troubled
    <3>4. \A t \in Sub : /\ sub'[t].status = "none" <=> sub[t].status = "none"
                         /\ sub[t].status = "canceled" => sub'[t] = sub[t]
      BY <3>1, <3>2
    <3>5. \A t \in Sub :
             /\ sub'[t].status = "none" => ~sub'[t].ending /\ ~Troubled(t)'
             /\ sub'[t].ending \/ sub'[t].status \in {"past_due", "unpaid", "canceled"}
                  => Troubled(t)'
      BY <3>1, <3>2, <3>3 DEF BillingInv, StripeInv
    <3>6. /\ \A x \in Session : Completed(x) \in news' => x \in paid'
          /\ \A x \in PlusSession : x \in paid' <=> sub'[SubOf[x]].status # "none"
          /\ \A t \in Sub : Deleted(t) \in news' => sub'[t].status = "canceled"
      BY <3>1, <3>4 DEF BillingInv, StripeInv
    <3>7. QED BY <3>5, <3>6 DEF StripeInv
  <2>4. QED BY <2>1, <2>2, <2>3, MoreNews
<1>6. ASSUME NEW s \in Sub, SubscriptionEnds(s)
     PROVE  BillingInv'
  <2>1. /\ UNCHANGED <<row, credited, spent, call, req, spender, deaths, hist>>
        /\ paid \subseteq paid' /\ news \subseteq news' /\ acked' \subseteq acked
    BY <1>6 DEF SubscriptionEnds, ours, Send
  <2>2. TypeOK'
    <3>1. news' \subseteq News /\ acked' \subseteq news'
      BY <1>6, NewsAreApart DEF BillingInv, TypeOK, SubscriptionEnds, Send, News
    <3>2. sub' \in [Sub -> StripeSub] /\ moves' \in 0..MaxMoves
      BY <1>6 DEF BillingInv, TypeOK, SubscriptionEnds, SetSub, Move, StripeSub
    <3>3. QED BY <1>6, <2>1, <3>1, <3>2 DEF BillingInv, TypeOK, SubscriptionEnds
  <2>3. StripeInv'
    BY <1>6, <2>1, NewsAreApart, DeletedIsOfOne DEF BillingInv, TypeOK, StripeInv, SubscriptionEnds, Send, SetSub,
       PlusSession, Troubled, StripeSub
  <2>4. QED BY <2>1, <2>2, <2>3, MoreNews
<1>7. QED BY <1>1, <1>2, <1>3, <1>4, <1>5, <1>6 DEF StripeMoves

-----------------------------------------------------------------------------
(***************************************************************************)
(* The steps of ours.                                                      *)
(***************************************************************************)
LEMMA SameStripe ==
    ASSUME BillingInv, UNCHANGED <<paid, sub, news>>
    PROVE  StripeInv' /\ \A s \in Sub : Troubled(s)' <=> Troubled(s)
  BY DEF BillingInv, StripeInv, Troubled

LEMMA ClaimKeeps ==
    ASSUME BillingInv, NEW p \in Call, NEW x \in Session, NEW by \in {"webhook", "confirm", "manual"},
           NEW product \in Product, Claim(p, by, x, product),
           by = "webhook" => Completed(x) \in news,
           by # "manual" => product = ProductOf[x] /\ x \in paid
    PROVE  BillingInv'
<1> DEFINE c == [at |-> "claimed", by |-> by, session |-> x, product |-> product]
<1>1. /\ UNCHANGED <<row, credited, spent, req, spender, deaths, hist, paid, sub, news, acked, moves>>
      /\ call' = [call EXCEPT ![p] = c]
  BY DEF Claim, SetCall, stripe
<1>2. c \in CreditCall
  BY DEF CreditCall
<1>3. TypeOK'
  BY <1>1, <1>2 DEF BillingInv, TypeOK
<1>4. CallInv'
  <2>1. call'[p] = c /\ \A q \in Call \ {p} : call'[q] = call[q]
    BY <1>1 DEF BillingInv, TypeOK
  <2>2. credited[x] = "none" /\ \A q \in Call : ~(call[q].at = "claimed" /\ call[q].session = x)
    BY DEF Claim, Unclaimed
  <2>3. QED BY <1>1, <2>1, <2>2 DEF BillingInv, CallInv
<1>5. CreditsAddUp'
  BY <1>1 DEF BillingInv, CreditsAddUp
<1>6. RecordInv' /\ OnInv' /\ OffInv'
  BY <1>1, SameStripe DEF BillingInv, RecordInv, OnInv, OffInv
<1>7. QED BY <1>1, <1>3, <1>4, <1>5, <1>6, SameStripe DEF BillingInv

LEMMA CallDiesKeeps ==
    ASSUME BillingInv, NEW p \in Call, CallDies(p)
    PROVE  BillingInv'
<1>1. /\ UNCHANGED <<row, credited, spent, req, spender, hist, paid, sub, news, acked, moves>>
      /\ call' = [call EXCEPT ![p] = IdleCall]
  BY DEF CallDies, SetCall, stripe
<1>2. TypeOK'
  <2>1. deaths' \in 0..MaxDeaths
    BY BillingAssumption DEF BillingInv, TypeOK, CallDies
  <2>2. call' \in [Call -> CreditCall]
    BY <1>1 DEF BillingInv, TypeOK, CreditCall, IdleCall, Product
  <2>3. QED BY <1>1, <2>1, <2>2 DEF BillingInv, TypeOK
<1>3. CallInv'
  BY <1>1 DEF BillingInv, TypeOK, CallInv, IdleCall
<1>4. CreditsAddUp'
  BY <1>1 DEF BillingInv, CreditsAddUp
<1>5. RecordInv' /\ OnInv' /\ OffInv'
  BY <1>1, SameStripe DEF BillingInv, RecordInv, OnInv, OffInv
<1>6. QED BY <1>1, <1>2, <1>3, <1>4, <1>5, SameStripe DEF BillingInv

LEMMA DeliverAgainKeeps ==
    ASSUME BillingInv, NEW x \in Session, DeliverAgain(x)
    PROVE  BillingInv'
<1>1. /\ UNCHANGED <<row, credited, spent, call, req, spender, deaths, hist, paid, sub, news, moves>>
      /\ acked' = acked \cup {Completed(x)} /\ Completed(x) \in news
  BY DEF DeliverAgain, ours
<1>2. TypeOK'
  <2>1. acked' \subseteq news'
    BY <1>1 DEF BillingInv, TypeOK
  <2>2. QED BY <1>1, <2>1 DEF BillingInv, TypeOK
<1>3. CallInv'
  BY <1>1 DEF BillingInv, CallInv
<1>4. CreditsAddUp'
  BY <1>1 DEF BillingInv, CreditsAddUp
<1>5. RecordInv' /\ OnInv'
  BY <1>1, SameStripe DEF BillingInv, RecordInv, OnInv
<1>6. OffInv'
  BY <1>1, NewsAreApart DEF BillingInv, OffInv
<1>7. QED BY <1>1, <1>2, <1>3, <1>4, <1>5, <1>6, SameStripe DEF BillingInv

-----------------------------------------------------------------------------
(***************************************************************************)
(* The commit of a credit.                                                 *)
(***************************************************************************)
LEMMA CommitKeeps ==
    ASSUME BillingInv, NEW p \in Call, NEW answered \in BOOLEAN, CommitCredit(p, answered)
    PROVE  BillingInv'
<1> USE BillingAssumption
<1> DEFINE plus(c) == c.product = "plus"
<1>1. PICK c : c = call[p]
  OBVIOUS
<1>2. /\ c.at = "claimed" /\ c \in CreditCall
      /\ c.session \in Session /\ credited[c.session] = "none"
      /\ c.by # "manual" => c.product = ProductOf[c.session] /\ c.session \in paid
      /\ \A q \in Call \ {p} : call[q].at = "claimed" => call[q].session # c.session
  BY <1>1 DEF BillingInv, TypeOK, CallInv, CommitCredit
<1>3. /\ UNCHANGED <<spent, req, spender, paid, sub, news, deaths, moves>>
      /\ row' = Bought(c)
      /\ credited' = [credited EXCEPT ![c.session] = c.product]
      /\ call' = [call EXCEPT ![p] = IdleCall]
      /\ acked' \in {acked, acked \cup {Completed(c.session)}}
      /\ c.by = "webhook" \/ acked' = acked
      /\ hist' = [recorded |-> IF plus(c) /\ IdOf(c) # NoSub
                               THEN hist.recorded \cup {c.session} ELSE hist.recorded,
                  revived |-> IF plus(c) /\ IdOf(c) = NoSub
                              THEN hist.revived \cup ({row.subscription} \cap Sub)
                              ELSE hist.revived,
                  stale |-> hist.stale]
  BY <1>1 DEF CommitCredit, SetCall
<1>4. /\ c.product \in Product
      /\ IdOf(c) = NoSub \/ (/\ c.by # "manual" /\ c.session \in PlusSession
                             /\ IdOf(c) = SubOf[c.session] /\ IdOf(c) \in Sub)
  BY <1>2 DEF IdOf, CreditCall
<1>5. /\ row \in Row
      /\ hist \in [recorded : SUBSET PlusSession, revived : SUBSET Sub, stale : SUBSET Sub]
      /\ credited \in [Session -> Product \cup {"none"}]
      /\ call \in [Call -> CreditCall]
  BY DEF BillingInv, TypeOK
<1>6. RecordedId(c) \in Sub \cup {NoSub}
  BY <1>4, <1>5 DEF RecordedId, Row
<1>7. /\ row' \in Row
      /\ ~plus(c) => /\ row'.plusActive = row.plusActive /\ row'.canceled = row.canceled
                     /\ row'.subscription = row.subscription
      /\ plus(c) => /\ row'.plusActive /\ ~row'.canceled
                    /\ row'.subscription = RecordedId(c)
      /\ row'.fileCredits = row.fileCredits + (IF c.product = "file" THEN 1 ELSE 0)
  <2>1. CASE plus(c)
    <3>1. row' = [exists |-> TRUE, plusActive |-> TRUE, canceled |-> FALSE,
                  subscription |-> RecordedId(c), fileCredits |-> row.fileCredits]
      BY <1>3, <2>1 DEF Bought
    <3>2. row.fileCredits \in Nat
      BY <1>5 DEF Row
    <3>3. row.fileCredits + 0 = row.fileCredits
      BY <3>2
    <3>4. QED BY <1>6, <2>1, <3>1, <3>2, <3>3 DEF Row
  <2>2. CASE ~plus(c)
    <3>1. row' = [exists |-> TRUE, plusActive |-> row.plusActive, canceled |-> row.canceled,
                  subscription |-> row.subscription,
                  fileCredits |-> IF c.product = "file" THEN row.fileCredits + 1
                                  ELSE row.fileCredits]
      BY <1>3, <2>2 DEF Bought
    <3>2. QED BY <1>5, <2>2, <3>1 DEF Row
  <2>3. QED BY <2>1, <2>2
<1>8. /\ hist'.stale = hist.stale
      /\ plus(c) /\ IdOf(c) # NoSub => hist'.recorded = hist.recorded \cup {c.session}
                                      /\ hist'.revived = hist.revived
      /\ ~(plus(c) /\ IdOf(c) # NoSub) => hist'.recorded = hist.recorded
      /\ plus(c) /\ IdOf(c) = NoSub =>
             hist'.revived = hist.revived \cup ({row.subscription} \cap Sub)
      /\ ~plus(c) => hist'.revived = hist.revived
      /\ hist' \in [recorded : SUBSET PlusSession, revived : SUBSET Sub, stale : SUBSET Sub]
  BY <1>3, <1>4, <1>5
<1> HIDE DEF plus
<1>9. TypeOK'
  <2>1. credited' \in [Session -> Product \cup {"none"}]
    BY <1>2, <1>3, <1>4, <1>5
  <2>2. call' \in [Call -> CreditCall]
    BY <1>3, <1>5 DEF CreditCall, IdleCall, Product
  <2>3. acked' \subseteq news'
    <3>1. c.by = "webhook" => Completed(c.session) \in news
      BY <1>1, <1>2 DEF BillingInv, CallInv
    <3>2. QED BY <1>3, <3>1 DEF BillingInv, TypeOK
  <2>4. QED BY <1>3, <1>7, <1>8, <2>1, <2>2, <2>3 DEF BillingInv, TypeOK
<1>10. /\ credited'[c.session] = c.product
       /\ \A x \in Session \ {c.session} : credited'[x] = credited[x]
       /\ call'[p] = IdleCall /\ \A q \in Call \ {p} : call'[q] = call[q]
  BY <1>2, <1>3, <1>5
<1>11. CallInv'
  BY <1>2, <1>3, <1>10 DEF BillingInv, CallInv, IdleCall
<1>12. CreditsAddUp'
  <2> DEFINE F == {x \in Session : credited[x] = "file"}
  <2> DEFINE G == {x \in Session : credited'[x] = "file"}
  <2>1. IsFiniteSet(F) /\ c.session \notin F
    BY <1>2, FS_Subset
  <2>5. row.fileCredits + spent = Cardinality(F)
    BY DEF BillingInv, CreditsAddUp
  <2>6. row'.fileCredits + spent' = Cardinality(G) => CreditsAddUp'
    BY DEF CreditsAddUp
  <2>7. row.fileCredits \in Nat /\ spent \in Nat /\ spent' = spent
    BY <1>3, <1>5 DEF BillingInv, TypeOK, Row
  <2>2. CASE c.product = "file"
    <3>1. G = F \cup {c.session}
      BY <1>2, <1>10, <2>2
    <3>2. Cardinality(F \cup {c.session}) = Cardinality(F) + 1
      BY <2>1, FS_AddElement
    <3>3. row'.fileCredits = row.fileCredits + 1
      BY <1>7, <2>2
    <3> HIDE DEF F, G
    <3>4. QED BY <2>5, <2>6, <2>7, <3>1, <3>2, <3>3
  <2>3. CASE c.product # "file"
    <3>1. G = F
      BY <1>2, <1>10, <2>3
    <3>2. row'.fileCredits = row.fileCredits
      BY <1>7, <2>3, <2>7
    <3> HIDE DEF F, G
    <3>3. QED BY <2>5, <2>6, <2>7, <3>1, <3>2
  <2>4. QED BY <2>2, <2>3
<1>13. RecordInv'
  <2>1. \A x \in hist.recorded : x \in hist'.recorded /\ x \in paid' /\ credited'[x] = "plus"
    BY <1>2, <1>3, <1>5, <1>8, <1>10 DEF BillingInv, RecordInv, PlusSession
  <2>2. CASE plus(c) /\ IdOf(c) # NoSub
    <3>1. /\ c.session \in hist'.recorded /\ row'.subscription = SubOf[c.session]
          /\ c.session \in paid' /\ credited'[c.session] = "plus"
          /\ hist'.recorded = hist.recorded \cup {c.session}
      BY <1>2, <1>3, <1>4, <1>7, <1>8, <1>10, <2>2 DEF RecordedId, plus
    <3>2. QED BY <1>3, <2>1, <3>1 DEF BillingInv, RecordInv
  <2>3. CASE ~(plus(c) /\ IdOf(c) # NoSub)
    <3>1. row'.subscription = row.subscription /\ hist'.recorded = hist.recorded
      BY <1>7, <1>8, <2>3 DEF RecordedId
    <3>2. QED BY <1>3, <2>1, <3>1 DEF BillingInv, RecordInv
  <2>4. QED BY <2>2, <2>3
<1>14. OnInv'
  <2> SUFFICES ASSUME NEW s \in Sub, ~Troubled(s)'
               PROVE  /\ row'.subscription = s /\ s \notin hist'.stale
                             => row'.plusActive /\ ~row'.canceled
                      /\ \A h \in Request : req'[h].at = "answered" /\ req'[h].subscription = s
                             => req'[h].write \in {"none", "on"}
    BY DEF OnInv
  <2>1. ~Troubled(s)
    BY <1>3, SameStripe
  <2>2. QED BY <1>3, <1>7, <1>8, <2>1 DEF BillingInv, OnInv
<1>15. OffInv'
  <2> SUFFICES ASSUME NEW s \in Sub, Deleted(s) \in acked', s \notin hist'.revived
               PROVE  /\ \E x \in hist'.recorded : SubOf[x] = s
                      /\ row'.subscription = s => ~row'.plusActive
                      /\ \A h \in Request : req'[h].at = "answered" /\ req'[h].subscription = s
                             => req'[h].write # "on"
    BY DEF OffInv
  <2>1. Deleted(s) \in acked /\ s \notin hist.revived
    BY <1>3, <1>8, NewsAreApart
  <2>2. PICK x \in hist.recorded : SubOf[x] = s
    BY <2>1 DEF BillingInv, OffInv
  <2>3. credited[x] = "plus" /\ x \in PlusSession
    BY <1>5 DEF BillingInv, RecordInv
  <2>4. plus(c) => row'.subscription # s
    <3>1. CASE IdOf(c) = NoSub
      BY <1>7, <1>8, <3>1 DEF RecordedId
    <3>2. CASE IdOf(c) # NoSub
      BY <1>2, <1>4, <1>7, <2>2, <2>3, <3>2 DEF RecordedId
    <3>3. QED BY <3>1, <3>2
  <2>5. QED BY <1>3, <1>7, <1>8, <2>1, <2>2, <2>4 DEF BillingInv, OffInv
<1>16. QED BY <1>3, <1>9, <1>11, <1>12, <1>13, <1>14, <1>15, SameStripe DEF BillingInv

-----------------------------------------------------------------------------
(***************************************************************************)
(* The state of the subscription.                                          *)
(***************************************************************************)

\* What a step that leaves the claims, the credits and the balance alone keeps.
LEMMA CreditsUntouched ==
    ASSUME BillingInv, UNCHANGED <<credited, spent, call>>, row'.fileCredits = row.fileCredits,
           paid \subseteq paid', news \subseteq news'
    PROVE  CallInv' /\ CreditsAddUp'
<1>1. CallInv'
  BY DEF BillingInv, CallInv
<1>2. CreditsAddUp'
  BY DEF BillingInv, CreditsAddUp
<1>3. QED BY <1>1, <1>2

LEMMA SetRowFacts ==
    ASSUME TypeOK, NEW active \in BOOLEAN, NEW canceled \in BOOLEAN, SetRow(active, canceled)
    PROVE  /\ row' \in Row /\ row'.plusActive = active /\ row'.canceled = canceled
           /\ row'.subscription = row.subscription /\ row'.fileCredits = row.fileCredits
  BY DEF TypeOK, Row, SetRow

LEMMA TroubleKeeps ==
    ASSUME BillingInv, NEW message \in Trouble, NEW answered \in BOOLEAN,
           DeliverTrouble(message, answered)
    PROVE  BillingInv'
<1>1. PICK s : s = message.about
  OBVIOUS
<1>2. s \in Sub
  BY <1>1 DEF Trouble
<1>3. /\ UNCHANGED <<credited, spent, call, req, spender, paid, sub, news, deaths, moves>>
      /\ message \in news
      /\ acked' \in {acked, acked \cup {message}}
      /\ answered \/ acked' = acked
  BY DEF DeliverTrouble
<1>4. /\ row' \in Row /\ row'.subscription = row.subscription
      /\ row'.fileCredits = row.fileCredits
      /\ row.subscription = s => ~row'.plusActive
      /\ row.subscription # s => row' = row
  <2>1. CASE Concerns(message)
    BY <1>1, <2>1, SetRowFacts DEF Concerns, DeliverTrouble, BillingInv
  <2>2. CASE ~Concerns(message)
    BY <1>1, <2>2 DEF Concerns, DeliverTrouble, BillingInv, TypeOK
  <2>3. QED BY <2>1, <2>2
<1>5. PICK lost \in SUBSET Sub :
         /\ hist' = [recorded |-> hist.recorded, revived |-> hist.revived \cup lost,
                     stale |-> hist.stale]
         /\ lost # {} => lost = {s}
         /\ (/\ answered /\ message = Deleted(s)
             /\ \/ row.subscription # s
                \/ \E h \in Request : req[h].at # "idle" /\ req[h].subscription = s)
            => s \in lost
  <2> DEFINE gone == /\ answered /\ message = Deleted(s)
                     /\ \/ row.subscription # s
                        \/ \E h \in Request : req[h].at # "idle" /\ req[h].subscription = s
  <2>1. hist' = [recorded |-> hist.recorded,
                 revived |-> IF gone THEN hist.revived \cup {s} ELSE hist.revived,
                 stale |-> hist.stale]
    BY <1>1 DEF DeliverTrouble
  <2> HIDE DEF gone
  <2>2. CASE gone
    <3>1. hist' = [recorded |-> hist.recorded, revived |-> hist.revived \cup {s},
                   stale |-> hist.stale]
      BY <2>1, <2>2
    <3>2. {s} \in SUBSET Sub
      BY <1>2
    <3>3. QED BY <3>1, <3>2
  <2>3. CASE ~gone
    <3>1. hist.revived \cup {} = hist.revived
      OBVIOUS
    <3>2. hist' = [recorded |-> hist.recorded, revived |-> hist.revived \cup {},
                   stale |-> hist.stale]
      BY <2>1, <2>3, <3>1
    <3>3. {} \in SUBSET Sub
      OBVIOUS
    <3>4. QED BY <2>3, <3>2, <3>3 DEF gone
  <2>4. QED BY <2>2, <2>3
<1>6. /\ hist'.recorded = hist.recorded /\ hist'.revived = hist.revived \cup lost
      /\ hist'.stale = hist.stale
      /\ hist' \in [recorded : SUBSET PlusSession, revived : SUBSET Sub, stale : SUBSET Sub]
  BY <1>5 DEF BillingInv, TypeOK
<1>7. TypeOK'
  <2>1. acked' \subseteq news'
    BY <1>3 DEF BillingInv, TypeOK
  <2>2. QED BY <1>3, <1>4, <1>6, <2>1 DEF BillingInv, TypeOK
<1>8. CallInv' /\ CreditsAddUp'
  BY <1>3, <1>4, CreditsUntouched
<1>9. RecordInv'
  BY <1>3, <1>4, <1>6 DEF BillingInv, RecordInv
<1>10. OnInv'
  <2>1. Troubled(s)
    BY <1>1, <1>3 DEF Troubled
  <2>2. QED BY <1>3, <1>4, <1>6, <2>1, SameStripe DEF BillingInv, OnInv
<1>11. OffInv'
  <2> SUFFICES ASSUME NEW t \in Sub, Deleted(t) \in acked', t \notin hist'.revived
               PROVE  /\ \E x \in hist'.recorded : SubOf[x] = t
                      /\ row'.subscription = t => ~row'.plusActive
                      /\ \A h \in Request : req'[h].at = "answered" /\ req'[h].subscription = t
                             => req'[h].write # "on"
    BY DEF OffInv
  <2>1. CASE Deleted(t) \in acked
    BY <1>3, <1>4, <1>6, <2>1 DEF BillingInv, OffInv
  <2>2. CASE Deleted(t) \notin acked
    <3>1. message = Deleted(t) /\ answered /\ t = s
      BY <1>1, <1>3, <2>2, NewsAreApart
    <3>2. /\ row.subscription = s
          /\ \A h \in Request : ~(req[h].at # "idle" /\ req[h].subscription = s)
      BY <1>5, <1>6, <3>1
    <3>3. \E x \in hist.recorded : SubOf[x] = s
      BY <1>2, <3>2, BillingAssumption DEF BillingInv, RecordInv
    <3>4. QED BY <1>3, <1>4, <1>6, <3>1, <3>2, <3>3
  <2>3. QED BY <2>1, <2>2
<1>12. QED BY <1>3, <1>7, <1>8, <1>9, <1>10, <1>11, SameStripe DEF BillingInv

\* A step that changes one request, and of the rest at most what Stripe knows.
LEMMA RequestKeeps ==
    ASSUME BillingInv, StripeInv', NEW h \in Request, NEW r \in StateRequest,
           req' = [req EXCEPT ![h] = r],
           UNCHANGED <<row, credited, spent, call, spender, deaths, hist, paid>>,
           sub' \in [Sub -> StripeSub], moves' \in 0..MaxMoves,
           news \subseteq news', news' \subseteq News, acked' \subseteq acked,
           acked' \subseteq news',
           r.at # "idle" => \E x \in hist.recorded : r.subscription = SubOf[x],
           r.at = "answered" =>
               /\ ~Troubled(r.subscription)' => r.write \in {"none", "on"}
               /\ Deleted(r.subscription) \in acked => r.write # "on"
    PROVE  BillingInv'
<1>1. /\ req'[h] = r /\ \A g \in Request \ {h} : req'[g] = req[g]
      /\ req' \in [Request -> StateRequest]
  BY DEF BillingInv, TypeOK
<1>2. TypeOK'
  BY <1>1 DEF BillingInv, TypeOK
<1>3. CallInv' /\ CreditsAddUp'
  BY CreditsUntouched
<1>4. RecordInv'
  BY <1>1 DEF BillingInv, RecordInv
<1>5. \A s \in Sub : Troubled(s) => Troubled(s)'
  BY DEF Troubled
<1>6. OnInv'
  <2> SUFFICES ASSUME NEW s \in Sub, ~Troubled(s)'
               PROVE  /\ row'.subscription = s /\ s \notin hist'.stale
                             => row'.plusActive /\ ~row'.canceled
                      /\ \A g \in Request : req'[g].at = "answered" /\ req'[g].subscription = s
                             => req'[g].write \in {"none", "on"}
    BY DEF OnInv
  <2>1. QED BY <1>1, <1>5 DEF BillingInv, OnInv
<1>7. OffInv'
  <2> SUFFICES ASSUME NEW s \in Sub, Deleted(s) \in acked', s \notin hist'.revived
               PROVE  /\ \E x \in hist'.recorded : SubOf[x] = s
                      /\ row'.subscription = s => ~row'.plusActive
                      /\ \A g \in Request : req'[g].at = "answered" /\ req'[g].subscription = s
                             => req'[g].write # "on"
    BY DEF OffInv
  <2>1. QED BY <1>1 DEF BillingInv, OffInv
<1>8. QED BY <1>2, <1>3, <1>4, <1>6, <1>7 DEF BillingInv

LEMMA ReadRowKeeps ==
    ASSUME BillingInv, NEW h \in Request, NEW kind \in {"sync", "end", "cancel", "reactivate"},
           ReadRow(h, kind)
    PROVE  BillingInv'
<1> DEFINE r == [at |-> "read", kind |-> kind, subscription |-> row.subscription,
                 seenActive |-> row.plusActive, seenCanceled |-> row.canceled,
                 write |-> "none"]
<1>1. /\ req' = [req EXCEPT ![h] = r] /\ row.subscription # NoSub
      /\ UNCHANGED <<row, credited, spent, call, spender, deaths, hist, paid, sub, news, acked>>
  BY DEF ReadRow, SetReq, stripe
<1>2. r \in StateRequest
  BY DEF BillingInv, TypeOK, Row, StateRequest
<1>3. moves' \in 0..MaxMoves
  BY BillingAssumption DEF BillingInv, TypeOK, ReadRow, Move
<1>4. \E x \in hist.recorded : r.subscription = SubOf[x]
  BY <1>1 DEF BillingInv, RecordInv
<1>5. r.at = "read"
  OBVIOUS
<1> HIDE DEF r
<1>6. sub' \in [Sub -> StripeSub] /\ news' \subseteq News /\ acked' \subseteq news'
  BY <1>1 DEF BillingInv, TypeOK
<1>7. QED BY <1>1, <1>2, <1>3, <1>4, <1>5, <1>6, SameStripe, RequestKeeps

LEMMA RequestDiesKeeps ==
    ASSUME BillingInv, NEW h \in Request, RequestDies(h)
    PROVE  BillingInv'
<1>1. /\ req' = [req EXCEPT ![h] = IdleRequest]
      /\ UNCHANGED <<row, credited, spent, call, spender, deaths, hist, paid, sub, news, acked, moves>>
  BY DEF RequestDies, SetReq, stripe
<1>2. IdleRequest \in StateRequest /\ IdleRequest.at = "idle"
  BY DEF StateRequest, IdleRequest
<1>3. /\ sub' \in [Sub -> StripeSub] /\ news' \subseteq News /\ acked' \subseteq news'
      /\ moves' \in 0..MaxMoves
  BY <1>1 DEF BillingInv, TypeOK
<1>4. QED BY <1>1, <1>2, <1>3, SameStripe, RequestKeeps

\* What a request that Stripe answers knows of its subscription.
LEMMA RequestFacts ==
    ASSUME BillingInv, NEW h \in Request, req[h].at = "read"
    PROVE  /\ req[h].subscription \in Sub
           /\ sub[req[h].subscription].status # "none"
           /\ sub[req[h].subscription] \in StripeSub
           /\ \E x \in hist.recorded : req[h].subscription = SubOf[x]
<1>1. PICK x \in hist.recorded : req[h].subscription = SubOf[x]
  BY DEF BillingInv, RecordInv
<1>2. x \in PlusSession /\ x \in paid
  BY DEF BillingInv, RecordInv, TypeOK
<1>3. SubOf[x] \in Sub
  BY <1>2, BillingAssumption
<1>4. QED BY <1>1, <1>2, <1>3 DEF BillingInv, StripeInv, TypeOK

LEMMA AnsweredFacts ==
    ASSUME NEW q \in StateRequest, NEW write \in {"none", "on", "off", "stamp"}
    PROVE  /\ Answered(q, write) \in StateRequest /\ Answered(q, write).at = "answered"
           /\ Answered(q, write).subscription = q.subscription
           /\ Answered(q, write).write = write
  BY DEF Answered, StateRequest

LEMMA AskSyncKeeps ==
    ASSUME BillingInv, NEW h \in Request, AskSync(h)
    PROVE  BillingInv'
<1>1. PICK q, w, r : q = req[h] /\ w = SyncWrite(q, q.subscription) /\ r = Answered(q, w)
  OBVIOUS
<1>2. /\ req' = [req EXCEPT ![h] = r] /\ req[h].at = "read"
      /\ UNCHANGED <<row, credited, spent, call, spender, deaths, hist, paid, sub, news, acked, moves>>
  BY <1>1 DEF AskSync, SetReq, stripe
<1>3. q \in StateRequest
  BY <1>1 DEF BillingInv, TypeOK
<1>4. w \in {"none", "on", "off", "stamp"}
  BY <1>1 DEF SyncWrite
<1>5. /\ r \in StateRequest /\ r.at = "answered" /\ r.subscription = q.subscription
      /\ r.write = w
  BY <1>1, <1>3, <1>4, AnsweredFacts
<1>6. /\ q.subscription \in Sub /\ sub[q.subscription].status # "none"
      /\ sub[q.subscription] \in StripeSub
      /\ \E x \in hist.recorded : q.subscription = SubOf[x]
  BY <1>1, <1>2, RequestFacts
<1>7. ~Troubled(r.subscription)' => r.write \in {"none", "on"}
  BY <1>1, <1>5, <1>6, <1>2, SameStripe DEF BillingInv, StripeInv, SyncWrite, StripeSub
<1>8. Deleted(r.subscription) \in acked => r.write # "on"
  BY <1>1, <1>5, <1>6 DEF BillingInv, TypeOK, StripeInv, SyncWrite
<1>9. /\ sub' \in [Sub -> StripeSub] /\ news' \subseteq News /\ acked' \subseteq news'
      /\ moves' \in 0..MaxMoves
  BY <1>2 DEF BillingInv, TypeOK
<1>10. QED BY <1>2, <1>5, <1>6, <1>7, <1>8, <1>9, SameStripe, RequestKeeps

LEMMA AskEndKeeps ==
    ASSUME BillingInv, NEW h \in Request, AskEnd(h)
    PROVE  BillingInv'
<1>1. PICK q, r, s : q = req[h] /\ r = Answered(q, "off") /\ s = q.subscription
  OBVIOUS
<1>2. /\ req' = [req EXCEPT ![h] = r] /\ req[h].at = "read"
      /\ UNCHANGED <<row, credited, spent, call, spender, deaths, hist, paid, moves>>
      /\ sub[s].status # "canceled"
      /\ sub' = [sub EXCEPT ![s] = [status |-> "canceled", ending |-> sub[s].ending]]
      /\ news' = news \cup {Deleted(s)} /\ acked' = acked \ {Deleted(s)}
  BY <1>1 DEF AskEnd, SetReq, SetSub, Send
<1>3. q \in StateRequest
  BY <1>1 DEF BillingInv, TypeOK
<1>5. /\ r \in StateRequest /\ r.at = "answered" /\ r.subscription = s
      /\ r.write = "off"
  BY <1>1, <1>3, AnsweredFacts
<1>6. /\ s \in Sub /\ sub[s].status # "none" /\ sub[s] \in StripeSub
      /\ \E x \in hist.recorded : s = SubOf[x]
  BY <1>1, <1>2, RequestFacts
<1>7. Troubled(s)' /\ \A t \in Sub \ {s} : Troubled(t)' <=> Troubled(t)
  BY <1>2, <1>6, NewsAreApart DEF Troubled
<1>8. /\ sub'[s].status = "canceled" /\ sub'[s].ending = sub[s].ending
      /\ \A t \in Sub \ {s} : sub'[t] = sub[t]
      /\ sub' \in [Sub -> StripeSub]
  BY <1>2, <1>6 DEF BillingInv, TypeOK, StripeSub
<1>9. StripeInv'
  <2>1. \A t \in Sub :
             /\ sub'[t].status = "none" => ~sub'[t].ending /\ ~Troubled(t)'
             /\ sub'[t].ending \/ sub'[t].status \in {"past_due", "unpaid", "canceled"}
                  => Troubled(t)'
    BY <1>6, <1>7, <1>8 DEF BillingInv, StripeInv
  <2>2. \A t \in Sub : Deleted(t) \in news' => sub'[t].status = "canceled"
    BY <1>2, <1>6, <1>8, NewsAreApart, DeletedIsOfOne DEF BillingInv, StripeInv
  <2>3. \A x \in Session : Completed(x) \in news' => x \in paid'
    BY <1>2, NewsAreApart DEF BillingInv, StripeInv
  <2>4. \A x \in PlusSession : x \in paid' <=> sub'[SubOf[x]].status # "none"
    BY <1>2, <1>6, <1>8, BillingAssumption DEF BillingInv, StripeInv
  <2>5. QED BY <2>1, <2>2, <2>3, <2>4 DEF StripeInv
<1>10. /\ ~Troubled(r.subscription)' => r.write \in {"none", "on"}
       /\ Deleted(r.subscription) \in acked => r.write # "on"
  BY <1>2, <1>5, <1>6, <1>7 DEF BillingInv, StripeInv, TypeOK
<1>11. /\ news \subseteq news' /\ news' \subseteq News /\ acked' \subseteq acked
       /\ acked' \subseteq news'
  BY <1>2, <1>6, NewsAreApart DEF BillingInv, TypeOK, News
<1>12. moves' \in 0..MaxMoves
  BY <1>2 DEF BillingInv, TypeOK
<1>13. QED BY <1>2, <1>5, <1>6, <1>8, <1>9, <1>10, <1>11, <1>12, RequestKeeps

LEMMA AskCancelKeeps ==
    ASSUME BillingInv, NEW h \in Request, AskCancel(h)
    PROVE  BillingInv'
<1>1. PICK q, r, s : q = req[h] /\ r = Answered(q, "stamp") /\ s = q.subscription
  OBVIOUS
<1>2. /\ req' = [req EXCEPT ![h] = r] /\ req[h].at = "read"
      /\ UNCHANGED <<row, credited, spent, call, spender, deaths, hist, paid, moves>>
      /\ sub[s].status # "canceled"
      /\ sub' = [sub EXCEPT ![s] = [status |-> sub[s].status, ending |-> TRUE]]
      /\ news' = news \cup {Ending(s)} /\ acked' = acked \ {Ending(s)}
  BY <1>1 DEF AskCancel, SetReq, SetSub, Send
<1>3. q \in StateRequest
  BY <1>1 DEF BillingInv, TypeOK
<1>5. /\ r \in StateRequest /\ r.at = "answered" /\ r.subscription = s
      /\ r.write = "stamp"
  BY <1>1, <1>3, AnsweredFacts
<1>6. /\ s \in Sub /\ sub[s].status # "none" /\ sub[s] \in StripeSub
      /\ \E x \in hist.recorded : s = SubOf[x]
  BY <1>1, <1>2, RequestFacts
<1>7. Troubled(s)' /\ \A t \in Sub \ {s} : Troubled(t)' <=> Troubled(t)
  BY <1>2, <1>6, NewsAreApart DEF Troubled
<1>8. /\ sub'[s].status = sub[s].status /\ sub'[s].ending = TRUE
      /\ \A t \in Sub \ {s} : sub'[t] = sub[t]
      /\ sub' \in [Sub -> StripeSub]
  BY <1>2, <1>6 DEF BillingInv, TypeOK, StripeSub
<1>9. StripeInv'
  <2>1. \A t \in Sub :
             /\ sub'[t].status = "none" => ~sub'[t].ending /\ ~Troubled(t)'
             /\ sub'[t].ending \/ sub'[t].status \in {"past_due", "unpaid", "canceled"}
                  => Troubled(t)'
    BY <1>6, <1>7, <1>8 DEF BillingInv, StripeInv
  <2>2. \A t \in Sub : Deleted(t) \in news' => sub'[t].status = "canceled"
    BY <1>2, <1>6, <1>8, NewsAreApart, DeletedIsOfOne DEF BillingInv, StripeInv
  <2>3. \A x \in Session : Completed(x) \in news' => x \in paid'
    BY <1>2, NewsAreApart DEF BillingInv, StripeInv
  <2>4. \A x \in PlusSession : x \in paid' <=> sub'[SubOf[x]].status # "none"
    BY <1>2, <1>6, <1>8, BillingAssumption DEF BillingInv, StripeInv
  <2>5. QED BY <2>1, <2>2, <2>3, <2>4 DEF StripeInv
<1>10. /\ ~Troubled(r.subscription)' => r.write \in {"none", "on"}
       /\ Deleted(r.subscription) \in acked => r.write # "on"
  BY <1>2, <1>5, <1>6, <1>7 DEF BillingInv, StripeInv, TypeOK
<1>11. /\ news \subseteq news' /\ news' \subseteq News /\ acked' \subseteq acked
       /\ acked' \subseteq news'
  BY <1>2, <1>6, NewsAreApart DEF BillingInv, TypeOK, News
<1>12. moves' \in 0..MaxMoves
  BY <1>2 DEF BillingInv, TypeOK
<1>13. QED BY <1>2, <1>5, <1>6, <1>8, <1>9, <1>10, <1>11, <1>12, RequestKeeps

LEMMA AskReactivateKeeps ==
    ASSUME BillingInv, NEW h \in Request, AskReactivate(h)
    PROVE  BillingInv'
<1>1. PICK q, r, s : q = req[h] /\ r = Answered(q, "on") /\ s = q.subscription
  OBVIOUS
<1>2. /\ req' = [req EXCEPT ![h] = r] /\ req[h].at = "read"
      /\ UNCHANGED <<row, credited, spent, call, spender, deaths, hist, paid, moves>>
      /\ sub[s].status # "canceled"
      /\ sub' = [sub EXCEPT ![s] = [status |-> sub[s].status, ending |-> FALSE]]
      /\ news' = news /\ acked' = acked
  BY <1>1 DEF AskReactivate, SetReq, SetSub
<1>3. q \in StateRequest
  BY <1>1 DEF BillingInv, TypeOK
<1>5. /\ r \in StateRequest /\ r.at = "answered" /\ r.subscription = s
      /\ r.write = "on"
  BY <1>1, <1>3, AnsweredFacts
<1>6. /\ s \in Sub /\ sub[s].status # "none" /\ sub[s] \in StripeSub
      /\ \E x \in hist.recorded : s = SubOf[x]
  BY <1>1, <1>2, RequestFacts
<1>7. \A t \in Sub : Troubled(t)' <=> Troubled(t)
  BY <1>2 DEF Troubled
<1>8. /\ sub'[s].status = sub[s].status /\ sub'[s].ending = FALSE
      /\ \A t \in Sub \ {s} : sub'[t] = sub[t]
      /\ sub' \in [Sub -> StripeSub]
  BY <1>2, <1>6 DEF BillingInv, TypeOK, StripeSub
<1>9. StripeInv'
  <2>1. \A t \in Sub :
             /\ sub'[t].status = "none" => ~sub'[t].ending /\ ~Troubled(t)'
             /\ sub'[t].ending \/ sub'[t].status \in {"past_due", "unpaid", "canceled"}
                  => Troubled(t)'
    BY <1>6, <1>7, <1>8 DEF BillingInv, StripeInv
  <2>2. \A t \in Sub : Deleted(t) \in news' => sub'[t].status = "canceled"
    BY <1>2, <1>6, <1>8, NewsAreApart, DeletedIsOfOne DEF BillingInv, StripeInv
  <2>3. \A x \in Session : Completed(x) \in news' => x \in paid'
    BY <1>2, NewsAreApart DEF BillingInv, StripeInv
  <2>4. \A x \in PlusSession : x \in paid' <=> sub'[SubOf[x]].status # "none"
    BY <1>2, <1>6, <1>8, BillingAssumption DEF BillingInv, StripeInv
  <2>5. QED BY <2>1, <2>2, <2>3, <2>4 DEF StripeInv
<1>10. /\ ~Troubled(r.subscription)' => r.write \in {"none", "on"}
       /\ Deleted(r.subscription) \in acked => r.write # "on"
  BY <1>2, <1>5, <1>6, <1>7 DEF BillingInv, StripeInv, TypeOK
<1>11. /\ news \subseteq news' /\ news' \subseteq News /\ acked' \subseteq acked
       /\ acked' \subseteq news'
  BY <1>2, <1>6, NewsAreApart DEF BillingInv, TypeOK, News
<1>12. moves' \in 0..MaxMoves
  BY <1>2 DEF BillingInv, TypeOK
<1>13. QED BY <1>2, <1>5, <1>6, <1>8, <1>9, <1>10, <1>11, <1>12, RequestKeeps

LEMMA ApplyKeeps ==
    ASSUME BillingInv, NEW h \in Request, Apply(h)
    PROVE  BillingInv'
<1>1. PICK r : r = req[h]
  OBVIOUS
<1>2. /\ r.at = "answered" /\ r \in StateRequest
      /\ req' = [req EXCEPT ![h] = IdleRequest]
      /\ UNCHANGED <<credited, spent, call, spender, deaths, paid, sub, news, acked, moves>>
      /\ hist' = [recorded |-> hist.recorded,
                  revived |-> IF r.write = "on" /\ r.subscription # row.subscription
                              THEN hist.revived \cup ({row.subscription} \cap Sub)
                              ELSE hist.revived,
                  stale |-> IF r.subscription # row.subscription
                            THEN hist.stale \cup ({row.subscription} \cap Sub)
                            ELSE hist.stale]
  BY <1>1 DEF Apply, SetReq, stripe, BillingInv, TypeOK
<1>3. /\ row' \in Row /\ row'.subscription = row.subscription
      /\ row'.fileCredits = row.fileCredits
      /\ r.write = "on" => row'.plusActive /\ ~row'.canceled
      /\ r.write = "off" => ~row'.plusActive
      /\ r.write = "stamp" => row'.plusActive = row.plusActive
      /\ r.write = "none" => row' = row
      /\ r.write \in {"none", "on", "off", "stamp"}
  <2>1. row.plusActive \in BOOLEAN /\ row \in Row /\ TypeOK
    BY DEF BillingInv, TypeOK, Row
  <2>2. \/ r.write = "on" /\ SetRow(TRUE, FALSE)
        \/ r.write = "off" /\ SetRow(FALSE, TRUE)
        \/ r.write = "stamp" /\ SetRow(row.plusActive, TRUE)
        \/ r.write = "none" /\ UNCHANGED row
    BY <1>1 DEF Apply
  <2>3. QED BY <2>1, <2>2, SetRowFacts
<1>4. /\ hist'.recorded = hist.recorded
      /\ hist.revived \subseteq hist'.revived /\ hist.stale \subseteq hist'.stale
      /\ r.write = "on" /\ r.subscription # row.subscription =>
             {row.subscription} \cap Sub \subseteq hist'.revived
      /\ r.subscription # row.subscription => {row.subscription} \cap Sub \subseteq hist'.stale
      /\ hist' \in [recorded : SUBSET PlusSession, revived : SUBSET Sub, stale : SUBSET Sub]
  BY <1>2 DEF BillingInv, TypeOK
<1>5. /\ req'[h] = IdleRequest /\ \A g \in Request \ {h} : req'[g] = req[g]
      /\ req' \in [Request -> StateRequest]
  BY <1>2 DEF BillingInv, TypeOK, IdleRequest, StateRequest
<1>6. TypeOK'
  BY <1>2, <1>3, <1>4, <1>5 DEF BillingInv, TypeOK
<1>7. CallInv' /\ CreditsAddUp'
  BY <1>2, <1>3, CreditsUntouched
<1>8. RecordInv'
  BY <1>2, <1>3, <1>4, <1>5 DEF BillingInv, RecordInv, IdleRequest
<1>9. OnInv'
  <2> SUFFICES ASSUME NEW s \in Sub, ~Troubled(s)'
               PROVE  /\ row'.subscription = s /\ s \notin hist'.stale
                             => row'.plusActive /\ ~row'.canceled
                      /\ \A g \in Request : req'[g].at = "answered" /\ req'[g].subscription = s
                             => req'[g].write \in {"none", "on"}
    BY DEF OnInv
  <2>1. ~Troubled(s)
    BY <1>2, SameStripe
  <2>2. row'.subscription = s /\ s \notin hist'.stale => r.write \in {"none", "on"}
    BY <1>1, <1>2, <1>3, <1>4, <2>1 DEF BillingInv, OnInv
  <2>3. row'.subscription = s /\ s \notin hist'.stale => row'.plusActive /\ ~row'.canceled
    BY <1>3, <1>4, <2>1, <2>2 DEF BillingInv, OnInv
  <2>4. QED BY <1>5, <2>1, <2>3 DEF BillingInv, OnInv, IdleRequest
<1>10. OffInv'
  <2> SUFFICES ASSUME NEW s \in Sub, Deleted(s) \in acked', s \notin hist'.revived
               PROVE  /\ \E x \in hist'.recorded : SubOf[x] = s
                      /\ row'.subscription = s => ~row'.plusActive
                      /\ \A g \in Request : req'[g].at = "answered" /\ req'[g].subscription = s
                             => req'[g].write # "on"
    BY DEF OffInv
  <2>1. Deleted(s) \in acked /\ s \notin hist.revived
    BY <1>2, <1>4
  <2>2. row.subscription = s => r.write # "on" /\ ~row.plusActive
    BY <1>1, <1>2, <1>4, <2>1 DEF BillingInv, OffInv
  <2>3. row'.subscription = s => ~row'.plusActive
    BY <1>3, <2>2
  <2>4. QED BY <1>4, <1>5, <2>1, <2>3 DEF BillingInv, OffInv, IdleRequest
<1>11. QED BY <1>2, <1>6, <1>7, <1>8, <1>9, <1>10, SameStripe DEF BillingInv

LEMMA CancelManuallyKeeps ==
    ASSUME BillingInv, CancelManually
    PROVE  BillingInv'
<1>1. /\ UNCHANGED <<credited, spent, call, req, spender, deaths, paid, sub, news, acked>>
      /\ hist' = [recorded |-> hist.recorded, revived |-> hist.revived,
                  stale |-> hist.stale \cup ({row.subscription} \cap Sub)]
  BY DEF CancelManually, stripe
<1>2. /\ row' \in Row /\ ~row'.plusActive /\ row'.subscription = row.subscription
      /\ row'.fileCredits = row.fileCredits
  BY SetRowFacts DEF CancelManually, BillingInv
<1>3. /\ hist'.recorded = hist.recorded /\ hist'.revived = hist.revived
      /\ hist'.stale = hist.stale \cup ({row.subscription} \cap Sub)
      /\ hist' \in [recorded : SUBSET PlusSession, revived : SUBSET Sub, stale : SUBSET Sub]
  BY <1>1 DEF BillingInv, TypeOK
<1>4. moves' \in 0..MaxMoves
  BY BillingAssumption DEF BillingInv, TypeOK, CancelManually, Move
<1>5. TypeOK'
  BY <1>1, <1>2, <1>3, <1>4 DEF BillingInv, TypeOK
<1>6. CallInv' /\ CreditsAddUp'
  BY <1>1, <1>2, CreditsUntouched
<1>7. RecordInv' /\ OnInv' /\ OffInv'
  BY <1>1, <1>2, <1>3, SameStripe DEF BillingInv, RecordInv, OnInv, OffInv
<1>8. QED BY <1>1, <1>5, <1>6, <1>7, SameStripe DEF BillingInv

-----------------------------------------------------------------------------
LEMMA SpendReadsKeeps ==
    ASSUME BillingInv, NEW c \in Spender, SpendReads(c)
    PROVE  BillingInv'
<1>1. /\ UNCHANGED <<credited, spent, call, req, deaths, hist, paid, sub, news, acked, moves>>
      /\ row' = [row EXCEPT !.exists = TRUE]
      /\ spender' = [spender EXCEPT ![c] = IF row.plusActive THEN "idle" ELSE "charge"]
  BY DEF SpendReads, stripe
<1>2. /\ row' \in Row /\ row'.subscription = row.subscription
      /\ row'.plusActive = row.plusActive /\ row'.canceled = row.canceled
      /\ row'.fileCredits = row.fileCredits
  BY <1>1 DEF BillingInv, TypeOK, Row
<1>3. spender' \in [Spender -> {"idle", "charge"}]
  BY <1>1 DEF BillingInv, TypeOK
<1>4. TypeOK'
  BY <1>1, <1>2, <1>3 DEF BillingInv, TypeOK
<1>5. CallInv' /\ CreditsAddUp'
  BY <1>1, <1>2, CreditsUntouched
<1>6. RecordInv' /\ OnInv' /\ OffInv'
  BY <1>1, <1>2, SameStripe DEF BillingInv, RecordInv, OnInv, OffInv
<1>7. QED BY <1>1, <1>4, <1>5, <1>6, SameStripe DEF BillingInv

LEMMA SpendChargesKeeps ==
    ASSUME BillingInv, NEW c \in Spender, SpendCharges(c)
    PROVE  BillingInv'
<1>1. /\ UNCHANGED <<credited, call, req, deaths, hist, paid, sub, news, acked, moves>>
      /\ spender' = [spender EXCEPT ![c] = "idle"]
  BY DEF SpendCharges, stripe
<1>2. /\ row.fileCredits \in Nat /\ spent \in Nat /\ row \in Row
  BY DEF BillingInv, TypeOK, Row
<1>3. /\ row' \in Row /\ row'.subscription = row.subscription
      /\ row'.plusActive = row.plusActive /\ row'.canceled = row.canceled
      /\ spent' \in Nat /\ row'.fileCredits + spent' = row.fileCredits + spent
  <2>1. CASE row.fileCredits > 0
    <3>1. /\ row' = [row EXCEPT !.fileCredits = row.fileCredits - 1]
          /\ spent' = spent + 1
      BY <2>1 DEF SpendCharges
    <3>2. row.fileCredits - 1 \in Nat
      BY <1>2, <2>1
    <3>3. row'.fileCredits = row.fileCredits - 1 /\ row' \in Row
      BY <1>2, <3>1, <3>2 DEF Row
    <3>4. QED BY <1>2, <3>1, <3>3 DEF Row
  <2>2. CASE ~(row.fileCredits > 0)
    BY <1>2, <2>2 DEF SpendCharges
  <2>3. QED BY <2>1, <2>2
<1>4. spender' \in [Spender -> {"idle", "charge"}]
  BY <1>1 DEF BillingInv, TypeOK
<1>5. TypeOK'
  BY <1>1, <1>3, <1>4 DEF BillingInv, TypeOK
<1>6. CallInv'
  BY <1>1 DEF BillingInv, CallInv
<1>7. CreditsAddUp'
  BY <1>1, <1>3 DEF BillingInv, CreditsAddUp
<1>8. RecordInv' /\ OnInv' /\ OffInv'
  BY <1>1, <1>3, SameStripe DEF BillingInv, RecordInv, OnInv, OffInv
<1>9. QED BY <1>1, <1>5, <1>6, <1>7, <1>8, SameStripe DEF BillingInv

-----------------------------------------------------------------------------
\* BillingInv is inductive: it holds in every reachable state, whatever Stripe
\* delivers, the person asks and dies on the way.
THEOREM BillingInvariant == Spec => []BillingInv
<1>1. BillingInv /\ [Next]_vars => BillingInv'
  <2> SUFFICES ASSUME BillingInv, [Next]_vars PROVE BillingInv'
    OBVIOUS
  <2>1. CASE StripeMoves
    BY <2>1, StripeKeeps
  <2>2. ASSUME NEW p \in Call, CallStep(p) PROVE BillingInv'
    <3>1. ASSUME NEW x \in Session, DeliverCompleted(p, x) PROVE BillingInv'
      <4>1. ProductOf[x] \in Product /\ x \in paid
        BY <3>1, BillingAssumption DEF DeliverCompleted, BillingInv, StripeInv, Product
      <4>2. QED BY <3>1, <4>1, ClaimKeeps DEF DeliverCompleted
    <3>2. ASSUME NEW x \in Session, Confirm(p, x) PROVE BillingInv'
      <4>1. ProductOf[x] \in Product
        BY BillingAssumption DEF Product
      <4>2. QED BY <3>2, <4>1, ClaimKeeps DEF Confirm
    <3>3. ASSUME NEW x \in Session, NEW product \in {"plus", "file"},
                 ActivateManually(p, x, product)
          PROVE BillingInv'
      BY <3>3, ClaimKeeps DEF ActivateManually, Product
    <3>4. QED BY <2>2, <3>1, <3>2, <3>3, CommitKeeps DEF CallStep
  <2>3. ASSUME NEW h \in Request, RequestStep(h) PROVE BillingInv'
    BY <2>3, ReadRowKeeps, AskSyncKeeps, AskEndKeeps, AskCancelKeeps, AskReactivateKeeps,
       ApplyKeeps, RequestDiesKeeps DEF RequestStep
  <2>4. CASE UNCHANGED vars
    <3>1. UNCHANGED <<row, credited, spent, call, req, spender, paid, sub, news, acked,
                      deaths, moves, hist>>
      BY <2>4 DEF vars
    <3>2. TypeOK'
      BY <3>1 DEF BillingInv, TypeOK
    <3>3. CallInv' /\ CreditsAddUp'
      BY <3>1, CreditsUntouched
    <3>4. RecordInv' /\ OnInv' /\ OffInv'
      BY <3>1, SameStripe DEF BillingInv, RecordInv, OnInv, OffInv
    <3>5. QED BY <3>1, <3>2, <3>3, <3>4, SameStripe DEF BillingInv
  <2>5. ASSUME NEW x \in Session, DeliverAgain(x) PROVE BillingInv'
    BY <2>5, DeliverAgainKeeps
  <2>6. ASSUME NEW message \in Trouble, NEW answered \in BOOLEAN,
               DeliverTrouble(message, answered)
        PROVE BillingInv'
    BY <2>6, TroubleKeeps
  <2>7. QED BY <2>1, <2>2, <2>3, <2>4, <2>5, <2>6, CallDiesKeeps, CancelManuallyKeeps,
               SpendReadsKeeps, SpendChargesKeeps DEF Next
<1>2. QED BY <1>1, BillingInvInit, PTL DEF Spec

\* The variables stay in their types, the balance among the naturals: no interleaving
\* of spenders takes it below zero (billingRepository.ts:148-172).
THEOREM TypeCorrect == Spec => []TypeOK
<1>1. BillingInv => TypeOK BY DEF BillingInv
<1>2. QED BY <1>1, BillingInvariant, PTL

\* The balance is what was credited less what was spent, however many callers credit
\* the same session and die doing it.
THEOREM TheBalanceAddsUp == Spec => []CreditsAddUp
<1>1. BillingInv => CreditsAddUp BY DEF BillingInv
<1>2. QED BY <1>1, BillingInvariant, PTL

\* Nothing about another subscription turns a paid one off.
THEOREM WhoPaysHasPlus == Spec => []PaidIsOn
<1>1. BillingInv => PaidIsOn BY DEF BillingInv, OnInv, PaidIsOn, Troubled
<1>2. QED BY <1>1, BillingInvariant, PTL

\* A subscription whose end was acknowledged does not keep Plus on.
THEOREM TheEndTurnsPlusOff == Spec => []EndedIsOff
<1>1. BillingInv => EndedIsOff BY DEF BillingInv, OffInv, EndedIsOff
<1>2. QED BY <1>1, BillingInvariant, PTL

\* The row never forgets the subscription it can ask Stripe about.
THEOREM TheWayBackStays == Spec => []WayBack
<1>1. BillingInv => WayBack BY DEF BillingInv, RecordInv, WayBack
<1>2. QED BY <1>1, BillingInvariant, PTL

-----------------------------------------------------------------------------
(***************************************************************************)
(* The record as an account: every step of Billing is one of PlusAccount,  *)
(* or changes nothing of it. A claim, a request's question to Stripe and   *)
(* what dies leave the account alone; the commit is the grant.             *)
(***************************************************************************)
AccountStays == UNCHANGED <<credited, row.fileCredits, row.plusActive, row.subscription>>

LEMMA StayIsStutter ==
    ASSUME AccountStays
    PROVE  UNCHANGED Account!vars
  BY DEF AccountStays, Account!vars

LEMMA SameRowStays ==
    ASSUME UNCHANGED <<row, credited>>
    PROVE  UNCHANGED Account!vars
  BY DEF Account!vars

\* SetRow moves Plus and nothing else of the account.
LEMMA SwitchIsAllowed ==
    ASSUME TypeOK, UNCHANGED credited,
           NEW active \in BOOLEAN, NEW canceled \in BOOLEAN, SetRow(active, canceled),
           active => row.plusActive \/ row.subscription # NoSub
    PROVE  Account!Next \/ UNCHANGED Account!vars
<1>1. /\ row'.plusActive = active /\ row'.subscription = row.subscription
      /\ row'.fileCredits = row.fileCredits
  BY SetRowFacts
<1>2. CASE ~active
  BY <1>1, <1>2 DEF Account!Next, Account!Suspend
<1>3. CASE active /\ row.subscription # NoSub
  BY <1>1, <1>3 DEF Account!Next, Account!Resume
<1>4. CASE active /\ row.plusActive
  <2>1. row.plusActive = TRUE
    BY <1>4 DEF TypeOK, Row
  <2>2. QED BY <1>1, <1>4, <2>1, StayIsStutter DEF AccountStays
<1>5. QED BY <1>2, <1>3, <1>4

LEMMA CommitIsGrant ==
    ASSUME BillingInv, NEW p \in Call, NEW answered \in BOOLEAN, CommitCredit(p, answered)
    PROVE  Account!Next
<1> USE BillingAssumption
<1>1. PICK c : c = call[p]
  OBVIOUS
<1>2. /\ c \in CreditCall /\ c.session \in Session /\ credited[c.session] = "none"
      /\ c.product \in Product
  BY <1>1 DEF BillingInv, TypeOK, CallInv, CommitCredit, CreditCall
<1>3. row' = Bought(c) /\ credited' = [credited EXCEPT ![c.session] = c.product]
  BY <1>1 DEF CommitCredit
<1>4. Account!Grant(c.session, c.product)
  BY <1>2, <1>3 DEF Account!Grant
<1>5. CASE c.product = "plus"
  <2>1. /\ row'.plusActive = TRUE /\ row'.fileCredits = row.fileCredits
        /\ row'.subscription = RecordedId(c)
    BY <1>3, <1>5 DEF Bought
  <2>2. IdOf(c) = NoSub \/ (c.session \in DOMAIN SubOf /\ IdOf(c) = SubOf[c.session])
    BY DEF IdOf
  <2>3. \/ row'.subscription = row.subscription
        \/ c.session \in DOMAIN SubOf /\ row'.subscription = SubOf[c.session]
    BY <2>1, <2>2 DEF RecordedId
  <2>4. Account!GrantPlus(c.session)
    BY <1>4, <1>5, <2>1, <2>3 DEF Account!GrantPlus
  <2>5. QED BY <1>2, <2>4 DEF Account!Next
<1>6. CASE c.product = "file"
  <2>1. /\ row'.plusActive = row.plusActive /\ row'.subscription = row.subscription
        /\ row'.fileCredits = row.fileCredits + 1
    BY <1>3, <1>6 DEF Bought
  <2>2. Account!GrantCredit(c.session)
    BY <1>4, <1>6, <2>1 DEF Account!GrantCredit
  <2>3. QED BY <1>2, <2>2 DEF Account!Next
<1>7. CASE c.product = "founder"
  <2>1. /\ row'.plusActive = row.plusActive /\ row'.subscription = row.subscription
        /\ row'.fileCredits = row.fileCredits
    BY <1>3, <1>7 DEF Bought
  <2>2. Account!GrantFounder(c.session)
    BY <1>4, <1>7, <2>1 DEF Account!GrantFounder
  <2>3. QED BY <1>2, <2>2 DEF Account!Next
<1>8. QED BY <1>2, <1>5, <1>6, <1>7 DEF Product

\* A request that has read the row was started by a subscriber, and who subscribed
\* still is.
LEMMA AskersAreSubscribed ==
    ASSUME BillingInv, NEW h \in Request, req[h].at # "idle"
    PROVE  row.subscription # NoSub
<1>1. hist.recorded # {} /\ hist.recorded \subseteq PlusSession
  BY DEF BillingInv, TypeOK, RecordInv
<1>2. PICK x \in hist.recorded : row.subscription = SubOf[x]
  BY <1>1 DEF BillingInv, RecordInv
<1>3. QED BY <1>1, <1>2, BillingAssumption

LEMMA ApplyIsSwitch ==
    ASSUME BillingInv, NEW h \in Request, Apply(h)
    PROVE  Account!Next \/ UNCHANGED Account!vars
<1>1. TypeOK /\ UNCHANGED credited /\ row.subscription # NoSub
  BY AskersAreSubscribed DEF BillingInv, Apply
<1>2. CASE SetRow(TRUE, FALSE)
  BY <1>1, <1>2, SwitchIsAllowed
<1>3. CASE SetRow(FALSE, TRUE)
  BY <1>1, <1>3, SwitchIsAllowed
<1>4. CASE SetRow(row.plusActive, TRUE)
  <2>1. row.plusActive \in BOOLEAN
    BY <1>1 DEF TypeOK, Row
  <2>2. QED BY <1>1, <1>4, <2>1, SwitchIsAllowed
<1>5. CASE UNCHANGED row
  BY <1>1, <1>5, SameRowStays
<1>6. QED BY <1>2, <1>3, <1>4, <1>5 DEF Apply

LEMMA TroubleIsSwitch ==
    ASSUME BillingInv, NEW message \in Trouble, NEW answered \in BOOLEAN,
           DeliverTrouble(message, answered)
    PROVE  Account!Next \/ UNCHANGED Account!vars
<1>1. TypeOK /\ UNCHANGED credited
  BY DEF BillingInv, DeliverTrouble
<1>2. SetRow(FALSE, TRUE) \/ UNCHANGED row
  BY DEF DeliverTrouble
<1>3. QED BY <1>1, <1>2, SwitchIsAllowed, SameRowStays

LEMMA SpendingIsSpend ==
    ASSUME BillingInv, NEW c \in Spender, SpendReads(c) \/ SpendCharges(c)
    PROVE  Account!Next \/ UNCHANGED Account!vars
<1>1. row \in Row
  BY DEF BillingInv, TypeOK
<1>2. CASE SpendReads(c)
  <2>1. row' = [row EXCEPT !.exists = TRUE] /\ UNCHANGED credited
    BY <1>2 DEF SpendReads
  <2>2. QED BY <1>1, <2>1, StayIsStutter DEF AccountStays, Row
<1>3. CASE SpendCharges(c) /\ row.fileCredits > 0
  <2>1. row' = [row EXCEPT !.fileCredits = row.fileCredits - 1] /\ UNCHANGED credited
    BY <1>3 DEF SpendCharges
  <2>2. Account!Spend
    BY <1>1, <1>3, <2>1 DEF Account!Spend, Row
  <2>3. QED BY <2>2 DEF Account!Next
<1>4. CASE SpendCharges(c) /\ ~(row.fileCredits > 0)
  BY <1>4, SameRowStays DEF SpendCharges
<1>5. QED BY <1>2, <1>3, <1>4

LEMMA StepKeepsAccount ==
    ASSUME BillingInv, [Next]_vars
    PROVE  [Account!Next]_(Account!vars)
<1>1. CASE StripeMoves
  BY <1>1, SameRowStays
  DEF StripeMoves, CompleteSession, ScheduleEnd, Resume, InvoiceFails, InvoiceSettles,
      SubscriptionEnds, ours
<1>2. ASSUME NEW p \in Call, CallStep(p) \/ CallDies(p)
      PROVE  [Account!Next]_(Account!vars)
  <2>1. ASSUME NEW x \in Session, NEW by, NEW product, Claim(p, by, x, product)
        PROVE  UNCHANGED Account!vars
    BY <2>1, SameRowStays DEF Claim
  <2>2. CASE CallDies(p)
    BY <2>2, SameRowStays DEF CallDies
  <2>3. QED BY <1>2, <2>1, <2>2, CommitIsGrant
             DEF CallStep, DeliverCompleted, Confirm, ActivateManually
<1>3. ASSUME NEW h \in Request, RequestStep(h)
      PROVE  [Account!Next]_(Account!vars)
  <2>1. CASE Apply(h)
    BY <2>1, ApplyIsSwitch
  <2>2. CASE ~Apply(h)
    BY <1>3, <2>2, SameRowStays
    DEF RequestStep, ReadRow, AskSync, AskEnd, AskCancel, AskReactivate, RequestDies
  <2>3. QED BY <2>1, <2>2
<1>4. ASSUME NEW x \in Session, DeliverAgain(x)
      PROVE  UNCHANGED Account!vars
  BY <1>4, SameRowStays DEF DeliverAgain, ours
<1>5. CASE CancelManually
  BY <1>5, SwitchIsAllowed DEF CancelManually, BillingInv
<1>6. CASE UNCHANGED vars
  BY <1>6, SameRowStays DEF vars
<1>7. QED BY <1>1, <1>2, <1>3, <1>4, <1>5, <1>6, TroubleIsSwitch, SpendingIsSpend DEF Next

\* Every behaviour of the billing record, with its repeated and late news, its
\* deaths and its crossing requests, is a behaviour of the account it stands for.
THEOREM ImplementsAccount == Spec => KeepsAccount
<1>1. Init => Account!Init
  BY DEF Init, NewRow, Account!Init
<1>2. BillingInv /\ [Next]_vars => [Account!Next]_(Account!vars)
  BY StepKeepsAccount
<1>3. QED BY <1>1, <1>2, BillingInvariant, PTL DEF Spec, KeepsAccount, Account!Spec

\* Nobody has Plus, or a subscription that could bring it back, whom no session was
\* granted it: this is proved of the account and holds of what implements it.
THEOREM PlusWasGranted == Spec => []Account!NoPlusUngranted
<1>1. Account!Init => Account!NoPlusUngranted
  BY DEF Account!Init, Account!NoPlusUngranted
<1>2. ASSUME TypeOK, Account!NoPlusUngranted, [Account!Next]_(Account!vars)
      PROVE  Account!NoPlusUngranted'
  <2>1. credited \in [Session -> Product \cup {"none"}]
    BY <1>2 DEF TypeOK
  <2>2. ASSUME NEW x \in Session, NEW product, Account!Grant(x, product)
        PROVE  /\ credited'[x] = product
               /\ \A y \in Session : credited[y] = "plus" => credited'[y] = "plus"
    BY <2>1, <2>2 DEF Account!Grant
  <2>3. ASSUME NEW x \in Session, Account!GrantPlus(x) PROVE Account!NoPlusUngranted'
    <3>1. /\ credited'[x] = "plus"
          /\ \A y \in Session : credited[y] = "plus" => credited'[y] = "plus"
      BY <2>2, <2>3 DEF Account!GrantPlus
    <3>2. \/ row'.subscription = row.subscription
          \/ x \in DOMAIN SubOf /\ row'.subscription = SubOf[x]
      BY <2>3 DEF Account!GrantPlus
    <3>3. QED BY <1>2, <3>1, <3>2 DEF Account!NoPlusUngranted
  <2>4. ASSUME NEW x \in Session, Account!GrantCredit(x) \/ Account!GrantFounder(x)
        PROVE  Account!NoPlusUngranted'
    <3>1. \A y \in Session : credited[y] = "plus" => credited'[y] = "plus"
      BY <2>2, <2>4 DEF Account!GrantCredit, Account!GrantFounder
    <3>2. row'.plusActive = row.plusActive /\ row'.subscription = row.subscription
      BY <2>4 DEF Account!GrantCredit, Account!GrantFounder
    <3>3. QED BY <1>2, <3>1, <3>2 DEF Account!NoPlusUngranted
  <2>5. CASE Account!Spend
    BY <1>2, <2>5 DEF Account!Spend, Account!NoPlusUngranted
  <2>6. CASE Account!Suspend
    BY <1>2, <2>6 DEF Account!Suspend, Account!NoPlusUngranted
  <2>7. CASE Account!Resume
    BY <1>2, <2>7 DEF Account!Resume, Account!NoPlusUngranted
  <2>8. CASE UNCHANGED Account!vars
    BY <1>2, <2>8 DEF Account!vars, Account!NoPlusUngranted
  <2>9. QED BY <1>2, <2>3, <2>4, <2>5, <2>6, <2>7, <2>8 DEF Account!Next
<1>3. QED BY <1>1, <1>2, TypeCorrect, ImplementsAccount, PTL DEF KeepsAccount, Account!Spec
=============================================================================
