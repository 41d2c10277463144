-------------------------------- MODULE Leases --------------------------------
(***************************************************************************)
(* Leases (leaseController.ts, leaseReads.ts): drawn up by the landlord,   *)
(* signed by landlord and tenant in either order or at once, billed from   *)
(* the moment both have signed, terminated by either.                      *)
(*                                                                         *)
(* A signature is a request of three steps: it looks up who is who, then a *)
(* transaction selects the row and, without holding it, updates it. From   *)
(* the UPDATE to the commit the row is locked, so the count of instalments *)
(* and their insertion are one step with it. The other operations decide   *)
(* in the predicate of one statement, whatever they read before; renewing  *)
(* a lease that is edited meanwhile makes a draft, to be edited again.     *)
(*                                                                         *)
(* Left out: who owns the property, co-tenants (no status waits for them), *)
(* documents, inspections, notifications and what becomes of a payment.    *)
(* The parties of a lease never change: toLeaseColumns maps no tenant. No  *)
(* code writes the status "expired".                                       *)
(***************************************************************************)
EXTENDS PaymentSchedule

CONSTANTS
    Lease,          \* ids of leases
    NoLease,
    Terms,          \* what a lease may say
    NoTerms,
    Request,        \* requests to sign that are under way at once
    MaxRequests     \* how many requests are made in all

ASSUME LeasesAssumption ==
    /\ Terms \subseteq Term /\ NoTerms \notin Terms
    /\ NoLease \notin Lease
    /\ MaxRequests \in Nat

VARIABLES
    row,        \* leases
    extra,      \* the leases the landlord added a payment to
    generated,  \* the terms each generated schedule was made from
    signing,    \* the requests to sign
    requests,   \* how many requests were made
    missed      \* history: what was written to a lease during its signings

vars == <<row, extra, generated, signing, requests, missed>>

Party == {"landlord", "tenant"}
Status == {"none", "draft", "pending_signatures", "active", "terminated", "deleted"}
Row == [status : Status, signed : SUBSET Party, terms : Terms \cup {NoTerms}]
NoRow == [status |-> "none", signed |-> {}, terms |-> NoTerms]

\* at: before its reads, after the first, after the SELECT; counterparty, terms:
\* what that found; since: what was written to the lease after it.
Write == {"signature", "edit"}
Signing == [at : {"idle", "asked", "selected"}, lease : Lease \cup {NoLease}, party : Party,
            counterparty : BOOLEAN, terms : Terms \cup {NoTerms}, since : SUBSET Write]
NotSigning == [at |-> "idle", lease |-> NoLease, party |-> "landlord",
               counterparty |-> FALSE, terms |-> NoTerms, since |-> {}]

EDITABLE_STATUSES == {"draft", "pending_signatures"}
DELETABLE_STATUSES == {"draft", "pending_signatures"}

Exists(l) == row[l].status \notin {"none", "deleted"}

\* The types, and the foreign keys: what is not there has no terms and no payments.
TypeOK ==
    /\ row \in [Lease -> Row]
    /\ extra \subseteq Lease
    /\ generated \in [Lease -> Seq(Terms)]
    /\ signing \in [Request -> Signing]
    /\ requests \in 0..MaxRequests
    /\ missed \in [Lease -> SUBSET Write]
    /\ \A l \in Lease :
          /\ Exists(l) <=> row[l].terms # NoTerms
          /\ ~Exists(l) => l \notin extra /\ generated[l] = <<>>

Init ==
    /\ row = [l \in Lease |-> NoRow]
    /\ extra = {}
    /\ generated = [l \in Lease |-> <<>>]
    /\ signing = [h \in Request |-> NotSigning]
    /\ requests = 0
    /\ missed = [l \in Lease |-> {}]

Asked == requests < MaxRequests /\ requests' = requests + 1

-----------------------------------------------------------------------------
(***************************************************************************)
(* Drawing up, changing and closing a lease.                               *)
(***************************************************************************)
Draft(l, t) ==
    /\ row[l].status = "none"
    /\ row' = [row EXCEPT ![l] = [status |-> "draft", signed |-> {}, terms |-> t]]

Create(l, t) ==
    /\ Asked /\ Draft(l, t)
    /\ UNCHANGED <<extra, generated, signing, missed>>

\* New dates, and a rent if one is given; neither the signatures nor the schedule.
Renew(l, n, t) ==
    /\ Asked
    /\ Exists(l) /\ Draft(n, t)
    /\ t.dueDay = row[l].terms.dueDay /\ t.deposit = row[l].terms.deposit
    /\ UNCHANGED <<extra, generated, signing, missed>>

\* The signings of lease l that have selected it learn nothing of write k.
Missing(l, k) ==
    [h \in Request |->
        IF signing[h].at = "selected" /\ signing[h].lease = l
        THEN [signing[h] EXCEPT !.since = @ \cup {k}] ELSE signing[h]]

\* Faulty Editable: only the status read before the UPDATE was checked.
EditableWhenRead(l) == Exists(l)

Editable(l) == row[l].status \in EDITABLE_STATUSES

Edit(l, t) ==
    /\ Asked
    /\ Editable(l)
    /\ row' = [row EXCEPT ![l].terms = t]
    /\ signing' = Missing(l, "edit")
    /\ UNCHANGED <<extra, generated, missed>>

\* Faulty Cascade: no ON DELETE CASCADE for the payments.
CascadeNothing(l) == UNCHANGED <<extra, generated>>

Cascade(l) ==
    /\ extra' = extra \ {l}
    /\ generated' = [generated EXCEPT ![l] = <<>>]

Delete(l) ==
    /\ Asked
    /\ row[l].status \in DELETABLE_STATUSES
    /\ row' = [row EXCEPT ![l] = [NoRow EXCEPT !.status = "deleted"]]
    /\ Cascade(l)
    /\ UNCHANGED <<signing, missed>>

Terminate(l) ==
    /\ Asked
    /\ Exists(l) /\ row[l].status # "terminated"
    /\ row' = [row EXCEPT ![l].status = "terminated"]
    /\ UNCHANGED <<extra, generated, signing, missed>>

\* In any status.
AddPayment(l) ==
    /\ Asked
    /\ Exists(l)
    /\ extra' = extra \cup {l}
    /\ UNCHANGED <<row, generated, signing, missed>>

-----------------------------------------------------------------------------
(***************************************************************************)
(* Signing.                                                                *)
(***************************************************************************)
Counterparty(p) == IF p = "landlord" THEN "tenant" ELSE "landlord"

SetSigning(h, r) == signing' = [signing EXCEPT ![h] = r]

\* In any status: a lease that was terminated or signed before is signed again.
AskToSign(h, l, p) ==
    /\ Asked
    /\ signing[h].at = "idle" /\ Exists(l)
    /\ SetSigning(h, [NotSigning EXCEPT !.at = "asked", !.lease = l, !.party = p])
    /\ UNCHANGED <<row, extra, generated, missed>>

\* Faulty CounterpartySigned: the other column.
OwnSigned(l, p) == p \in row[l].signed

CounterpartySigned(l, p) == Counterparty(p) \in row[l].signed

SelectLease(h) ==
    LET r == signing[h]
        l == r.lease
    IN  /\ r.at = "asked" /\ Exists(l)
        /\ SetSigning(h, [r EXCEPT !.at = "selected", !.terms = row[l].terms,
                                   !.counterparty = CounterpartySigned(l, r.party)])
        /\ UNCHANGED <<row, extra, generated, requests, missed>>

\* Faulty Unbilled: the count is left out.
UnbilledAlways(l) == TRUE

Unbilled(l) == l \notin extra /\ generated[l] = <<>>

\* No rows are inserted when there are none.
Bill(l, r) ==
    generated' = IF r.counterparty /\ Unbilled(l) /\ Instalments(r.terms) # <<>>
                 THEN [generated EXCEPT ![l] = Append(@, r.terms)] ELSE generated

Forget(h, f) == [f EXCEPT ![h] = NotSigning]

WriteSignature(h) ==
    LET r == signing[h]
        l == r.lease
    IN  /\ r.at = "selected" /\ Exists(l)
        /\ row' = [row EXCEPT
               ![l].signed = @ \cup {r.party},
               ![l].status = IF r.counterparty THEN "active" ELSE "pending_signatures"]
        /\ Bill(l, r)
        /\ signing' = Forget(h, Missing(l, "signature"))
        /\ missed' = [missed EXCEPT ![l] = @ \cup r.since]
        /\ UNCHANGED <<extra, requests>>

\* Deleted meanwhile: the SELECT or the UPDATE finds no row.
FindNoLease(h) ==
    /\ signing[h].at # "idle" /\ ~Exists(signing[h].lease)
    /\ SetSigning(h, NotSigning)
    /\ UNCHANGED <<row, extra, generated, requests, missed>>

-----------------------------------------------------------------------------
Next ==
    \/ \E l \in Lease, t \in Terms : Create(l, t) \/ Edit(l, t)
    \/ \E l, n \in Lease, t \in Terms : Renew(l, n, t)
    \/ \E l \in Lease : Delete(l) \/ Terminate(l) \/ AddPayment(l)
    \/ \E h \in Request, l \in Lease, p \in Party : AskToSign(h, l, p)
    \/ \E h \in Request : SelectLease(h) \/ WriteSignature(h) \/ FindNoLease(h)

Spec == Init /\ [][Next]_vars

-----------------------------------------------------------------------------
(***************************************************************************)
(* Properties.                                                             *)
(***************************************************************************)

\* A lease both have signed becomes active, in whatever order they signed and
\* whatever happened between, unless their requests overlapped: then each of
\* them found the other unsigned, and the lease goes on waiting for signatures.
BothSignedIsActive == \A l \in Lease :
    row[l].signed = Party /\ row[l].status \in EDITABLE_STATUSES
        => "signature" \in missed[l]

\* Nothing falls due in terms shorter than a month, and no due day need fall in them.
Short(t) == t.end < t.start + Days(31)

\* An active lease was signed by both and is billed once, for what it says, so that
\* no month of it goes by without rent; edits and signatures, repeated ones too, come
\* in any order. Not billed are short terms without a deposit and a lease the
\* landlord added payments to before; and a signature that overlapped an edit, or
\* sent an active lease back to be edited, may have billed other terms.
ActiveIsBilledOnce == \A l \in Lease : row[l].status = "active" =>
    /\ row[l].signed = Party
    /\ Len(generated[l]) <= 1
    /\ missed[l] = {} =>
          \/ generated[l] = <<row[l].terms>> /\ BilledThroughout(row[l].terms)
          \/ /\ generated[l] = <<>>
             /\ l \in extra \/ (Short(row[l].terms) /\ row[l].terms.deposit = 0)
=============================================================================
