------------------------------- MODULE Bookings -------------------------------
(***************************************************************************)
(* The two ways a listing is booked for a date: reservations               *)
(* (reservationController.ts, reservationReads.ts), which take a range of  *)
(* nights, and viewing requests (viewingController.ts, viewingReads.ts),   *)
(* which take an instant. One listing; listings share nothing.             *)
(*                                                                         *)
(* Every handler reads first and writes last, with no transaction and no   *)
(* constraint of the database around the two. Its reads and its write are  *)
(* steps of their own, and any number of handlers interleave.              *)
(*                                                                         *)
(* Left open: what the host's calendar and the cancellation policy answer  *)
(* (a request may give up where they refuse). Left out: prices, messages   *)
(* and the notifications sent after the write. No code writes the status   *)
(* "completed". A viewing that is "approved" is "confirmed" here.          *)
(***************************************************************************)
EXTENDS Naturals

CONSTANTS
    Reservation,    \* ids of reservations
    Viewing,        \* ids of viewing requests
    NoBooking,
    Person,         \* who asks for viewings
    NoPerson,
    Day,            \* days a stay begins or ends on
    Hour,           \* instants viewings are for
    Request,        \* handlers under way at once
    MaxRequests     \* how many requests are made in all

ASSUME BookingsAssumption ==
    /\ Day \subseteq Nat /\ Hour \subseteq Nat
    /\ Reservation \cap Viewing = {}
    /\ NoBooking \notin Reservation \cup Viewing
    /\ MaxRequests \in Nat

VARIABLES
    row,        \* reservations and viewing_requests
    handler,    \* the handlers
    requests,   \* how many requests were made
    opened,     \* history: what was written while a date was being asked for
    decided     \* history: what was written while it was being confirmed

vars == <<row, handler, requests, opened, decided>>

Booking == Reservation \cup Viewing

\* [from, to): a stay that ends the morning another begins is no conflict. A
\* viewing takes its instant and no other.
Slot == [from : Nat, to : Nat]
NoSlot == [from |-> 0, to |-> 0]
Stay == {s \in [from : Day, to : Day] : s.from < s.to}
Instant == {[from |-> n, to |-> n + 1] : n \in Hour}

Active == {"pending", "confirmed"}
Status == {"none", "pending", "confirmed", "declined", "cancelled", "pruned"}
Canceller == {"requester", "owner", "nobody"}

\* cancelledBy is a column of viewing_requests alone.
Row == [status : Status, slot : Slot, person : Person \cup {NoPerson},
        cancelledBy : Canceller]

NoRow == [status |-> "none", slot |-> NoSlot, person |-> NoPerson, cancelledBy |-> "nobody"]

\* status: what the request will write; by: who asks for a cancellation; since: the
\* bookings written since its first read.
Handler == [at : {"idle", "read", "checked"}, op : {"create", "decide", "cancel", "move"},
            booking : Booking \cup {NoBooking}, slot : Slot,
            person : Person \cup {NoPerson}, status : Status, by : Canceller,
            since : SUBSET Booking]

IdleHandler == [at |-> "idle", op |-> "create", booking |-> NoBooking, slot |-> NoSlot,
                person |-> NoPerson, status |-> "none", by |-> "nobody", since |-> {}]

\* viewing_requests_cancelled_by_status_check, and the types.
TypeOK ==
    /\ row \in [Booking -> Row]
    /\ \A b \in Viewing : row[b].status = "cancelled" <=> row[b].cancelledBy # "nobody"
    /\ handler \in [Request -> Handler]
    /\ requests \in 0..MaxRequests
    /\ opened \in [Booking -> SUBSET Booking]
    /\ decided \in [Booking -> SUBSET Booking]

Init ==
    /\ row = [b \in Booking |-> NoRow]
    /\ handler = [h \in Request |-> IdleHandler]
    /\ requests = 0
    /\ opened = [b \in Booking |-> {}]
    /\ decided = [b \in Booking |-> {}]

-----------------------------------------------------------------------------
(***************************************************************************)
(* The reads of the repositories.                                          *)
(***************************************************************************)
SameTable(a, b) == a \in Viewing <=> b \in Viewing

\* Faulty Overlap: only the first night is looked up.
OverlapOnArrival(s, t) == t.from <= s.from /\ s.from < t.to

\* tstzrange && tstzrange, and the equality of instants.
Overlap(s, t) == s.from < t.to /\ t.from < s.to

\* findOverlappingReservation and findViewingAtInstant, but for the booking b.
Taken(b, slot, statuses) ==
    \E a \in Booking \ {b} :
        SameTable(a, b) /\ row[a].status \in statuses /\ Overlap(row[a].slot, slot)

\* findActiveViewingForRequester
HasActiveViewing(person) ==
    \E a \in Viewing : row[a].status \in Active /\ row[a].person = person

-----------------------------------------------------------------------------
(***************************************************************************)
(* The steps of a handler.                                                 *)
(***************************************************************************)
SetHandler(h, r) == handler' = [handler EXCEPT ![h] = r]

\* The first read of request h.
Begin(h, op, b, slot, person, status, by) ==
    /\ handler[h].at = "idle"
    /\ SetHandler(h, [at |-> "read", op |-> op, booking |-> b, slot |-> slot,
                      person |-> person, status |-> status, by |-> by, since |-> {}])
    /\ requests < MaxRequests /\ requests' = requests + 1
    /\ UNCHANGED <<row, opened, decided>>

\* Its last read.
Checked(h) ==
    LET r == handler[h]
    IN  SetHandler(h, [at |-> "checked", op |-> r.op, booking |-> r.booking, slot |-> r.slot,
                       person |-> r.person, status |-> r.status, by |-> r.by,
                       since |-> r.since])

\* Request r is under way when booking b is written: a date is claimed while it
\* asks for one; something is confirmed, or its booking changed, while it decides.
Concerned(r, b, status) ==
    \/ r.at # "idle" /\ r.op \in {"create", "move"} /\ status \in Active
    \/ r.at # "idle" /\ r.op = "decide" /\ (status = "confirmed" \/ r.booking = b)

Meanwhile(r, b, status) ==
    IF Concerned(r, b, status)
    THEN [at |-> r.at, op |-> r.op, booking |-> r.booking, slot |-> r.slot,
          person |-> r.person, status |-> r.status, by |-> r.by, since |-> r.since \cup {b}]
    ELSE r

\* The write of request h, which ends it: booking b becomes r.
Write(h, b, r) ==
    /\ row' = [row EXCEPT ![b] = r]
    /\ handler' = [g \in Request |-> IF g = h THEN IdleHandler
                                     ELSE Meanwhile(handler[g], b, r.status)]

\* An UPDATE that matches no row.
WriteNothing(h) == SetHandler(h, IdleHandler) /\ UNCHANGED <<row, requests, opened, decided>>

\* An id is generated for the row.
Fresh(b) ==
    /\ row[b].status = "none"
    /\ \A g \in Request : handler[g].booking # b

\* createReservation: with instantBook it is confirmed at once.
AskForStay(h, b, slot, status) ==
    /\ Fresh(b)
    /\ ~Taken(b, slot, Active)
    /\ Begin(h, "create", b, slot, NoPerson, status, "nobody")

\* findBlockingWindow finds nothing.
CheckCalendar(h) ==
    /\ handler[h].at = "read" /\ handler[h].op = "create"
    /\ handler[h].booking \in Reservation
    /\ Checked(h)
    /\ UNCHANGED <<row, requests, opened, decided>>

\* createViewingRequest
AskForViewing(h, b, slot, person) ==
    /\ Fresh(b)
    /\ ~HasActiveViewing(person)
    /\ Begin(h, "create", b, slot, person, "pending", "nobody")

\* updateViewingRequest, by its requester.
AskToMove(h, b, slot) ==
    /\ row[b].status = "pending"
    /\ Begin(h, "move", b, slot, NoPerson, "pending", "nobody")

\* createViewingRequest and updateViewingRequest look the instant up.
CheckInstant(h) ==
    LET r == handler[h] IN
    /\ r.at = "read" /\ r.op \in {"create", "move"}
    /\ r.booking \in Viewing
    /\ ~Taken(r.booking, r.slot, Active)
    /\ Checked(h)
    /\ UNCHANGED <<row, requests, opened, decided>>

Insert(h) ==
    LET r == handler[h]
        b == r.booking
    IN  /\ r.at = "checked" /\ r.op = "create"
        /\ Write(h, b, [status |-> r.status, slot |-> r.slot, person |-> r.person,
                        cancelledBy |-> "nobody"])
        /\ opened' = [opened EXCEPT ![b] = r.since]
        /\ decided' = [decided EXCEPT ![b] = r.since]
        /\ UNCHANGED requests

\* Faulty Movable: every request that still holds its instant.
MovableWhileActive(b) == row[b].status \in Active

\* The predicate of rescheduleViewing.
Movable(b) == row[b].status = "pending"

Move(h) ==
    LET r == handler[h]
        b == r.booking
    IN  /\ r.at = "checked" /\ r.op = "move"
        /\ IF Movable(b)
           THEN /\ Write(h, b, [status |-> row[b].status, slot |-> r.slot,
                                person |-> row[b].person, cancelledBy |-> row[b].cancelledBy])
                /\ opened' = [opened EXCEPT ![b] = opened[b] \cup r.since]
                /\ UNCHANGED <<requests, decided>>
           ELSE WriteNothing(h)

\* updateReservationStatus by the host, approveViewingRequest and
\* declineViewingRequest by the owner.
AskToDecide(h, b, status) ==
    /\ row[b].status = "pending"
    /\ Begin(h, "decide", b, row[b].slot, NoPerson, status, "nobody")

\* Faulty CheckDecision: what is confirmed is not looked up again.
CheckNothing(h) ==
    /\ handler[h].at = "read" /\ handler[h].op = "decide"
    /\ Checked(h)
    /\ UNCHANGED <<row, requests, opened, decided>>

\* The re-check, with the dates the row had when it was read, against what is
\* confirmed and excluding the row. A decline needs none.
CheckDecision(h) ==
    LET r == handler[h] IN
    /\ r.at = "read" /\ r.op = "decide"
    /\ r.status = "declined" \/ ~Taken(r.booking, r.slot, {"confirmed"})
    /\ Checked(h)
    /\ UNCHANGED <<row, requests, opened, decided>>

\* Faulty Decidable: the decision of the read is trusted.
DecidableStill(b) == row[b].status # "none"

\* The predicate of transitionReservation and decideViewing.
Decidable(b) == row[b].status = "pending"

Decide(h) ==
    LET r == handler[h]
        b == r.booking
    IN  /\ r.at = "checked" /\ r.op = "decide"
        /\ IF Decidable(b)
           THEN /\ Write(h, b, [status |-> r.status, slot |-> row[b].slot,
                                person |-> row[b].person, cancelledBy |-> row[b].cancelledBy])
                /\ decided' = [decided EXCEPT ![b] = r.since]
                /\ UNCHANGED <<requests, opened>>
           ELSE WriteNothing(h)

\* updateReservationStatus and cancelViewingRequest. A guest whose stay was declined
\* has nothing to cancel.
AskToCancel(h, b, by) ==
    /\ row[b].status \in {"pending", "confirmed", "declined"}
    /\ b \in Reservation /\ by = "requester" => row[b].status # "declined"
    /\ Begin(h, "cancel", b, NoSlot, NoPerson, "cancelled",
             IF b \in Viewing THEN by ELSE "nobody")

\* transitionReservation and cancelViewing: from whatever it has become.
Cancel(h) ==
    LET r == handler[h]
        b == r.booking
    IN  /\ r.at = "read" /\ r.op = "cancel"
        /\ IF row[b].status \in {"pending", "confirmed", "declined"}
           THEN /\ Write(h, b, [status |-> "cancelled", slot |-> row[b].slot,
                                person |-> row[b].person, cancelledBy |-> r.by])
                /\ UNCHANGED <<requests, opened, decided>>
           ELSE WriteNothing(h)

\* A read refuses, or the request dies.
GiveUp(h) == handler[h].at # "idle" /\ WriteNothing(h)

\* pruneClosedViewingsBefore
Prune(b) ==
    /\ row[b].status \in {"declined", "cancelled"}
    /\ row' = [row EXCEPT ![b] = [status |-> "pruned", slot |-> NoSlot, person |-> NoPerson,
                                  cancelledBy |-> "nobody"]]
    /\ UNCHANGED <<handler, requests, opened, decided>>

-----------------------------------------------------------------------------
Next ==
    \/ \E h \in Request :
           \/ \E b \in Reservation, slot \in Stay, status \in Active :
                  AskForStay(h, b, slot, status)
           \/ CheckCalendar(h)
           \/ \E b \in Viewing, slot \in Instant :
                  \/ \E person \in Person : AskForViewing(h, b, slot, person)
                  \/ AskToMove(h, b, slot)
           \/ CheckInstant(h)
           \/ \E b \in Booking :
                  \/ \E status \in {"confirmed", "declined"} : AskToDecide(h, b, status)
                  \/ \E by \in {"requester", "owner"} : AskToCancel(h, b, by)
           \/ CheckDecision(h)
           \/ Insert(h) \/ Move(h) \/ Decide(h) \/ Cancel(h)
           \/ GiveUp(h)
    \/ \E b \in Viewing : Prune(b)

Spec == Init /\ [][Next]_vars

-----------------------------------------------------------------------------
(***************************************************************************)
(* Properties.                                                             *)
(***************************************************************************)

\* A night or an instant is promised to both.
Share(s, t) ==
    \E n \in Day \cup Hour : s.from <= n /\ n < s.to /\ t.from <= n /\ n < t.to

\* Two bookings ask for the same night or instant, or one person for two viewings,
\* only when one was written while the other was between its reads and its write:
\* what a request finds already there it never takes
\* (reservationController.ts:150-161, viewingController.ts:111-125, 389-394).
OnlyRacesClash ==
    \A a, b \in Booking :
        /\ a # b /\ SameTable(a, b)
        /\ row[a].status \in Active /\ row[b].status \in Active
        /\ \/ Share(row[a].slot, row[b].slot)
           \/ a \in Viewing /\ row[a].person = row[b].person
        => a \in opened[b] \/ b \in opened[a]

\* What clashes all the same is confirmed twice only when one was confirmed, or moved,
\* while the other was being confirmed: the re-check of the host's decision catches
\* the rest (reservationController.ts:295-308, viewingController.ts:234-242).
OnlyRacesConfirmTwice ==
    \A a, b \in Booking :
        /\ a # b /\ SameTable(a, b)
        /\ row[a].status = "confirmed" /\ row[b].status = "confirmed"
        /\ Share(row[a].slot, row[b].slot)
        => {a, b} \cap (decided[a] \cup decided[b]) # {}

\* What was decided stays decided, whatever requests read before: a confirmed booking
\* keeps its dates and can only be cancelled, a declined one takes no date again, a
\* cancelled one keeps who cancelled it
\* (reservationReads.ts:237-256, viewingReads.ts:199-310).
DecisionsStand ==
    [][\A b \in Booking :
           /\ row[b].status = "confirmed" =>
                  row'[b].status \in {"confirmed", "cancelled"} /\ row'[b].slot = row[b].slot
           /\ row[b].status = "declined" => row'[b].status \notin Active
           /\ row[b].status = "cancelled" => row'[b] = row[b] \/ row'[b].status = "pruned"]_vars
=============================================================================
