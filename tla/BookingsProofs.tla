--------------------------- MODULE BookingsProofs ---------------------------
(***************************************************************************)
(* Theorems about Bookings, for any reservations, viewings, people, dates  *)
(* and any number of handlers.                                             *)
(*                                                                         *)
(* The inductive invariant BookingsInv says of a request under way what    *)
(* its reads are still worth: whatever clashes with the date it asks for   *)
(* was written since, and so was whatever is confirmed beside the one it   *)
(* decides, unless that one itself was changed.                            *)
(***************************************************************************)
EXTENDS Bookings, TLAPS

\* Every active booking that clashes with b on this date was written since.
ClashesSeen(rows, b, slot, since) ==
    \A a \in Booking \ {b} :
        SameTable(a, b) /\ rows[a].status \in Active /\ Overlap(rows[a].slot, slot)
        => a \in since

ConfirmedSeen(rows, b, slot, since) ==
    \A a \in Booking \ {b} :
        SameTable(a, b) /\ rows[a].status = "confirmed" /\ Overlap(rows[a].slot, slot)
        => a \in since

CreateInv(rows, r) ==
    r.at # "idle" /\ r.op = "create" =>
        /\ r.booking \in Booking /\ rows[r.booking].status = "none" /\ r.status \in Active
        /\ r.booking \in Reservation \/ r.at = "checked" =>
               ClashesSeen(rows, r.booking, r.slot, r.since)
        /\ r.booking \in Viewing =>
               \A a \in Viewing : rows[a].status \in Active /\ rows[a].person = r.person
                                  => a \in r.since

MoveInv(rows, r) ==
    r.at # "idle" /\ r.op = "move" =>
        /\ r.booking \in Viewing
        /\ r.at = "checked" => ClashesSeen(rows, r.booking, r.slot, r.since)

DecideInv(rows, r) ==
    r.at # "idle" /\ r.op = "decide" =>
        /\ r.booking \in Booking /\ r.status \in {"confirmed", "declined"}
        /\ \/ r.booking \in r.since \/ rows[r.booking].status # "pending"
           \/ /\ r.slot = rows[r.booking].slot
              /\ r.at = "checked" /\ r.status = "confirmed" =>
                     ConfirmedSeen(rows, r.booking, r.slot, r.since)

CancelInv(r) ==
    r.at # "idle" /\ r.op = "cancel" =>
        /\ r.booking \in Booking
        /\ r.booking \in Viewing => r.by # "nobody"

RequestInv(rows, r) == CreateInv(rows, r) /\ MoveInv(rows, r) /\ DecideInv(rows, r) /\ CancelInv(r)

\* Nobody else knows the id of a row that is not inserted yet.
FreshInv ==
    \A g, h \in Request :
        /\ g # h
        /\ handler[h].at # "idle" /\ handler[h].op = "create"
        => handler[g].booking # handler[h].booking

ClashInv ==
    \A a, b \in Booking :
        /\ a # b /\ SameTable(a, b)
        /\ row[a].status \in Active /\ row[b].status \in Active
        /\ \/ Overlap(row[a].slot, row[b].slot)
           \/ a \in Viewing /\ row[a].person = row[b].person
        => a \in opened[b] \/ b \in opened[a]

ConfirmInv ==
    \A a, b \in Booking :
        /\ a # b /\ SameTable(a, b)
        /\ row[a].status = "confirmed" /\ row[b].status = "confirmed"
        /\ Overlap(row[a].slot, row[b].slot)
        => \/ a \in decided[a] \/ a \in decided[b]
           \/ b \in decided[a] \/ b \in decided[b]

BookingsInv ==
    /\ TypeOK
    /\ \A h \in Request : RequestInv(row, handler[h])
    /\ FreshInv /\ ClashInv /\ ConfirmInv

-----------------------------------------------------------------------------
LEMMA SlotsAreSlots == Stay \subseteq Slot /\ Instant \subseteq Slot
<1>1. \A n \in Hour : n \in Nat /\ n + 1 \in Nat
  BY BookingsAssumption
<1>2. Instant \subseteq Slot
  BY <1>1 DEF Instant, Slot
<1>3. Stay \subseteq Slot
  BY BookingsAssumption DEF Stay, Slot
<1>4. QED BY <1>2, <1>3

LEMMA BookingsInvInit == Init => BookingsInv
<1> SUFFICES ASSUME Init PROVE BookingsInv
  OBVIOUS
<1>1. TypeOK
  BY BookingsAssumption DEF Init, TypeOK, NoRow, Row, Slot, NoSlot, Status, Canceller, IdleHandler,
     Handler, Booking
<1>2. \A b \in Booking : row[b].status = "none"
  BY DEF Init, NoRow
<1>3. \A h \in Request : handler[h].at = "idle"
  BY DEF Init, IdleHandler
<1>4. QED BY <1>1, <1>2, <1>3 DEF BookingsInv, RequestInv, CreateInv, MoveInv, DecideInv,
             CancelInv, FreshInv, ClashInv, ConfirmInv, Active

\* A step of one handler that writes no row.
LEMMA HandlerKeeps ==
    ASSUME BookingsInv, NEW h \in Request, NEW r \in Handler, SetHandler(h, r),
           UNCHANGED <<row, opened, decided>>, requests' \in 0..MaxRequests,
           RequestInv(row, r),
           \A g \in Request \ {h} :
               /\ r.at # "idle" /\ r.op = "create" => handler[g].booking # r.booking
               /\ handler[g].at # "idle" /\ handler[g].op = "create"
                  => r.booking # handler[g].booking
    PROVE  BookingsInv'
<1>1. /\ handler'[h] = r /\ \A g \in Request \ {h} : handler'[g] = handler[g]
      /\ handler' \in [Request -> Handler]
  BY DEF BookingsInv, TypeOK, SetHandler
<1>2. TypeOK'
  BY <1>1 DEF BookingsInv, TypeOK
<1>4. \A g \in Request : RequestInv(row', handler'[g])
  BY <1>1 DEF BookingsInv
<1>5. FreshInv'
  BY <1>1 DEF BookingsInv, FreshInv
<1>6. ClashInv' /\ ConfirmInv'
  BY DEF BookingsInv, ClashInv, ConfirmInv
<1>7. QED BY <1>2, <1>4, <1>5, <1>6 DEF BookingsInv

\* The first read of a request.
LEMMA BeginKeeps ==
    ASSUME BookingsInv, NEW h \in Request, NEW op \in {"create", "decide", "cancel", "move"},
           NEW b \in Booking, NEW slot \in Slot, NEW person \in Person \cup {NoPerson},
           NEW status \in Status, NEW by \in Canceller,
           Begin(h, op, b, slot, person, status, by),
           op = "create" => Fresh(b),
           op # "create" => row[b].status # "none",
           RequestInv(row, [at |-> "read", op |-> op, booking |-> b, slot |-> slot,
                            person |-> person, status |-> status, by |-> by, since |-> {}])
    PROVE  BookingsInv'
<1>1. PICK r : r = [at |-> "read", op |-> op, booking |-> b, slot |-> slot, person |-> person,
                    status |-> status, by |-> by, since |-> {}]
  OBVIOUS
<1>2. r \in Handler
  BY <1>1 DEF Handler
<1>3. SetHandler(h, r) /\ UNCHANGED <<row, opened, decided>>
  BY <1>1 DEF Begin
<1>4. requests' \in 0..MaxRequests
  BY BookingsAssumption DEF BookingsInv, TypeOK, Begin
<1>5. \A g \in Request \ {h} :
         /\ r.at # "idle" /\ r.op = "create" => handler[g].booking # r.booking
         /\ handler[g].at # "idle" /\ handler[g].op = "create"
            => r.booking # handler[g].booking
  BY <1>1 DEF Fresh, BookingsInv, RequestInv, CreateInv
<1>6. QED BY <1>1, <1>2, <1>3, <1>4, <1>5, HandlerKeeps

LEMMA AskForStayKeeps ==
    ASSUME BookingsInv, NEW h \in Request, NEW b \in Reservation, NEW slot \in Stay,
           NEW status \in Active, AskForStay(h, b, slot, status)
    PROVE  BookingsInv'
<1>1. b \in Booking /\ b \notin Viewing
  BY BookingsAssumption DEF Booking
<1>2. ClashesSeen(row, b, slot, {})
  BY DEF AskForStay, Taken, ClashesSeen, SameTable
<1>3. RequestInv(row, [at |-> "read", op |-> "create", booking |-> b, slot |-> slot,
                       person |-> NoPerson, status |-> status, by |-> "nobody", since |-> {}])
  BY <1>1, <1>2 DEF RequestInv, CreateInv, MoveInv, DecideInv, CancelInv, AskForStay, Fresh
<1>4. QED BY <1>1, <1>3, SlotsAreSlots, BeginKeeps DEF AskForStay, Active, Status, Canceller

LEMMA AskForViewingKeeps ==
    ASSUME BookingsInv, NEW h \in Request, NEW b \in Viewing, NEW slot \in Instant,
           NEW person \in Person, AskForViewing(h, b, slot, person)
    PROVE  BookingsInv'
<1>1. b \in Booking /\ b \notin Reservation
  BY BookingsAssumption DEF Booking
<1>2. RequestInv(row, [at |-> "read", op |-> "create", booking |-> b, slot |-> slot,
                       person |-> person, status |-> "pending", by |-> "nobody", since |-> {}])
  BY <1>1 DEF RequestInv, CreateInv, MoveInv, DecideInv, CancelInv, AskForViewing, Fresh,
     HasActiveViewing, Active
<1>3. QED BY <1>1, <1>2, SlotsAreSlots, BeginKeeps DEF AskForViewing, Status, Canceller

LEMMA AskToMoveKeeps ==
    ASSUME BookingsInv, NEW h \in Request, NEW b \in Viewing, NEW slot \in Instant,
           AskToMove(h, b, slot)
    PROVE  BookingsInv'
<1>1. b \in Booking
  BY DEF Booking
<1>2. RequestInv(row, [at |-> "read", op |-> "move", booking |-> b, slot |-> slot,
                       person |-> NoPerson, status |-> "pending", by |-> "nobody", since |-> {}])
  BY DEF RequestInv, CreateInv, MoveInv, DecideInv, CancelInv
<1>3. QED BY <1>1, <1>2, SlotsAreSlots, BeginKeeps DEF AskToMove, Status, Canceller

LEMMA AskToDecideKeeps ==
    ASSUME BookingsInv, NEW h \in Request, NEW b \in Booking,
           NEW status \in {"confirmed", "declined"}, AskToDecide(h, b, status)
    PROVE  BookingsInv'
<1>1. row[b].slot \in Slot
  BY DEF BookingsInv, TypeOK, Row
<1>2. RequestInv(row, [at |-> "read", op |-> "decide", booking |-> b, slot |-> row[b].slot,
                       person |-> NoPerson, status |-> status, by |-> "nobody", since |-> {}])
  BY DEF RequestInv, CreateInv, MoveInv, DecideInv, CancelInv
<1>3. QED BY <1>1, <1>2, BeginKeeps DEF AskToDecide, Status, Canceller

LEMMA AskToCancelKeeps ==
    ASSUME BookingsInv, NEW h \in Request, NEW b \in Booking,
           NEW by \in {"requester", "owner"}, AskToCancel(h, b, by)
    PROVE  BookingsInv'
<1>1. PICK who : who = IF b \in Viewing THEN by ELSE "nobody"
  OBVIOUS
<1>2. who \in Canceller /\ (b \in Viewing => who # "nobody")
  BY <1>1 DEF Canceller
<1>3. NoSlot \in Slot
  BY DEF NoSlot, Slot
<1>4. RequestInv(row, [at |-> "read", op |-> "cancel", booking |-> b, slot |-> NoSlot,
                       person |-> NoPerson, status |-> "cancelled", by |-> who, since |-> {}])
  BY <1>2 DEF RequestInv, CreateInv, MoveInv, DecideInv, CancelInv
<1>5. QED BY <1>1, <1>2, <1>3, <1>4, BeginKeeps DEF AskToCancel, Status

-----------------------------------------------------------------------------
\* The last read of a request.
LEMMA CheckedKeeps ==
    ASSUME BookingsInv, NEW h \in Request, handler[h].at = "read", Checked(h),
           UNCHANGED <<row, requests, opened, decided>>,
           handler[h].op \in {"create", "move"} =>
               ClashesSeen(row, handler[h].booking, handler[h].slot, handler[h].since),
           handler[h].op = "decide" /\ handler[h].status = "confirmed" =>
               ConfirmedSeen(row, handler[h].booking, handler[h].slot, handler[h].since)
    PROVE  BookingsInv'
<1>1. PICK q, r : /\ q = handler[h]
                  /\ r = [at |-> "checked", op |-> q.op, booking |-> q.booking, slot |-> q.slot,
                          person |-> q.person, status |-> q.status, by |-> q.by,
                          since |-> q.since]
  OBVIOUS
<1>2. q \in Handler /\ r \in Handler
  BY <1>1 DEF BookingsInv, TypeOK, Handler
<1>3. SetHandler(h, r) /\ requests' \in 0..MaxRequests
  BY <1>1 DEF Checked, BookingsInv, TypeOK
<1>4. RequestInv(row, q)
  BY <1>1 DEF BookingsInv
<1>5. RequestInv(row, r)
  BY <1>1, <1>4 DEF RequestInv, CreateInv, MoveInv, DecideInv, CancelInv
<1>6. \A g \in Request \ {h} :
         /\ r.at # "idle" /\ r.op = "create" => handler[g].booking # r.booking
         /\ handler[g].at # "idle" /\ handler[g].op = "create"
            => r.booking # handler[g].booking
  BY <1>1 DEF BookingsInv, FreshInv
<1>7. QED BY <1>2, <1>3, <1>5, <1>6, HandlerKeeps

LEMMA ChecksKeep ==
    ASSUME BookingsInv, NEW h \in Request,
           CheckCalendar(h) \/ CheckInstant(h) \/ CheckDecision(h)
    PROVE  BookingsInv'
<1>1. CASE CheckCalendar(h)
  <2>1. ClashesSeen(row, handler[h].booking, handler[h].slot, handler[h].since)
    BY <1>1 DEF CheckCalendar, BookingsInv, RequestInv, CreateInv
  <2>2. QED BY <1>1, <2>1, CheckedKeeps DEF CheckCalendar
<1>2. CASE CheckInstant(h)
  <2>1. ClashesSeen(row, handler[h].booking, handler[h].slot, handler[h].since)
    BY <1>2 DEF CheckInstant, Taken, ClashesSeen, SameTable
  <2>2. QED BY <1>2, <2>1, CheckedKeeps DEF CheckInstant
<1>3. CASE CheckDecision(h)
  <2>1. handler[h].status = "confirmed" =>
            ConfirmedSeen(row, handler[h].booking, handler[h].slot, handler[h].since)
    BY <1>3 DEF CheckDecision, Taken, ConfirmedSeen, SameTable
  <2>2. QED BY <1>3, <2>1, CheckedKeeps DEF CheckDecision
<1>4. QED BY <1>1, <1>2, <1>3

\* A request that ends without a write.
LEMMA WriteNothingKeeps ==
    ASSUME BookingsInv, NEW h \in Request, WriteNothing(h)
    PROVE  BookingsInv'
<1>1. IdleHandler \in Handler
  BY DEF IdleHandler, Handler, NoSlot, Slot, Status, Canceller
<1>2. IdleHandler.at = "idle" /\ IdleHandler.booking = NoBooking
  BY DEF IdleHandler
<1>3. RequestInv(row, IdleHandler)
  BY <1>2 DEF RequestInv, CreateInv, MoveInv, DecideInv, CancelInv
<1>4. \A g \in Request \ {h} : handler[g].at # "idle" /\ handler[g].op = "create"
                                => NoBooking # handler[g].booking
  BY BookingsAssumption DEF BookingsInv, RequestInv, CreateInv, Booking
<1>5. requests' \in 0..MaxRequests
  BY DEF WriteNothing, BookingsInv, TypeOK
<1>6. QED BY <1>1, <1>2, <1>3, <1>4, <1>5, HandlerKeeps DEF WriteNothing

-----------------------------------------------------------------------------
(***************************************************************************)
(* The writes.                                                             *)
(***************************************************************************)
LEMMA MeanwhileFacts ==
    ASSUME NEW q \in Handler, NEW b \in Booking, NEW status
    PROVE  LET m == Meanwhile(q, b, status)
           IN  /\ m \in Handler
               /\ m.at = q.at /\ m.op = q.op /\ m.booking = q.booking /\ m.slot = q.slot
               /\ m.person = q.person /\ m.status = q.status /\ m.by = q.by
               /\ q.since \subseteq m.since
               /\ Concerned(q, b, status) => b \in m.since
<1> DEFINE m == Meanwhile(q, b, status)
<1>1. CASE Concerned(q, b, status)
  <2>1. m = [at |-> q.at, op |-> q.op, booking |-> q.booking, slot |-> q.slot,
             person |-> q.person, status |-> q.status, by |-> q.by, since |-> q.since \cup {b}]
    BY <1>1 DEF Meanwhile
  <2>2. q.since \cup {b} \in SUBSET Booking
    BY DEF Handler
  <2> HIDE DEF m
  <2>3. m \in Handler
    BY <2>1, <2>2 DEF Handler
  <2>4. QED BY <2>1, <2>3 DEF m
<1>2. CASE ~Concerned(q, b, status)
  BY <1>2 DEF Meanwhile
<1>3. QED BY <1>1, <1>2

\* What the others read keeps its worth when a request writes its booking.
LEMMA WriteFacts ==
    ASSUME BookingsInv, NEW h \in Request, NEW r \in Row, handler[h].at # "idle",
           NEW b \in Booking, b = handler[h].booking, Write(h, b, r)
    PROVE  /\ row'[b] = r /\ \A a \in Booking \ {b} : row'[a] = row[a]
           /\ row' \in [Booking -> Row] /\ handler' \in [Request -> Handler]
           /\ \A g \in Request : RequestInv(row', handler'[g])
           /\ FreshInv'
<1>1. row'[b] = r /\ \A a \in Booking \ {b} : row'[a] = row[a]
  BY DEF BookingsInv, TypeOK, Write
<1>2. row' \in [Booking -> Row]
  BY DEF BookingsInv, TypeOK, Write
<1>3. IdleHandler \in Handler /\ IdleHandler.at = "idle" /\ IdleHandler.booking = NoBooking
  BY DEF IdleHandler, Handler, NoSlot, Slot, Status, Canceller
<1>4. /\ handler'[h] = IdleHandler
      /\ \A g \in Request \ {h} : handler'[g] = Meanwhile(handler[g], b, r.status)
  BY DEF Write
<1>5. \A g \in Request : handler[g] \in Handler
  BY DEF BookingsInv, TypeOK
<1>6. handler' \in [Request -> Handler]
  <2>1. \A g \in Request : handler'[g] \in Handler
    BY <1>3, <1>4, <1>5, MeanwhileFacts
  <2>2. DOMAIN handler' = Request /\ handler' = [g \in Request |-> handler'[g]]
    BY DEF Write
  <2>3. QED BY <2>1, <2>2
<1>7. ASSUME NEW g \in Request PROVE RequestInv(row', handler'[g])
  <2>1. CASE g = h
    BY <1>3, <1>4, <2>1 DEF RequestInv, CreateInv, MoveInv, DecideInv, CancelInv
  <2>2. CASE g # h
    <3>1. PICK q, m : q = handler[g] /\ m = handler'[g]
      OBVIOUS
    <3>2. /\ m.at = q.at /\ m.op = q.op /\ m.booking = q.booking /\ m.slot = q.slot
          /\ m.person = q.person /\ m.status = q.status /\ m.by = q.by
          /\ q.since \subseteq m.since
          /\ Concerned(q, b, r.status) => b \in m.since
      BY <1>4, <1>5, <2>2, <3>1, MeanwhileFacts
    <3>3. RequestInv(row, q)
      BY <3>1 DEF BookingsInv
    <3>4. q.at # "idle" /\ q.op = "create" => q.booking # b
      BY <2>2, <3>1 DEF BookingsInv, FreshInv
    <3>5. CreateInv(row', m)
      BY <1>1, <3>2, <3>3, <3>4 DEF RequestInv, CreateInv, ClashesSeen, Concerned, Booking
    <3>6. MoveInv(row', m)
      BY <1>1, <3>2, <3>3 DEF RequestInv, MoveInv, ClashesSeen, Concerned
    <3>7. DecideInv(row', m)
      BY <1>1, <3>2, <3>3 DEF RequestInv, DecideInv, ConfirmedSeen, Concerned
    <3>8. CancelInv(m)
      BY <3>2, <3>3 DEF RequestInv, CancelInv
    <3>9. QED BY <3>1, <3>5, <3>6, <3>7, <3>8 DEF RequestInv
  <2>3. QED BY <2>1, <2>2
<1>8. FreshInv'
  <2> SUFFICES ASSUME NEW g \in Request, NEW k \in Request, g # k,
                      handler'[k].at # "idle", handler'[k].op = "create"
               PROVE  handler'[g].booking # handler'[k].booking
    BY DEF FreshInv
  <2>1. k # h /\ handler[k].at # "idle" /\ handler[k].op = "create"
        /\ handler'[k].booking = handler[k].booking
    BY <1>3, <1>4, <1>5, MeanwhileFacts
  <2>2. handler[k].booking \in Booking
    BY <2>1 DEF BookingsInv, RequestInv, CreateInv
  <2>3. CASE g = h
    BY <1>3, <1>4, <2>1, <2>2, <2>3, BookingsAssumption DEF Booking
  <2>4. CASE g # h
    <3>1. handler'[g].booking = handler[g].booking
      BY <1>4, <1>5, <2>4, MeanwhileFacts
    <3>2. QED BY <2>1, <3>1 DEF BookingsInv, FreshInv
  <2>5. QED BY <2>3, <2>4
<1>9. QED BY <1>1, <1>2, <1>6, <1>7, <1>8

\* The clauses of ClashInv and ConfirmInv are symmetric.
LEMMA OverlapIsSymmetric ==
    ASSUME NEW s, NEW t
    PROVE  Overlap(s, t) <=> Overlap(t, s)
  BY DEF Overlap

LEMMA InsertKeeps ==
    ASSUME BookingsInv, NEW h \in Request, Insert(h)
    PROVE  BookingsInv'
<1>1. PICK q, b, r : /\ q = handler[h] /\ b = q.booking
                     /\ r = [status |-> q.status, slot |-> q.slot, person |-> q.person,
                             cancelledBy |-> "nobody"]
  OBVIOUS
<1>2. /\ q.at = "checked" /\ q.op = "create" /\ Write(h, b, r)
      /\ opened' = [opened EXCEPT ![b] = q.since]
      /\ decided' = [decided EXCEPT ![b] = q.since] /\ requests' = requests
  BY <1>1 DEF Insert
<1>3. q \in Handler /\ RequestInv(row, q)
  BY <1>1 DEF BookingsInv, TypeOK
<1>4. /\ b \in Booking /\ row[b].status = "none" /\ q.status \in Active
      /\ ClashesSeen(row, b, q.slot, q.since)
      /\ b \in Viewing => \A a \in Viewing : row[a].status \in Active /\ row[a].person = q.person
                                            => a \in q.since
  BY <1>1, <1>2, <1>3 DEF RequestInv, CreateInv
<1>5. r \in Row
  BY <1>1, <1>3 DEF Row, Handler, Canceller
<1>6. /\ row'[b] = r /\ \A a \in Booking \ {b} : row'[a] = row[a]
      /\ row' \in [Booking -> Row] /\ handler' \in [Request -> Handler]
      /\ \A g \in Request : RequestInv(row', handler'[g])
      /\ FreshInv'
  BY <1>1, <1>2, <1>4, <1>5, WriteFacts
<1>7. /\ opened'[b] = q.since /\ decided'[b] = q.since
      /\ \A a \in Booking \ {b} : opened'[a] = opened[a] /\ decided'[a] = decided[a]
      /\ opened' \in [Booking -> SUBSET Booking] /\ decided' \in [Booking -> SUBSET Booking]
  BY <1>2, <1>3, <1>4 DEF BookingsInv, TypeOK, Handler
<1>8. TypeOK'
  <2>1. r.status # "cancelled" /\ r.cancelledBy = "nobody"
    BY <1>1, <1>4 DEF Active
  <2>2. \A a \in Viewing : row'[a].status = "cancelled" <=> row'[a].cancelledBy # "nobody"
    BY <1>6, <2>1 DEF BookingsInv, TypeOK, Booking
  <2>3. QED BY <1>2, <1>6, <1>7, <2>2 DEF BookingsInv, TypeOK
<1>9. r.slot = q.slot /\ r.person = q.person
  BY <1>1
<1>10. ClashInv'
  <2> SUFFICES ASSUME NEW a \in Booking, NEW c \in Booking, a # c, SameTable(a, c),
                      row'[a].status \in Active, row'[c].status \in Active,
                      \/ Overlap(row'[a].slot, row'[c].slot)
                      \/ a \in Viewing /\ row'[a].person = row'[c].person
               PROVE  a \in opened'[c] \/ c \in opened'[a]
    BY DEF ClashInv
  <2>1. CASE a # b /\ c # b
    BY <1>6, <1>7, <2>1 DEF BookingsInv, ClashInv
  <2>2. CASE a = b
    BY <1>4, <1>6, <1>7, <1>9, <2>2, OverlapIsSymmetric DEF ClashesSeen, SameTable
  <2>3. CASE c = b
    BY <1>4, <1>6, <1>7, <1>9, <2>3 DEF ClashesSeen, SameTable
  <2>4. QED BY <2>1, <2>2, <2>3
<1>11. ConfirmInv'
  <2> SUFFICES ASSUME NEW a \in Booking, NEW c \in Booking, a # c, SameTable(a, c),
                      row'[a].status = "confirmed", row'[c].status = "confirmed",
                      Overlap(row'[a].slot, row'[c].slot)
               PROVE  \/ a \in decided'[a] \/ a \in decided'[c]
                      \/ c \in decided'[a] \/ c \in decided'[c]
    BY DEF ConfirmInv
  <2>1. CASE a # b /\ c # b
    BY <1>6, <1>7, <2>1 DEF BookingsInv, ConfirmInv
  <2>2. CASE a = b
    BY <1>4, <1>6, <1>7, <1>9, <2>2, OverlapIsSymmetric DEF ClashesSeen, SameTable, Active
  <2>3. CASE c = b
    BY <1>4, <1>6, <1>7, <1>9, <2>3 DEF ClashesSeen, SameTable, Active
  <2>4. QED BY <2>1, <2>2, <2>3
<1>12. QED BY <1>6, <1>8, <1>10, <1>11 DEF BookingsInv

LEMMA MoveKeeps ==
    ASSUME BookingsInv, NEW h \in Request, Move(h)
    PROVE  BookingsInv'
<1>1. PICK q, b : q = handler[h] /\ b = q.booking
  OBVIOUS
<1>2. CASE ~Movable(b)
  BY <1>1, <1>2, WriteNothingKeeps DEF Move
<1>3. CASE Movable(b)
  <2>1. PICK r : r = [status |-> row[b].status, slot |-> q.slot, person |-> row[b].person,
                      cancelledBy |-> row[b].cancelledBy]
    OBVIOUS
  <2>2. /\ q.at = "checked" /\ q.op = "move" /\ Write(h, b, r)
        /\ opened' = [opened EXCEPT ![b] = opened[b] \cup q.since]
        /\ decided' = decided /\ requests' = requests
    BY <1>1, <1>3, <2>1 DEF Move
  <2>3. q \in Handler /\ RequestInv(row, q)
    BY <1>1 DEF BookingsInv, TypeOK
  <2>4. b \in Viewing /\ b \in Booking /\ row[b].status = "pending"
        /\ ClashesSeen(row, b, q.slot, q.since)
    BY <1>1, <1>3, <2>2, <2>3 DEF RequestInv, MoveInv, Movable, Booking
  <2>5. row[b] \in Row
    BY <2>4 DEF BookingsInv, TypeOK
  <2>6. r \in Row
    BY <2>1, <2>3, <2>5 DEF Row, Handler
  <2>7. /\ row'[b] = r /\ \A a \in Booking \ {b} : row'[a] = row[a]
        /\ row' \in [Booking -> Row] /\ handler' \in [Request -> Handler]
        /\ \A g \in Request : RequestInv(row', handler'[g])
        /\ FreshInv'
    BY <1>1, <2>2, <2>4, <2>6, WriteFacts
  <2>8. /\ opened'[b] = opened[b] \cup q.since
        /\ \A a \in Booking \ {b} : opened'[a] = opened[a]
        /\ opened' \in [Booking -> SUBSET Booking]
    BY <2>2, <2>3, <2>4 DEF BookingsInv, TypeOK, Handler
  <2>9. /\ r.slot = q.slot /\ r.person = row[b].person /\ r.status = "pending"
        /\ r.cancelledBy = row[b].cancelledBy
    BY <2>1, <2>4
  <2>10. TypeOK'
    <3>1. \A a \in Viewing : row'[a].status = "cancelled" <=> row'[a].cancelledBy # "nobody"
      BY <2>4, <2>7, <2>9 DEF BookingsInv, TypeOK, Booking
    <3>2. QED BY <2>2, <2>7, <2>8, <3>1 DEF BookingsInv, TypeOK
  <2>11. ClashInv'
    <3> SUFFICES ASSUME NEW a \in Booking, NEW c \in Booking, a # c, SameTable(a, c),
                        row'[a].status \in Active, row'[c].status \in Active,
                        \/ Overlap(row'[a].slot, row'[c].slot)
                        \/ a \in Viewing /\ row'[a].person = row'[c].person
                 PROVE  a \in opened'[c] \/ c \in opened'[a]
      BY DEF ClashInv
    <3>1. row[a].status \in Active /\ row[c].status \in Active
      BY <2>4, <2>7 DEF Active
    <3>2. CASE a # b /\ c # b
      BY <2>7, <2>8, <3>1, <3>2 DEF BookingsInv, ClashInv
    <3>3. CASE a \in Viewing /\ row'[a].person = row'[c].person
      <4>1. row[a].person = row[c].person
        BY <2>7, <2>9, <3>3
      <4>2. QED BY <2>8, <3>1, <3>3, <4>1 DEF BookingsInv, ClashInv
    <3>4. CASE a = b /\ Overlap(row'[a].slot, row'[c].slot)
      BY <2>4, <2>7, <2>8, <2>9, <3>1, <3>4, OverlapIsSymmetric DEF ClashesSeen, SameTable
    <3>5. CASE c = b /\ Overlap(row'[a].slot, row'[c].slot)
      BY <2>4, <2>7, <2>8, <2>9, <3>1, <3>5 DEF ClashesSeen, SameTable
    <3>6. QED BY <3>2, <3>3, <3>4, <3>5
  <2>12. ConfirmInv'
    BY <2>2, <2>7, <2>9 DEF BookingsInv, ConfirmInv
  <2>13. QED BY <2>7, <2>10, <2>11, <2>12 DEF BookingsInv
<1>4. QED BY <1>2, <1>3

LEMMA DecideKeeps ==
    ASSUME BookingsInv, NEW h \in Request, Decide(h)
    PROVE  BookingsInv'
<1>1. PICK q, b : q = handler[h] /\ b = q.booking
  OBVIOUS
<1>2. CASE ~Decidable(b)
  BY <1>1, <1>2, WriteNothingKeeps DEF Decide
<1>3. CASE Decidable(b)
  <2>1. PICK r : r = [status |-> q.status, slot |-> row[b].slot, person |-> row[b].person,
                      cancelledBy |-> row[b].cancelledBy]
    OBVIOUS
  <2>2. /\ q.at = "checked" /\ q.op = "decide" /\ Write(h, b, r)
        /\ decided' = [decided EXCEPT ![b] = q.since]
        /\ opened' = opened /\ requests' = requests
    BY <1>1, <1>3, <2>1 DEF Decide
  <2>3. q \in Handler /\ RequestInv(row, q)
    BY <1>1 DEF BookingsInv, TypeOK
  <2>4. /\ b \in Booking /\ row[b].status = "pending" /\ q.status \in {"confirmed", "declined"}
        /\ q.status = "confirmed" =>
               b \in q.since \/ ConfirmedSeen(row, b, row[b].slot, q.since)
    BY <1>1, <1>3, <2>2, <2>3 DEF RequestInv, DecideInv, Decidable
  <2>5. row[b] \in Row
    BY <2>4 DEF BookingsInv, TypeOK
  <2>6. r \in Row
    BY <2>1, <2>3, <2>5 DEF Row, Handler
  <2>7. /\ row'[b] = r /\ \A a \in Booking \ {b} : row'[a] = row[a]
        /\ row' \in [Booking -> Row] /\ handler' \in [Request -> Handler]
        /\ \A g \in Request : RequestInv(row', handler'[g])
        /\ FreshInv'
    BY <1>1, <2>2, <2>4, <2>6, WriteFacts
  <2>8. /\ decided'[b] = q.since
        /\ \A a \in Booking \ {b} : decided'[a] = decided[a]
        /\ decided' \in [Booking -> SUBSET Booking]
    BY <2>2, <2>3, <2>4 DEF BookingsInv, TypeOK, Handler
  <2>9. /\ r.slot = row[b].slot /\ r.person = row[b].person /\ r.status = q.status
        /\ r.cancelledBy = row[b].cancelledBy
    BY <2>1
  <2>10. TypeOK'
    <3>1. \A a \in Viewing : row'[a].status = "cancelled" <=> row'[a].cancelledBy # "nobody"
      BY <2>4, <2>7, <2>9 DEF BookingsInv, TypeOK, Booking
    <3>2. QED BY <2>2, <2>7, <2>8, <3>1 DEF BookingsInv, TypeOK
  <2>11. ClashInv'
    <3>1. \A a \in Booking : /\ row'[a].slot = row[a].slot /\ row'[a].person = row[a].person
                             /\ row'[a].status \in Active => row[a].status \in Active
      BY <2>4, <2>7, <2>9 DEF Active
    <3>2. QED BY <2>2, <3>1 DEF BookingsInv, ClashInv
  <2>12. ConfirmInv'
    <3> SUFFICES ASSUME NEW a \in Booking, NEW c \in Booking, a # c, SameTable(a, c),
                        row'[a].status = "confirmed", row'[c].status = "confirmed",
                        Overlap(row'[a].slot, row'[c].slot)
                 PROVE  \/ a \in decided'[a] \/ a \in decided'[c]
                        \/ c \in decided'[a] \/ c \in decided'[c]
      BY DEF ConfirmInv
    <3>1. CASE a # b /\ c # b
      BY <2>7, <2>8, <3>1 DEF BookingsInv, ConfirmInv
    <3>2. CASE a = b
      BY <2>4, <2>7, <2>8, <2>9, <3>2, OverlapIsSymmetric DEF ConfirmedSeen, SameTable
    <3>3. CASE c = b
      BY <2>4, <2>7, <2>8, <2>9, <3>3 DEF ConfirmedSeen, SameTable
    <3>4. QED BY <3>1, <3>2, <3>3
  <2>13. QED BY <2>7, <2>10, <2>11, <2>12 DEF BookingsInv
<1>4. QED BY <1>2, <1>3

LEMMA CancelKeeps ==
    ASSUME BookingsInv, NEW h \in Request, Cancel(h)
    PROVE  BookingsInv'
<1>1. PICK q, b : q = handler[h] /\ b = q.booking
  OBVIOUS
<1>2. CASE row[b].status \notin {"pending", "confirmed", "declined"}
  BY <1>1, <1>2, WriteNothingKeeps DEF Cancel
<1>3. CASE row[b].status \in {"pending", "confirmed", "declined"}
  <2>1. PICK r : r = [status |-> "cancelled", slot |-> row[b].slot, person |-> row[b].person,
                      cancelledBy |-> q.by]
    OBVIOUS
  <2>2. /\ q.at = "read" /\ q.op = "cancel" /\ Write(h, b, r)
        /\ UNCHANGED <<requests, opened, decided>>
    BY <1>1, <1>3, <2>1 DEF Cancel
  <2>3. q \in Handler /\ RequestInv(row, q)
    BY <1>1 DEF BookingsInv, TypeOK
  <2>4. b \in Booking /\ (b \in Viewing => q.by # "nobody")
    BY <1>1, <2>2, <2>3 DEF RequestInv, CancelInv
  <2>5. row[b] \in Row
    BY <2>4 DEF BookingsInv, TypeOK
  <2>6. r \in Row
    BY <2>1, <2>3, <2>5 DEF Row, Handler, Status
  <2>7. /\ row'[b] = r /\ \A a \in Booking \ {b} : row'[a] = row[a]
        /\ row' \in [Booking -> Row] /\ handler' \in [Request -> Handler]
        /\ \A g \in Request : RequestInv(row', handler'[g])
        /\ FreshInv'
    BY <1>1, <2>2, <2>4, <2>6, WriteFacts
  <2>8. r.status = "cancelled" /\ r.cancelledBy = q.by
    BY <2>1
  <2>9. TypeOK'
    <3>1. \A a \in Viewing : row'[a].status = "cancelled" <=> row'[a].cancelledBy # "nobody"
      BY <2>4, <2>7, <2>8 DEF BookingsInv, TypeOK, Booking
    <3>2. QED BY <2>2, <2>7, <3>1 DEF BookingsInv, TypeOK
  <2>10. ClashInv' /\ ConfirmInv'
    BY <2>2, <2>7, <2>8 DEF BookingsInv, ClashInv, ConfirmInv, Active
  <2>11. QED BY <2>7, <2>9, <2>10 DEF BookingsInv
<1>4. QED BY <1>2, <1>3

LEMMA PruneKeeps ==
    ASSUME BookingsInv, NEW b \in Viewing, Prune(b)
    PROVE  BookingsInv'
<1>1. b \in Booking /\ row[b].status \in {"declined", "cancelled"}
  BY DEF Prune, Booking
<1>2. PICK r : r = [status |-> "pruned", slot |-> NoSlot, person |-> NoPerson,
                    cancelledBy |-> "nobody"]
  OBVIOUS
<1>3. r \in Row /\ r.status = "pruned" /\ r.cancelledBy = "nobody"
  BY <1>2 DEF Row, Status, Canceller, NoSlot, Slot
<1>4. /\ row' = [row EXCEPT ![b] = r]
      /\ UNCHANGED <<handler, requests, opened, decided>>
  BY <1>2 DEF Prune
<1>5. /\ row'[b] = r /\ \A a \in Booking \ {b} : row'[a] = row[a]
      /\ row' \in [Booking -> Row]
  BY <1>1, <1>3, <1>4 DEF BookingsInv, TypeOK
<1>6. TypeOK'
  <2>1. \A a \in Viewing : row'[a].status = "cancelled" <=> row'[a].cancelledBy # "nobody"
    BY <1>3, <1>5 DEF BookingsInv, TypeOK, Booking
  <2>2. QED BY <1>4, <1>5, <2>1 DEF BookingsInv, TypeOK
<1>7. ASSUME NEW g \in Request PROVE RequestInv(row', handler'[g])
  <2>1. PICK q : q = handler[g]
    OBVIOUS
  <2>2. RequestInv(row, q) /\ handler'[g] = q
    BY <1>4, <2>1 DEF BookingsInv
  <2>3. CreateInv(row', q)
    BY <1>1, <1>3, <1>5, <2>2 DEF RequestInv, CreateInv, ClashesSeen, Active, Booking
  <2>4. MoveInv(row', q)
    BY <1>3, <1>5, <2>2 DEF RequestInv, MoveInv, ClashesSeen, Active
  <2>5. DecideInv(row', q)
    BY <1>1, <1>3, <1>5, <2>2 DEF RequestInv, DecideInv, ConfirmedSeen
  <2>6. QED BY <2>2, <2>3, <2>4, <2>5 DEF RequestInv
<1>8. FreshInv'
  BY <1>4 DEF BookingsInv, FreshInv
<1>9. ClashInv' /\ ConfirmInv'
  BY <1>3, <1>4, <1>5 DEF BookingsInv, ClashInv, ConfirmInv, Active
<1>10. QED BY <1>6, <1>7, <1>8, <1>9 DEF BookingsInv

-----------------------------------------------------------------------------
\* BookingsInv is inductive: it holds in every reachable state, however the handlers
\* interleave.
THEOREM BookingsInvariant == Spec => []BookingsInv
<1>1. BookingsInv /\ [Next]_vars => BookingsInv'
  <2> SUFFICES ASSUME BookingsInv, [Next]_vars PROVE BookingsInv'
    OBVIOUS
  <2>1. CASE UNCHANGED vars
    <3>1. UNCHANGED <<row, handler, requests, opened, decided>>
      BY <2>1 DEF vars
    <3>2. TypeOK' /\ FreshInv' /\ ClashInv' /\ ConfirmInv'
      BY <3>1 DEF BookingsInv, TypeOK, FreshInv, ClashInv, ConfirmInv
    <3>3. \A h \in Request : RequestInv(row', handler'[h])
      BY <3>1 DEF BookingsInv
    <3>4. QED BY <3>2, <3>3 DEF BookingsInv
  <2>2. ASSUME NEW h \in Request, NEW b \in Viewing, NEW slot \in Instant,
               \/ \E person \in Person : AskForViewing(h, b, slot, person)
               \/ AskToMove(h, b, slot)
        PROVE  BookingsInv'
    BY <2>2, AskForViewingKeeps, AskToMoveKeeps
  <2>3. ASSUME NEW h \in Request, NEW b \in Booking,
               \/ \E status \in {"confirmed", "declined"} : AskToDecide(h, b, status)
               \/ \E by \in {"requester", "owner"} : AskToCancel(h, b, by)
        PROVE  BookingsInv'
    BY <2>3, AskToDecideKeeps, AskToCancelKeeps
  <2>4. ASSUME NEW h \in Request, GiveUp(h) PROVE BookingsInv'
    BY <2>4, WriteNothingKeeps DEF GiveUp
  <2>5. QED BY <2>1, <2>2, <2>3, <2>4, AskForStayKeeps, ChecksKeep, InsertKeeps, MoveKeeps,
               DecideKeeps, CancelKeeps, PruneKeeps DEF Next
<1>2. QED BY <1>1, BookingsInvInit, PTL DEF Spec

\* The variables stay in their types, and a cancelled viewing names who cancelled it
\* whatever was decided or moved meanwhile (viewing_requests_cancelled_by_status_check).
THEOREM TypeCorrect == Spec => []TypeOK
<1>1. BookingsInv => TypeOK BY DEF BookingsInv
<1>2. QED BY <1>1, BookingsInvariant, PTL

\* A night, an instant or a second viewing of one person is only taken twice by
\* requests that overlapped.
THEOREM WhatIsThereIsNotTaken == Spec => []OnlyRacesClash
<1>1. BookingsInv => OnlyRacesClash
  <2> SUFFICES ASSUME BookingsInv, NEW a \in Booking, NEW b \in Booking, a # b,
                      SameTable(a, b), row[a].status \in Active, row[b].status \in Active,
                      \/ Share(row[a].slot, row[b].slot)
                      \/ a \in Viewing /\ row[a].person = row[b].person
               PROVE  a \in opened[b] \/ b \in opened[a]
    BY DEF OnlyRacesClash
  <2>1. row[a].slot \in Slot /\ row[b].slot \in Slot
    BY DEF BookingsInv, TypeOK, Row
  <2>2. Share(row[a].slot, row[b].slot) => Overlap(row[a].slot, row[b].slot)
    BY <2>1, BookingsAssumption DEF Share, Overlap, Slot
  <2>3. QED BY <2>2 DEF BookingsInv, ClashInv
<1>2. QED BY <1>1, BookingsInvariant, PTL

\* Two confirmed bookings only share a night or an instant when one changed while the
\* other was being confirmed.
THEOREM TheRecheckCatchesTheRest == Spec => []OnlyRacesConfirmTwice
<1>1. BookingsInv => OnlyRacesConfirmTwice
  <2> SUFFICES ASSUME BookingsInv, NEW a \in Booking, NEW b \in Booking, a # b,
                      SameTable(a, b), row[a].status = "confirmed",
                      row[b].status = "confirmed", Share(row[a].slot, row[b].slot)
               PROVE  {a, b} \cap (decided[a] \cup decided[b]) # {}
    BY DEF OnlyRacesConfirmTwice
  <2>1. row[a].slot \in Slot /\ row[b].slot \in Slot
    BY DEF BookingsInv, TypeOK, Row
  <2>2. Overlap(row[a].slot, row[b].slot)
    BY <2>1, BookingsAssumption DEF Share, Overlap, Slot
  <2>3. QED BY <2>2 DEF BookingsInv, ConfirmInv
<1>2. QED BY <1>1, BookingsInvariant, PTL

\* What was decided stays decided, whatever the requests under way read before.
THEOREM DecisionsAreFinal == Spec => DecisionsStand
<1> DEFINE Stands ==
        \A b \in Booking :
           /\ row[b].status = "confirmed" =>
                  row'[b].status \in {"confirmed", "cancelled"} /\ row'[b].slot = row[b].slot
           /\ row[b].status = "declined" => row'[b].status \notin Active
           /\ row[b].status = "cancelled" => row'[b] = row[b] \/ row'[b].status = "pruned"
<1>1. BookingsInv /\ [Next]_vars => Stands
  <2> SUFFICES ASSUME BookingsInv, [Next]_vars PROVE Stands
    OBVIOUS
  <2>1. ASSUME UNCHANGED row PROVE Stands
    BY <2>1 DEF Active
  \* One row is written, from one of these statuses.
  <2>2. ASSUME NEW b \in Booking, NEW r, row' = [row EXCEPT ![b] = r],
               \/ row[b].status \in {"none", "pending"}
               \/ r.status = "cancelled" /\ r.slot = row[b].slot /\ row[b].status # "cancelled"
               \/ r.status = "pruned" /\ row[b].status \in {"declined", "cancelled"}
        PROVE  Stands
    <3>1. row'[b] = r /\ \A a \in Booking \ {b} : row'[a] = row[a]
      BY <2>2 DEF BookingsInv, TypeOK
    <3>2. QED BY <2>2, <3>1 DEF Active
  <2> HIDE DEF Stands
  <2>3. ASSUME NEW h \in Request, Insert(h) PROVE Stands
    <3>1. handler[h].booking \in Booking /\ row[handler[h].booking].status = "none"
      BY <2>3 DEF Insert, BookingsInv, RequestInv, CreateInv
    <3>2. \E r : row' = [row EXCEPT ![handler[h].booking] = r]
      BY <2>3 DEF Insert, Write
    <3>3. QED BY <2>2, <3>1, <3>2
  <2>4. ASSUME NEW h \in Request, Move(h) PROVE Stands
    <3>1. CASE row[handler[h].booking].status = "pending"
      <4>1. handler[h].booking \in Booking
        BY <2>4 DEF Move, BookingsInv, RequestInv, MoveInv, Booking
      <4>2. \E r : row' = [row EXCEPT ![handler[h].booking] = r]
        BY <2>4, <3>1 DEF Move, Movable, Write
      <4>3. QED BY <2>2, <3>1, <4>1, <4>2
    <3>2. CASE row[handler[h].booking].status # "pending"
      BY <2>1, <2>4, <3>2 DEF Move, Movable, WriteNothing
    <3>3. QED BY <3>1, <3>2
  <2>5. ASSUME NEW h \in Request, Decide(h) PROVE Stands
    <3>1. CASE row[handler[h].booking].status = "pending"
      <4>1. handler[h].booking \in Booking
        BY <2>5 DEF Decide, BookingsInv, RequestInv, DecideInv
      <4>2. \E r : row' = [row EXCEPT ![handler[h].booking] = r]
        BY <2>5, <3>1 DEF Decide, Decidable, Write
      <4>3. QED BY <2>2, <3>1, <4>1, <4>2
    <3>2. CASE row[handler[h].booking].status # "pending"
      BY <2>1, <2>5, <3>2 DEF Decide, Decidable, WriteNothing
    <3>3. QED BY <3>1, <3>2
  <2>6. ASSUME NEW h \in Request, Cancel(h) PROVE Stands
    <3> DEFINE b == handler[h].booking
    <3>1. CASE row[b].status \in {"pending", "confirmed", "declined"}
      <4>1. b \in Booking
        BY <2>6 DEF Cancel, BookingsInv, RequestInv, CancelInv
      <4>2. PICK r : /\ r = [status |-> "cancelled", slot |-> row[b].slot,
                             person |-> row[b].person, cancelledBy |-> handler[h].by]
                     /\ row' = [row EXCEPT ![b] = r]
        BY <2>6, <3>1 DEF Cancel, Write
      <4>3. r.status = "cancelled" /\ r.slot = row[b].slot
        BY <4>2
      <4>4. QED BY <2>2, <3>1, <4>1, <4>2, <4>3
    <3>2. CASE row[b].status \notin {"pending", "confirmed", "declined"}
      BY <2>1, <2>6, <3>2 DEF Cancel, WriteNothing
    <3>3. QED BY <3>1, <3>2
  <2>7. ASSUME NEW b \in Viewing, Prune(b) PROVE Stands
    <3>1. PICK r : /\ r = [status |-> "pruned", slot |-> NoSlot, person |-> NoPerson,
                           cancelledBy |-> "nobody"]
                   /\ row' = [row EXCEPT ![b] = r]
      BY <2>7 DEF Prune
    <3>2. b \in Booking /\ r.status = "pruned" /\ row[b].status \in {"declined", "cancelled"}
      BY <2>7, <3>1 DEF Prune, Booking
    <3>3. QED BY <2>2, <3>1, <3>2
  <2>8. CASE UNCHANGED vars
    BY <2>1, <2>8 DEF vars
  <2>9. ASSUME NEW h \in Request,
               \/ \E b \in Reservation, slot \in Stay, status \in Active :
                      AskForStay(h, b, slot, status)
               \/ \E b \in Viewing, slot \in Instant :
                      \/ \E person \in Person : AskForViewing(h, b, slot, person)
                      \/ AskToMove(h, b, slot)
               \/ \E b \in Booking :
                      \/ \E status \in {"confirmed", "declined"} : AskToDecide(h, b, status)
                      \/ \E by \in {"requester", "owner"} : AskToCancel(h, b, by)
               \/ CheckCalendar(h) \/ CheckInstant(h) \/ CheckDecision(h) \/ GiveUp(h)
        PROVE  UNCHANGED row
    BY <2>9 DEF AskForStay, AskForViewing, AskToMove, AskToDecide, AskToCancel, Begin,
       CheckCalendar, CheckInstant, CheckDecision, GiveUp, WriteNothing
  <2>10. QED BY <2>1, <2>3, <2>4, <2>5, <2>6, <2>7, <2>8, <2>9 DEF Next
<1>2. QED BY <1>1, BookingsInvariant, PTL DEF Spec, DecisionsStand

=============================================================================
