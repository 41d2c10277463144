------------------------------ MODULE MCBookings ------------------------------
(* Small instance of Bookings for TLC. *)
EXTENDS Bookings, TLC

Symmetry == Permutations(Request) \cup Permutations(Reservation)
            \cup Permutations(Viewing) \cup Permutations(Person)
=============================================================================
