-------------------------- MODULE MCBookingPayment --------------------------
(* Two guests after the same ticket; which is which does not matter. *)
EXTENDS BookingPayment, TLC

CONSTANTS b1, b2, s1

MCSeat == [b \in {b1, b2} |-> s1]
Guests == Permutations({b1, b2})
=============================================================================
