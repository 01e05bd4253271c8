------------------------------ MODULE MCRefunds -----------------------------
(* One booking, two requests that cancel or refund it at once. *)
EXTENDS BookingPayment, TLC

CONSTANTS b1, s1, r1, r2

MCSeat == [b \in {b1} |-> s1]
SameRequests == Permutations({r1, r2})
=============================================================================
