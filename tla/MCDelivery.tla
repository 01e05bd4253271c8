----------------------------- MODULE MCDelivery -----------------------------
(* One booking, whose code is verified by two requests at once. *)
EXTENDS Delivery, TLC

CONSTANTS b1, s1, a1, v1, v2

MCSeat == [b \in {b1} |-> s1]
MCAccountOf == [b \in {b1} |-> a1]
SameVerifiers == Permutations({v1, v2})
=============================================================================
