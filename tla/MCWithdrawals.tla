---------------------------- MODULE MCWithdrawals ----------------------------
(* One seller, two requests at once, three withdrawals and two transfers. *)
EXTENDS Withdrawals, TLC

CONSTANTS c1, c2, w1, w2, i1, i2, i3

Interchangeable ==
    Permutations({c1, c2}) \cup Permutations({w1, w2})
        \cup Permutations({i1, i2, i3})
=============================================================================
