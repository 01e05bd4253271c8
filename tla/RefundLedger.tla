---------------------------- MODULE RefundLedger ----------------------------
(***************************************************************************)
(* What the refund bookkeeping promises, without saying how it is done.    *)
(*                                                                         *)
(* A payment of Price is captured once per booking.  Money then only flows *)
(* back to the guest, a piece at a time: refunded[b] is how much of the    *)
(* payment has been returned, and a piece is the interval                  *)
(* [from, from + amount) of the payment.  The ledger is the set of pieces  *)
(* the database has a BOOKING_REFUND row for.  Money moves first and is    *)
(* recorded later, or never (a crash), but a recorded piece is one that    *)
(* was really returned, it is recorded once, and its record stays.         *)
(***************************************************************************)
EXTENDS Naturals

CONSTANTS
    Bookings,  \* the bookings
    Price      \* what the guest pays for a booking

VARIABLES
    captured,  \* the bookings whose payment was captured
    refunded,  \* refunded[b]: how much of the payment went back to the guest
    ledger     \* the refunds the database knows of

lvars == <<captured, refunded, ledger>>

Piece == [booking : Bookings, from : Nat, amount : Nat]

\* Two pieces of one payment that share no money.
Disjoint(p, q) ==
    p.booking = q.booking =>
        p.from + p.amount <= q.from \/ q.from + q.amount <= p.from

LInit ==
    /\ captured = {}
    /\ refunded = [b \in Bookings |-> 0]
    /\ ledger = {}

Capture(b) ==
    /\ b \notin captured
    /\ captured' = captured \cup {b}
    /\ UNCHANGED <<refunded, ledger>>

\* Money goes back to the guest, never more than was captured.
Return(b, n) ==
    /\ b \in captured
    /\ n > 0
    /\ refunded[b] + n <= Price
    /\ refunded' = [refunded EXCEPT ![b] = @ + n]
    /\ UNCHANGED <<captured, ledger>>

\* A piece that was returned, and of which nothing was recorded yet, is.
Record(p) ==
    /\ p.amount > 0
    /\ p.from + p.amount <= refunded[p.booking]
    /\ \A q \in ledger : Disjoint(p, q)
    /\ ledger' = ledger \cup {p}
    /\ UNCHANGED <<captured, refunded>>

LNext ==
    \/ \E b \in Bookings : Capture(b)
    \/ \E b \in Bookings, n \in 1..Price : Return(b, n)
    \/ \E b \in Bookings, from \in 0..Price, n \in 1..Price :
          Record([booking |-> b, from |-> from, amount |-> n])

LSpec == LInit /\ [][LNext]_lvars
=============================================================================
