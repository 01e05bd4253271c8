------------------------------ MODULE Delivery ------------------------------
(***************************************************************************)
(* Handing a ticket over and paying its seller, on top of BookingPayment:  *)
(* the guest is sent a code (booking.service.ts, generateBookingCode), the *)
(* code is entered and the seller is paid by a Stripe transfer             *)
(* (verifyBookingCode), and Stripe reports the transfer                    *)
(* (webhook.service.ts, handleTransferCreated).                            *)
(*                                                                         *)
(* A verification moves the money first and then writes, in one database   *)
(* transaction, the booking, the platform's credit and the SELLER_PAYOUT   *)
(* row; when the transaction fails it tries to reverse the transfer.  The  *)
(* transaction runs at READ COMMITTED: a row it updates stays locked until *)
(* it ends, a row it only looked for does not.                             *)
(***************************************************************************)
EXTENDS BookingPayment

CONSTANTS
    Verifiers,     \* requests that verify a code, running at once
    Accounts,      \* guests, by email
    AccountOf,     \* AccountOf[b]: who booked b
    PlatformFee,   \* platformFee of a payment; a rounded fee may be 0
    MaxTransfers,  \* bound: transfers ever made
    NoVerifier     \* the holder of a lock nobody holds

ASSUME DeliveryAssumption ==
    /\ AccountOf \in [Bookings -> Accounts]
    /\ PlatformFee \in Nat
    /\ MaxTransfers \in Nat
    /\ NoVerifier \notin Verifiers

VARIABLES
    code,            \* code[a]: a has an unexpired BOOKING code in UserOtp
    verifier,        \* verifier[v]: where the verification v stands
    rowLock,         \* rowLock[b]: who holds the lock on booking b's row
    transfers,       \* Stripe transfers to sellers
    transferEvents,  \* transfer.created events not yet PROCESSED
    payoutRow,       \* SELLER_PAYOUT rows, by transfer and by who wrote them;
                     \* their status, which nothing here reads, is left out
    credits          \* credits[b]: AdminBalance CREDIT rows that name b

dvars == <<code, verifier, rowLock, transfers, transferEvents, payoutRow,
           credits>>
allVars == <<vars, dvars>>

\* refundedBefore: what had gone back to the guest when the transfer was made.
Transfer == [id : 1..MaxTransfers, booking : Bookings, reversed : BOOLEAN,
             refundedBefore : Nat]
PayoutRow == [transfer : 1..MaxTransfers, source : {"verify", "webhook"}]
IdleVerifier == [pc |-> "idle"]
Verification == [pc : {"transfer", "mark", "commit", "reverse"},
                 booking : Bookings, seen : BookingStatus,
                 id : 0..MaxTransfers, credited : BOOLEAN]

DeliveryTypeOK ==
    /\ code \in [Accounts -> BOOLEAN]
    /\ verifier \in [Verifiers -> Verification \cup {IdleVerifier}]
    /\ rowLock \in [Bookings -> Verifiers \cup {NoVerifier}]
    /\ transfers \subseteq Transfer
    /\ transferEvents \subseteq 1..MaxTransfers
    /\ payoutRow \subseteq PayoutRow
    /\ credits \in [Bookings -> Nat]

DInit ==
    /\ Init
    /\ code = [a \in Accounts |-> FALSE]
    /\ verifier = [v \in Verifiers |-> IdleVerifier]
    /\ rowLock = [b \in Bookings |-> NoVerifier]
    /\ transfers = {}
    /\ transferEvents = {}
    /\ payoutRow = {}
    /\ credits = [b \in Bookings |-> 0]

-----------------------------------------------------------------------------
(* The code.  It belongs to the guest's email, not to the booking.         *)

\* The old code is deleted and a new one created, whatever the booking's
\* status.  Between the two the request may die, or lose to another one on the
\* unique (email, type): then no new code is created.
GenerateCode(b) ==
    /\ booking[b] # "none"
    /\ \E made \in BOOLEAN : code' = [code EXCEPT ![AccountOf[b]] = made]
    /\ UNCHANGED <<vars, verifier, rowLock, transfers, transferEvents,
                   payoutRow, credits>>

\* A code ends by the hourly cleanup, and by the authentication, which deletes
\* the codes of an email when it sends or verifies one of any type.
CodeExpires(a) ==
    /\ code[a]
    /\ code' = [code EXCEPT ![a] = FALSE]
    /\ UNCHANGED <<vars, verifier, rowLock, transfers, transferEvents,
                   payoutRow, credits>>

-----------------------------------------------------------------------------
(* Verifying it                                                            *)

DoingAt(v, pc) == verifier[v] # IdleVerifier /\ verifier[v].pc = pc
Proceed(v, q) == verifier' = [verifier EXCEPT ![v] = q]
Unlock(v) ==
    rowLock' = [b \in Bookings |->
                   IF rowLock[b] = v THEN NoVerifier ELSE rowLock[b]]

\* The booking is loaded with its payment, neither status is checked, and the
\* code entered is the guest's and has not expired.  The code is read a query
\* later: one that is good then was good, or could have been made, before.
VerifyCode(v, b) ==
    /\ verifier[v] = IdleVerifier
    /\ booking[b] # "none"
    /\ code[AccountOf[b]]
    /\ Proceed(v, [pc |-> "transfer", booking |-> b, seen |-> booking[b],
                   id |-> 0, credited |-> FALSE])
    /\ UNCHANGED <<vars, code, rowLock, transfers, transferEvents, payoutRow,
                   credits>>

\* createTransferRaw.  No idempotency key: each call is a transfer of its own.
Unused(id) == \A t \in transfers : t.id # id
TransferOncePerBooking(b) ==           \* a slip: an idempotency key per booking
    IF \E t \in transfers : t.booking = b
    THEN (CHOOSE t \in transfers : t.booking = b).id
    ELSE CHOOSE id \in 1..MaxTransfers : Unused(id)
TransferFromZero(b) ==                 \* a slip: a transfer without an id
    CHOOSE id \in 0..MaxTransfers : Unused(id)
NewTransfer(b) == CHOOSE id \in 1..MaxTransfers : Unused(id)

TransferToSeller(v) ==
    /\ DoingAt(v, "transfer")
    /\ \E id \in 1..MaxTransfers : Unused(id)
    /\ LET b == verifier[v].booking
           id == NewTransfer(b)
       IN /\ transfers' = transfers \cup
                 {[id |-> id, booking |-> b, reversed |-> FALSE,
                   refundedBefore |-> refunded[b]]}
          /\ transferEvents' = transferEvents \cup {id}
          /\ Proceed(v, [verifier[v] EXCEPT !.pc = "mark", !.id = id])
    /\ UNCHANGED <<vars, code, rowLock, payoutRow, credits>>

\* The transaction begins.  Unless the booking was DELIVERED when it was
\* loaded, its row is updated and so locked; then an earlier credit is looked
\* for among what is committed.
NeverMarks(seen) == FALSE              \* a slip: the booking is not touched here
MustMark(seen) == seen # "DELIVERED"

\* A slip: the booking is updated outside the transaction.
MarkDeliveredAtOnce(v) ==
    /\ DoingAt(v, "mark")
    /\ booking' = [booking EXCEPT ![verifier[v].booking] = "DELIVERED"]
    /\ Proceed(v, [verifier[v] EXCEPT !.pc = "commit"])
    /\ UNCHANGED <<stripeVars, events, payment, refundRow, isBooked, worker,
                   request, code, rowLock, transfers, transferEvents,
                   payoutRow, credits>>

MarkDelivered(v) ==
    /\ DoingAt(v, "mark")
    /\ LET q == verifier[v] IN
          /\ IF MustMark(q.seen)
             THEN /\ rowLock[q.booking] = NoVerifier
                  /\ rowLock' = [rowLock EXCEPT ![q.booking] = v]
             ELSE UNCHANGED rowLock
          /\ Proceed(v, [q EXCEPT !.pc = "commit",
                                  !.credited = credits[q.booking] > 0])
    /\ UNCHANGED <<vars, code, transfers, transferEvents, payoutRow, credits>>

\* Everything the transaction wrote becomes visible and its locks are released.
CommitDelivery(v) ==
    /\ DoingAt(v, "commit")
    /\ LET q == verifier[v] IN
          /\ booking' = IF MustMark(q.seen)
                        THEN [booking EXCEPT ![q.booking] = "DELIVERED"]
                        ELSE booking
          /\ credits' = IF ~q.credited /\ PlatformFee > 0
                        THEN [credits EXCEPT ![q.booking] = @ + 1]
                        ELSE credits
          /\ code' = [code EXCEPT ![AccountOf[q.booking]] = FALSE]
          /\ payoutRow' = payoutRow \cup
                             {[transfer |-> q.id, source |-> "verify"]}
    /\ Proceed(v, IdleVerifier)
    /\ Unlock(v)
    /\ UNCHANGED <<stripeVars, events, payment, refundRow, isBooked, worker,
                   request, transfers, transferEvents>>

\* The transaction fails or times out and is rolled back.
DeliveryRollsBack(v) ==
    /\ DoingAt(v, "mark") \/ DoingAt(v, "commit")
    /\ Proceed(v, [verifier[v] EXCEPT !.pc = "reverse"])
    /\ Unlock(v)
    /\ UNCHANGED <<vars, code, transfers, transferEvents, payoutRow, credits>>

ReverseTransfer(v) ==
    /\ DoingAt(v, "reverse")
    /\ transfers' = {[t EXCEPT !.reversed = t.reversed \/ t.id = verifier[v].id] :
                        t \in transfers}
    /\ Proceed(v, IdleVerifier)
    /\ UNCHANGED <<vars, code, rowLock, transferEvents, payoutRow, credits>>

\* A check throws, Stripe refuses the transfer or its reversal, or the process
\* dies: an open transaction is rolled back, a transfer made stays made.
VerifierStops(v) ==
    /\ verifier[v] # IdleVerifier
    /\ Proceed(v, IdleVerifier)
    /\ Unlock(v)
    /\ UNCHANGED <<vars, code, transfers, transferEvents, payoutRow, credits>>

-----------------------------------------------------------------------------
\* transfer.created: a payout row that names the transfer is settled; if there
\* is none yet, one is created.
TransferCreated(id) ==
    /\ id \in transferEvents
    /\ payoutRow' = IF \E p \in payoutRow : p.transfer = id THEN payoutRow
                    ELSE payoutRow \cup {[transfer |-> id, source |-> "webhook"]}
    /\ \/ transferEvents' = transferEvents \ {id}
       \/ transferEvents' = transferEvents
    /\ UNCHANGED <<vars, code, verifier, rowLock, transfers, credits>>

Verifying ==
    \E v \in Verifiers :
        \/ \E b \in Bookings : VerifyCode(v, b)
        \/ TransferToSeller(v) \/ MarkDelivered(v)
        \/ CommitDelivery(v) \/ DeliveryRollsBack(v) \/ ReverseTransfer(v)
        \/ VerifierStops(v)

DNext ==
    \/ Next /\ UNCHANGED dvars
    \/ \E b \in Bookings : GenerateCode(b)
    \/ \E a \in Accounts : CodeExpires(a)
    \/ Verifying
    \/ \E id \in 1..MaxTransfers : TransferCreated(id)

DSpec == DInit /\ [][DNext]_allVars

-----------------------------------------------------------------------------
(* Properties                                                              *)

Live(id) == \E t \in transfers : t.id = id /\ ~t.reversed

\* The platform fee is credited once per booking, though verifications of one
\* booking may run at once and only look for an earlier credit: the update of
\* the booking's row before the look makes them take turns.  It holds while a
\* booking becomes DELIVERED through a verification only.
CreditedOnce == \A b \in Bookings : credits[b] <= 1

\* The compensation of a failed verification never takes back a transfer some
\* verification recorded as the seller's payout.
RecordedPayoutsStand ==
    \A p \in payoutRow : p.source = "verify" => Live(p.transfer)

\* A delivered booking has paid its seller and credited its fee: the three
\* writes of a verification are visible together.
DeliveredIsPaidOut ==
    \A b \in Bookings :
        booking[b] = "DELIVERED" =>
            /\ PlatformFee > 0 => credits[b] > 0
            /\ \E t \in transfers :
                  /\ t.booking = b /\ ~t.reversed
                  /\ [transfer |-> t.id, source |-> "verify"] \in payoutRow

\* The seller of a booking that was refunded in full is not paid for it.
RefundedIsNotPaidOut == \A t \in transfers : t.refundedBefore < Price
=============================================================================
