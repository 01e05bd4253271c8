--------------------------- MODULE BookingPayment ---------------------------
(***************************************************************************)
(* The life of a booking and of its payment: the Stripe Checkout session   *)
(* (stripe.service.ts, createCheckoutSession), the webhook handlers that   *)
(* settle it (webhook.service.ts), the guest's cancellation                *)
(* (booking.service.ts, cancelByGuest), refunds (stripe.service.ts,        *)
(* processRefund) and the seller's status changes (updateSellerStatus).    *)
(*                                                                         *)
(* Stripe is the environment: a checkout session, the money captured and   *)
(* returned, and the events it sends.  The database rows are the tables    *)
(* Booking, Transaction (BOOKING_PAYMENT and BOOKING_REFUND rows) and      *)
(* Ticket.isBooked.  Webhook workers and HTTP requests run concurrently:   *)
(* each reads, calls Stripe and writes in separate steps, and may die      *)
(* between two of them.  A booking, its checkout session, its PaymentIntent*)
(* and its BOOKING_PAYMENT row are created together and share one name.    *)
(***************************************************************************)
EXTENDS Naturals, FiniteSets

CONSTANTS
    Bookings,        \* the checkout attempts
    Seats,           \* the tickets
    Seat,            \* Seat[b]: the ticket booking b is for
    Price,           \* what a booking costs, in units of the smallest refund
    Workers,         \* webhook jobs that can run at once (queue concurrency)
    Requests,        \* HTTP requests that cancel or refund, running at once
    AdminAmounts,    \* amounts an admin may refund; 0 leaves the amount out
    SellerStatuses   \* statuses a seller sets through PATCH order-status

BookingStatus == {"PENDING", "CONFIRMED", "SHIPPED", "DELIVERED",
                  "CANCELLED", "EXPIRED", "REFUNDED"}
TransactionStatus == {"PENDING", "SUCCESS", "FAILED", "CANCELLED",
                      "PARTIALLY_REFUNDED", "FULLY_REFUNDED"}

ASSUME BookingPaymentAssumption ==
    /\ Seat \in [Bookings -> Seats]
    /\ Price \in Nat \ {0}
    /\ AdminAmounts \subseteq Nat
    /\ SellerStatuses \subseteq BookingStatus

VARIABLES
    session,     \* session[b]: the Checkout session at Stripe
    attempted,   \* attempted[b]: the session has a PaymentIntent
    refunded,    \* refunded[b]: amount_refunded of the charge
    events,      \* events sent by Stripe whose WebhookEvent is not PROCESSED
    booking,     \* booking[b]: Booking.status, "none" before the row exists
    payment,     \* payment[b]: the BOOKING_PAYMENT row
    refundRow,   \* the BOOKING_REFUND rows
    isBooked,    \* isBooked[s]: Ticket.isBooked
    worker,      \* worker[w]: the webhook job w is running
    request      \* request[r]: where the HTTP request r stands

stripeVars == <<session, attempted, refunded>>
rowVars == <<booking, payment, refundRow, isBooked>>
vars == <<session, attempted, refunded, events, booking, payment, refundRow,
          isBooked, worker, request>>

-----------------------------------------------------------------------------
(* Types                                                                   *)

\* The payment row: its status, whether stripePaymentIntent holds the session
\* id (as created) or the PaymentIntent id, and whether stripeChargeId is set.
PaymentRow == [status : TransactionStatus, intent : {"cs", "pi"},
               charged : BOOLEAN]

\* Stripe numbers refunds: id is the amount refunded before this refund, which
\* no other refund of the payment shares.
RefundRow == [booking : Bookings, id : Nat, amount : Nat,
              status : TransactionStatus]

\* arg: amount_refunded for charge.refunded, 1 if the expired session has a
\* PaymentIntent and 0 if its payment_intent is null; 0 for the other kinds.
EventKind == {"completed", "expired", "succeeded", "failed", "canceled",
              "refunded"}
Event == [kind : EventKind, booking : Bookings, arg : Nat]

\* A row of Transaction a handler found; id tells refund rows apart.
RowRef == [type : {"payment", "refund"}, booking : Bookings, id : Nat]

IdleWorker == [pc |-> "idle"]
Job == [pc : {"run"}, event : Event, row : RowRef, pending : BOOLEAN]

IdleRequest == [pc |-> "idle"]
Request == [pc : {"lookup", "refund", "create", "record", "cancel"},
            kind : {"cancel", "admin"}, booking : Bookings,
            amount : Nat, prior : Nat, id : Nat]

TypeOK ==
    /\ session \in [Bookings -> {"none", "open", "complete", "expired"}]
    /\ attempted \in [Bookings -> BOOLEAN]
    /\ refunded \in [Bookings -> Nat]
    /\ events \subseteq Event
    /\ booking \in [Bookings -> BookingStatus \cup {"none"}]
    /\ payment \in [Bookings -> PaymentRow]
    /\ refundRow \subseteq RefundRow
    /\ isBooked \in [Seats -> BOOLEAN]
    /\ worker \in [Workers -> Job \cup {IdleWorker}]
    /\ request \in [Requests -> Request \cup {IdleRequest}]

Init ==
    /\ session = [b \in Bookings |-> "none"]
    /\ attempted = [b \in Bookings |-> FALSE]
    /\ refunded = [b \in Bookings |-> 0]
    /\ events = {}
    /\ booking = [b \in Bookings |-> "none"]
    /\ payment = [b \in Bookings |->
                    [status |-> "PENDING", intent |-> "cs", charged |-> FALSE]]
    /\ refundRow = {}
    /\ isBooked = [s \in Seats |-> FALSE]
    /\ worker = [w \in Workers |-> IdleWorker]
    /\ request = [r \in Requests |-> IdleRequest]

-----------------------------------------------------------------------------
(* Checkout: the session is opened at Stripe before the database           *)
(* transaction that checks the ticket again and creates the rows.          *)

OpenSession(b) ==
    /\ session[b] = "none"
    /\ session' = [session EXCEPT ![b] = "open"]
    /\ UNCHANGED <<attempted, refunded, events, rowVars, worker, request>>

\* The ticket may be taken by now: then the request fails and the session is
\* an orphan.  The transaction takes no lock on the ticket and does not mark
\* it; its read and its commit are one step here, because isBooked never goes
\* back and a row created after it is set is one created just before.
CreateBooking(b) ==
    /\ session[b] = "open"
    /\ booking[b] = "none"
    /\ ~isBooked[Seat[b]]
    /\ booking' = [booking EXCEPT ![b] = "PENDING"]
    /\ UNCHANGED <<stripeVars, events, payment, refundRow, isBooked, worker,
                   request>>

-----------------------------------------------------------------------------
(* Stripe.  The guest has the session's URL once the booking exists.       *)

Send(kind, b, arg) == [kind |-> kind, booking |-> b, arg |-> arg]

PaymentDeclined(b) ==
    /\ session[b] = "open"
    /\ booking[b] # "none"
    /\ attempted' = [attempted EXCEPT ![b] = TRUE]
    /\ events' = events \cup {Send("failed", b, 0)}
    /\ UNCHANGED <<session, refunded, rowVars, worker, request>>

PaymentCaptured(b) ==
    /\ session[b] = "open"
    /\ booking[b] # "none"
    /\ session' = [session EXCEPT ![b] = "complete"]
    /\ attempted' = [attempted EXCEPT ![b] = TRUE]
    /\ events' = events \cup {Send("completed", b, 0), Send("succeeded", b, 0)}
    /\ UNCHANGED <<refunded, rowVars, worker, request>>

\* A session that expires takes its PaymentIntent, if it has one, with it.
SessionExpires(b) ==
    /\ session[b] = "open"
    /\ session' = [session EXCEPT ![b] = "expired"]
    /\ events' = events \cup
          IF attempted[b]
          THEN {Send("expired", b, 1), Send("canceled", b, 0)}
          ELSE {Send("expired", b, 0)}
    /\ UNCHANGED <<attempted, refunded, rowVars, worker, request>>

-----------------------------------------------------------------------------
(* Webhook jobs.  A job first finds its Transaction row, then writes.      *)

PaymentRef(b) == [type |-> "payment", booking |-> b, id |-> 0]
RefundRefs(rows) ==
    {[type |-> "refund", booking |-> q.booking, id |-> q.id] : q \in rows}

\* Found by externalTxnId, which holds the session id.
BySession(b) == {PaymentRef(x) : x \in {y \in {b} : booking[y] # "none"}}

\* Found by stripePaymentIntent: only rows that hold the PaymentIntent id.
ByIntentOrSession(b) == BySession(b)  \* a slip: the session id matches too
ByIntent(b) ==
    {PaymentRef(x) : x \in {y \in {b} : payment[y].intent = "pi"}}

\* externalTxnId = session OR stripePaymentIntent = payment_intent: when the
\* session has none the second term is IS NULL, which every refund row meets.
ExpiredRowsIntentUnset(e) ==          \* a slip: created without an intent
    {PaymentRef(x) : x \in {y \in Bookings : /\ booking[y] # "none"
                                             /\ payment[y].intent = "cs"}}
ExpiredRows(e) ==
    BySession(e.booking) \cup (IF e.arg = 0 THEN RefundRefs(refundRow) ELSE {})

\* Found by stripeChargeId, which the refund rows of the charge hold as well.
ByCharge(b) ==
    {PaymentRef(x) : x \in {y \in {b} : payment[y].charged}}
        \cup RefundRefs({q \in refundRow : q.booking = b})

Matches(e) ==
    CASE e.kind = "completed" -> BySession(e.booking)
      [] e.kind = "expired"   -> ExpiredRows(e)
      [] e.kind = "refunded"  -> ByCharge(e.booking)
      [] OTHER                -> ByIntent(e.booking)

\* findFirst has no order: any matching row may be the one.
StartJob(w, e) ==
    /\ worker[w] = IdleWorker
    /\ \E row \in Matches(e) :
          worker' = [worker EXCEPT ![w] =
              [pc |-> "run", event |-> e, row |-> row,
               pending |-> row.type = "payment"
                             /\ booking[row.booking] = "PENDING"]]
    /\ UNCHANGED <<stripeVars, events, rowVars, request>>

\* The rows of payouts have no PaymentIntent either, and meet IS NULL too.
FindsPayoutRow(e) == e.kind = "expired" /\ e.arg = 0

\* No row: the handler logs a warning and returns, the event is PROCESSED.  So
\* it is when a payout row was found, and FAILED is written there.
SkipJob(e) ==
    /\ Matches(e) = {} \/ FindsPayoutRow(e)
    /\ events' = events \ {e}
    /\ UNCHANGED <<stripeVars, rowVars, worker, request>>

\* The attempt fails before its commit, or the process dies: the event stays.
JobFails(w) ==
    /\ worker[w] # IdleWorker
    /\ worker' = [worker EXCEPT ![w] = IdleWorker]
    /\ UNCHANGED <<stripeVars, events, rowVars, request>>

\* The handler is done.  PROCESSED is written after its commit: a crash in
\* between leaves the event to be processed again.
Finish(w) ==
    /\ worker' = [worker EXCEPT ![w] = IdleWorker]
    /\ \/ events' = events \ {worker[w].event}
       \/ events' = events

Running(w, kinds) ==
    /\ worker[w] # IdleWorker
    /\ worker[w].event.kind \in kinds

SetPayment(b, s) == [payment EXCEPT ![b].status = s]

\* The rows, with the status of the one the job found set to s.
MarkRow(row, s) ==
    IF row.type = "payment"
    THEN /\ payment' = SetPayment(row.booking, s)
         /\ UNCHANGED refundRow
    ELSE /\ refundRow' = {IF q.booking = row.booking /\ q.id = row.id
                          THEN [q EXCEPT !.status = s] ELSE q : q \in refundRow}
         /\ UNCHANGED payment

ConfirmIfSeatFree(b) ==               \* a slip: leaves a paid booking PENDING
    IF isBooked[Seat[b]] THEN booking ELSE [booking EXCEPT ![b] = "CONFIRMED"]
Confirm(b) == [booking EXCEPT ![b] = "CONFIRMED"]

CheckoutCompleted(w) ==
    /\ Running(w, {"completed"})
    /\ LET b == worker[w].row.booking IN
          /\ payment' = [payment EXCEPT ![b].status = "SUCCESS",
                                        ![b].intent = "pi"]
          /\ booking' = Confirm(b)
          /\ isBooked' = [isBooked EXCEPT ![Seat[b]] = TRUE]
    /\ Finish(w)
    /\ UNCHANGED <<stripeVars, refundRow, request>>

ExpiredStatusAsCommented == "FAILED"  \* a slip: the status the comment names
ExpiredStatus == "EXPIRED"

\* The transaction is FAILED whatever row was found; the booking is EXPIRED
\* only if it was PENDING when the job read it.
CheckoutExpired(w) ==
    /\ Running(w, {"expired"})
    /\ MarkRow(worker[w].row, "FAILED")
    /\ booking' = IF worker[w].pending
                  THEN [booking EXCEPT ![worker[w].row.booking] = ExpiredStatus]
                  ELSE booking
    /\ Finish(w)
    /\ UNCHANGED <<stripeVars, isBooked, request>>

PaymentIntentSucceeded(w) ==
    /\ Running(w, {"succeeded"})
    /\ LET b == worker[w].row.booking IN
          /\ payment' = [payment EXCEPT ![b].status = "SUCCESS",
                                        ![b].charged = TRUE]
          /\ booking' = Confirm(b)
    /\ Finish(w)
    /\ UNCHANGED <<stripeVars, refundRow, isBooked, request>>

NotPaidStatus(kind) == IF kind = "failed" THEN "FAILED" ELSE "CANCELLED"

\* payment_intent.payment_failed and payment_intent.canceled.
PaymentIntentNotPaid(w) ==
    /\ Running(w, {"failed", "canceled"})
    /\ payment' = SetPayment(worker[w].row.booking,
                             NotPaidStatus(worker[w].event.kind))
    /\ booking' = IF worker[w].pending
                  THEN [booking EXCEPT ![worker[w].row.booking] = "CANCELLED"]
                  ELSE booking
    /\ Finish(w)
    /\ UNCHANGED <<stripeVars, refundRow, isBooked, request>>

\* The booking is not written.  Newer API versions leave the list of refunds
\* out of the event; when it is there, the rows of the listed refunds are
\* SUCCESS again before the row that was found gets its status.
ChargeRefunded(w) ==
    /\ Running(w, {"refunded"})
    /\ LET row == worker[w].row
           total == worker[w].event.arg
           status == IF total = Price THEN "FULLY_REFUNDED"
                                      ELSE "PARTIALLY_REFUNDED"
           Listed(q) == q.booking = row.booking /\ q.id + q.amount <= total
       IN \E listed \in BOOLEAN :
             /\ refundRow' =
                  {[q EXCEPT !.status =
                       IF RefundRefs({q}) = {row} THEN status
                       ELSE IF listed /\ Listed(q) THEN "SUCCESS"
                       ELSE @] : q \in refundRow}
             /\ payment' = IF row.type = "payment"
                           THEN SetPayment(row.booking, status) ELSE payment
    /\ Finish(w)
    /\ UNCHANGED <<stripeVars, booking, isBooked, request>>

-----------------------------------------------------------------------------
(* Cancellation by the guest and refunds.  Each step of a request is a read *)
(* or a write on its own connection, or a call of Stripe.                   *)

CancellationFee == 0
RefundAmountLessOne == Price - 1      \* a slip: a fee is kept
RefundAmount == Price - CancellationFee

At(r, pc) == request[r] # IdleRequest /\ request[r].pc = pc
GoTo(r, q) == request' = [request EXCEPT ![r] = q]

\* cancelByGuest loads the booking and its payment and checks both.
CancelLoad(r, b) ==
    /\ request[r] = IdleRequest
    /\ booking[b] \notin {"none", "CANCELLED", "DELIVERED"}
    /\ payment[b].status = "SUCCESS"
    /\ GoTo(r, [pc |-> "lookup", kind |-> "cancel", booking |-> b,
                amount |-> RefundAmount, prior |-> 0, id |-> 0])
    /\ UNCHANGED <<stripeVars, events, rowVars, worker>>

RefundsOfAnyone(b) == {x \in refundRow : x.status = "SUCCESS"}  \* a slip
RefundsMade(b) == {x \in refundRow : x.booking = b /\ x.status = "SUCCESS"}

\* Then looks for a refund it made before; with one, it makes no other.
CancelLookup(r) ==
    /\ At(r, "lookup")
    /\ LET q == request[r]
           done == RefundsMade(q.booking)
       IN \/ /\ done = {}
             /\ GoTo(r, [q EXCEPT !.pc = "refund"])
          \/ \E x \in done :
                GoTo(r, [q EXCEPT !.pc = "cancel", !.prior = x.amount])
    /\ UNCHANGED <<stripeVars, events, rowVars, worker>>

\* POST stripe/refund: the admin names the payment by either identifier.
AdminRefund(r, b, n) ==
    /\ request[r] = IdleRequest
    /\ booking[b] # "none"
    /\ session[b] = "complete"
    /\ n \in AdminAmounts
    /\ GoTo(r, [pc |-> "refund", kind |-> "admin", booking |-> b,
                amount |-> n, prior |-> 0, id |-> 0])
    /\ UNCHANGED <<stripeVars, events, rowVars, worker>>

\* What is asked for, capped by what the charge still has.
Due(q) ==
    LET left == Price - refunded[q.booking] IN
    IF q.amount = 0 \/ q.amount > left THEN left ELSE q.amount

\* processRefund asks Stripe what remains; it throws when nothing does.
ReadRefundable(r) ==
    /\ At(r, "refund")
    /\ Due(request[r]) > 0
    /\ GoTo(r, [request[r] EXCEPT !.pc = "create", !.amount = Due(request[r])])
    /\ UNCHANGED <<stripeVars, events, rowVars, worker>>

CreateRefundErrorIgnored(r) ==        \* a slip: a refusal is taken for success
    /\ At(r, "create")
    /\ LET q == request[r] IN
          /\ refunded' = IF refunded[q.booking] + q.amount <= Price
                         THEN [refunded EXCEPT ![q.booking] = @ + q.amount]
                         ELSE refunded
          /\ GoTo(r, [q EXCEPT !.pc = "record", !.id = refunded[q.booking]])
    /\ UNCHANGED <<session, attempted, events, rowVars, worker>>

\* refunds.create.  Stripe refuses more than remains: then the request fails.
CreateRefund(r) ==
    /\ At(r, "create")
    /\ LET q == request[r]
           total == refunded[q.booking] + q.amount
       IN /\ total <= Price
          /\ refunded' = [refunded EXCEPT ![q.booking] = total]
          /\ events' = events \cup {Send("refunded", q.booking, total)}
          /\ GoTo(r, [q EXCEPT !.pc = "record", !.id = refunded[q.booking]])
    /\ UNCHANGED <<session, attempted, rowVars, worker>>

\* The refund row commits: an admin's request ends here.
RecordRefund(r) ==
    /\ At(r, "record")
    /\ LET q == request[r] IN
          /\ refundRow' = refundRow \cup
                {[booking |-> q.booking, id |-> q.id, amount |-> q.amount,
                  status |-> "SUCCESS"]}
          /\ GoTo(r, IF q.kind = "cancel" THEN [q EXCEPT !.pc = "cancel"]
                                          ELSE IdleRequest)
    /\ UNCHANGED <<stripeVars, events, booking, payment, isBooked, worker>>

\* The status computed for the payment from the refund found and the amount
\* the cancellation asked for, made or not.
CancelStatus(q) ==
    IF q.prior + RefundAmount >= Price THEN "FULLY_REFUNDED"
    ELSE IF q.prior + RefundAmount > 0 THEN "PARTIALLY_REFUNDED"
    ELSE "SUCCESS"

\* The batch that cancels the booking and closes its payment.
CancelBooking(r) ==
    /\ At(r, "cancel")
    /\ LET q == request[r] IN
          /\ booking' = [booking EXCEPT ![q.booking] = "CANCELLED"]
          /\ payment' = SetPayment(q.booking, CancelStatus(q))
    /\ GoTo(r, IdleRequest)
    /\ UNCHANGED <<stripeVars, events, refundRow, isBooked, worker>>

\* A check throws, Stripe refuses, a transaction times out or the process
\* dies.  What was done stays done.
RequestFails(r) ==
    /\ request[r] # IdleRequest
    /\ GoTo(r, IdleRequest)
    /\ UNCHANGED <<stripeVars, events, rowVars, worker>>

\* updateSellerStatus writes the status it is given, whatever the booking's.
SellerSetsStatus(b, s) ==
    /\ booking[b] # "none"
    /\ booking' = [booking EXCEPT ![b] = s]
    /\ UNCHANGED <<stripeVars, events, payment, refundRow, isBooked, worker,
                   request>>

-----------------------------------------------------------------------------
Guest == \E b \in Bookings : OpenSession(b) \/ CreateBooking(b)

Stripe == \E b \in Bookings :
    PaymentDeclined(b) \/ PaymentCaptured(b) \/ SessionExpires(b)

Webhook ==
    \/ \E e \in events : SkipJob(e) \/ \E w \in Workers : StartJob(w, e)
    \/ \E w \in Workers :
          \/ CheckoutCompleted(w) \/ CheckoutExpired(w)
          \/ PaymentIntentSucceeded(w) \/ PaymentIntentNotPaid(w)
          \/ ChargeRefunded(w) \/ JobFails(w)

Refunding ==
    \E r \in Requests :
        \/ \E b \in Bookings : CancelLoad(r, b)
        \/ \E b \in Bookings, n \in AdminAmounts : AdminRefund(r, b, n)
        \/ CancelLookup(r) \/ ReadRefundable(r) \/ CreateRefund(r)
        \/ RecordRefund(r) \/ CancelBooking(r) \/ RequestFails(r)

Seller == \E b \in Bookings, s \in SellerStatuses : SellerSetsStatus(b, s)

Next == Guest \/ Stripe \/ Webhook \/ Refunding \/ Seller

Spec == Init /\ [][Next]_vars

-----------------------------------------------------------------------------
(* Properties                                                              *)

\* The BOOKING_REFUND rows are a faithful ledger whatever the interleaving of
\* cancellations, admin refunds, webhooks and crashes: each row is money Stripe
\* really returned, no two rows stand for the same money, no row vanishes, and
\* no more than the price goes back (processRefund, handleChargeRefunded).
Ledger == INSTANCE RefundLedger WITH
    captured <- {b \in Bookings : session[b] = "complete"},
    ledger <- {[booking |-> q.booking, from |-> q.id, amount |-> q.amount] :
                  q \in refundRow}
RefundLedgerImplemented == Ledger!LSpec

\* A payment row that is SUCCESS never stands beside a booking that still waits
\* for payment or was given up: the handlers write both in one commit, and the
\* late failure and expiry handlers cannot come between them.
SettledTogether ==
    \A b \in Bookings :
        payment[b].status = "SUCCESS" => booking[b] \notin {"PENDING", "EXPIRED"}

\* A booking is confirmed only for captured money and a ticket marked booked,
\* though payment_intent.succeeded confirms without looking at the ticket.
ConfirmedSeatIsTaken ==
    \A b \in Bookings :
        booking[b] = "CONFIRMED" => isBooked[Seat[b]] /\ session[b] = "complete"

\* A cancelled booking's guest has all the money back, however the cancellation
\* raced with another one, a webhook or a crash (cancelByGuest).
CancelledMeansMoneyBack ==
    \A b \in Bookings : booking[b] = "CANCELLED" => refunded[b] = Price

\* A payment marked FULLY_REFUNDED was refunded in full.
FullyRefundedMeansMoneyBack ==
    \A b \in Bookings :
        payment[b].status = "FULLY_REFUNDED" => refunded[b] = Price

\* A booking expires only with its own session, and stays expired unless its
\* seller writes another status: no payment can arrive for it, and no other
\* session's expiry reaches it (handleCheckoutSessionExpired).
ExpiryIsFinal ==
    [][\A b \in Bookings :
          booking[b] = "EXPIRED" =>
              /\ session[b] = "expired"
              /\ booking'[b] \in {"EXPIRED"} \cup SellerStatuses]_vars

Quiet == events = {} /\ \A r \in Requests : request[r] = IdleRequest

\* Two guests never hold a confirmed booking for one ticket.
OneGuestPerSeat ==
    \A b, c \in Bookings :
        b # c /\ Seat[b] = Seat[c] =>
            ~(booking[b] = "CONFIRMED" /\ booking[c] = "CONFIRMED")

\* Once every request ended and every event is processed, a booking whose
\* payment went back in full is cancelled or refunded.
RefundReachesBooking ==
    \A b \in Bookings :
        Quiet /\ refunded[b] = Price => booking[b] \in {"CANCELLED", "REFUNDED"}

=============================================================================
