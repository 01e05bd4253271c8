------------------------ MODULE BookingPaymentProofs ------------------------
(***************************************************************************)
(* Theorems about BookingPayment for every number of bookings, tickets,    *)
(* workers and requests, every price and every set of refundable amounts:  *)
(* types, the evidence every status rests on and what follows of it, and   *)
(* that refunds are kept as RefundLedger promises.                         *)
(***************************************************************************)
EXTENDS BookingPayment, TLAPS

-----------------------------------------------------------------------------
(* Type correctness                                                        *)

\* The rows a job can find are references to rows of Transaction.
LEMMA MatchesAreRows ==
    ASSUME TypeOK, NEW e \in Event
    PROVE  Matches(e) \subseteq RowRef
<1>1. \A b \in Bookings : BySession(b) \subseteq RowRef
  BY DEF BySession, PaymentRef, RowRef
<1>2. \A b \in Bookings : ByIntent(b) \subseteq RowRef
  BY DEF ByIntent, PaymentRef, RowRef
<1>3. \A rows \in SUBSET refundRow : RefundRefs(rows) \subseteq RowRef
  BY DEF TypeOK, RefundRefs, RowRef, RefundRow
<1>4. \A b \in Bookings : ByCharge(b) \subseteq RowRef
  BY <1>3 DEF ByCharge, PaymentRef, RowRef
<1>5. e.booking \in Bookings
  BY DEF Event
<1>6. ExpiredRows(e) \subseteq RowRef
  BY <1>1, <1>3, <1>5 DEF ExpiredRows
<1> QED
  BY <1>1, <1>2, <1>4, <1>5, <1>6 DEF Matches

\* An event Stripe sends is an event.
LEMMA SendIsEvent ==
    ASSUME NEW b \in Bookings, NEW kind \in EventKind, NEW n \in Nat
    PROVE  Send(kind, b, n) \in Event
  BY DEF Send, Event

\* Setting the status of a payment keeps the payments well typed.
LEMMA SetPaymentType ==
    ASSUME payment \in [Bookings -> PaymentRow],
           NEW b \in Bookings, NEW s \in TransactionStatus
    PROVE  SetPayment(b, s) \in [Bookings -> PaymentRow]
<1>1. [payment[b] EXCEPT !.status = s] \in PaymentRow
  BY DEF PaymentRow
<1> QED BY <1>1 DEF SetPayment

\* MarkRow keeps the rows well typed.
LEMMA MarkRowType ==
    ASSUME TypeOK, NEW row \in RowRef, NEW s \in TransactionStatus,
           MarkRow(row, s)
    PROVE  payment' \in [Bookings -> PaymentRow] /\ refundRow' \subseteq RefundRow
<1>1. CASE row.type = "payment"
  <2>1. SetPayment(row.booking, s) \in [Bookings -> PaymentRow]
    BY SetPaymentType DEF TypeOK, RowRef
  <2> QED BY <1>1, <2>1 DEF MarkRow, TypeOK
<1>2. CASE row.type # "payment"
  BY <1>2 DEF MarkRow, TypeOK, RefundRow
<1> QED BY <1>1, <1>2

\* A step of the guest, of Stripe or of a seller keeps the types.
LEMMA EnvironmentType ==
    ASSUME TypeOK, Guest \/ Stripe \/ Seller
    PROVE  TypeOK'
<1> USE DEF rowVars, stripeVars
<1>1. ASSUME NEW b \in Bookings, OpenSession(b) PROVE TypeOK'
  BY <1>1 DEF OpenSession, TypeOK
<1>2. ASSUME NEW b \in Bookings, CreateBooking(b) PROVE TypeOK'
  BY <1>2 DEF CreateBooking, TypeOK, BookingStatus
<1>3. ASSUME NEW b \in Bookings, PaymentDeclined(b) PROVE TypeOK'
  <2>1. Send("failed", b, 0) \in Event
    BY SendIsEvent DEF EventKind
  <2> QED BY <1>3, <2>1 DEF PaymentDeclined, TypeOK
<1>4. ASSUME NEW b \in Bookings, PaymentCaptured(b) PROVE TypeOK'
  <2>1. Send("completed", b, 0) \in Event /\ Send("succeeded", b, 0) \in Event
    BY SendIsEvent DEF EventKind
  <2> QED BY <1>4, <2>1 DEF PaymentCaptured, TypeOK
<1>5. ASSUME NEW b \in Bookings, SessionExpires(b) PROVE TypeOK'
  <2>1. /\ Send("expired", b, 0) \in Event /\ Send("expired", b, 1) \in Event
        /\ Send("canceled", b, 0) \in Event
    BY SendIsEvent DEF EventKind
  <2> QED BY <1>5, <2>1 DEF SessionExpires, TypeOK
<1>6. ASSUME NEW b \in Bookings, NEW s \in SellerStatuses, SellerSetsStatus(b, s)
      PROVE TypeOK'
  BY <1>6, BookingPaymentAssumption DEF SellerSetsStatus, TypeOK
<1> QED BY <1>1, <1>2, <1>3, <1>4, <1>5, <1>6 DEF Guest, Stripe, Seller

\* A step of a webhook job keeps the types.
LEMMA WebhookType ==
    ASSUME TypeOK, Webhook
    PROVE  TypeOK'
<1> USE DEF rowVars, stripeVars
<1>1. ASSUME NEW e \in events, SkipJob(e) PROVE TypeOK'
  BY <1>1 DEF SkipJob, TypeOK
<1>2. ASSUME NEW e \in events, NEW w \in Workers, StartJob(w, e) PROVE TypeOK'
  <2>1. PICK row \in Matches(e) : worker' = [worker EXCEPT ![w] =
           [pc |-> "run", event |-> e, row |-> row,
            pending |-> row.type = "payment" /\ booking[row.booking] = "PENDING"]]
    BY <1>2 DEF StartJob
  <2>2. e \in Event /\ row \in RowRef
    BY <2>1, MatchesAreRows DEF TypeOK
  <2>3. [pc |-> "run", event |-> e, row |-> row,
         pending |-> row.type = "payment" /\ booking[row.booking] = "PENDING"]
           \in Job
    BY <2>2 DEF Job
  <2>4. worker' \in [Workers -> Job \cup {IdleWorker}]
    BY <2>1, <2>3 DEF TypeOK
  <2> QED BY <1>2, <2>4 DEF StartJob, TypeOK
<1>3. ASSUME NEW w \in Workers, JobFails(w) PROVE TypeOK'
  BY <1>3 DEF JobFails, TypeOK
<1>4. ASSUME NEW w \in Workers, worker[w] # IdleWorker
      PROVE  /\ worker[w] \in Job /\ worker[w].row \in RowRef
             /\ worker[w].event \in Event
             /\ worker[w].row.booking \in Bookings
             /\ worker[w].event.arg \in Nat
  BY <1>4 DEF TypeOK, Job, RowRef, Event
<1>5. ASSUME NEW w \in Workers, Finish(w)
      PROVE  /\ worker' \in [Workers -> Job \cup {IdleWorker}]
             /\ events' \subseteq Event
  BY <1>5 DEF Finish, TypeOK
<1>6. ASSUME NEW w \in Workers, CheckoutCompleted(w) PROVE TypeOK'
  <2> DEFINE b == worker[w].row.booking
  <2>1. b \in Bookings
    BY <1>4, <1>6 DEF CheckoutCompleted, Running
  <2>3. payment' \in [Bookings -> PaymentRow]
    <3>1. payment' = [SetPayment(b, "SUCCESS") EXCEPT ![b].intent = "pi"]
      BY <1>6 DEF CheckoutCompleted, SetPayment
    <3>2. SetPayment(b, "SUCCESS") \in [Bookings -> PaymentRow]
      BY <2>1, SetPaymentType DEF TypeOK, TransactionStatus
    <3>3. ASSUME NEW p \in [Bookings -> PaymentRow]
          PROVE  [p EXCEPT ![b].intent = "pi"] \in [Bookings -> PaymentRow]
      <4>1. [p[b] EXCEPT !.intent = "pi"] \in PaymentRow
        BY <2>1 DEF PaymentRow
      <4> QED BY <4>1
    <3> QED BY <3>1, <3>2, <3>3
  <2>4. booking' \in [Bookings -> BookingStatus \cup {"none"}]
    BY <1>6, <2>1 DEF CheckoutCompleted, Confirm, BookingStatus, TypeOK
  <2>5. isBooked' \in [Seats -> BOOLEAN]
    BY <1>6 DEF CheckoutCompleted, TypeOK
  <2> QED BY <1>5, <1>6, <2>3, <2>4, <2>5 DEF CheckoutCompleted, TypeOK
<1>7. ASSUME NEW w \in Workers, CheckoutExpired(w) PROVE TypeOK'
  <2>1. /\ payment' \in [Bookings -> PaymentRow]
        /\ refundRow' \subseteq RefundRow
    BY <1>4, <1>7, MarkRowType DEF CheckoutExpired, Running, TransactionStatus
  <2>2. booking' \in [Bookings -> BookingStatus \cup {"none"}]
    BY <1>7 DEF CheckoutExpired, ExpiredStatus, BookingStatus, TypeOK
  <2> QED BY <1>5, <1>7, <2>1, <2>2 DEF CheckoutExpired, TypeOK
<1>8. ASSUME NEW w \in Workers, PaymentIntentSucceeded(w) PROVE TypeOK'
  <2> DEFINE b == worker[w].row.booking
  <2>1. b \in Bookings
    BY <1>4, <1>8 DEF PaymentIntentSucceeded, Running
  <2>3. payment' \in [Bookings -> PaymentRow]
    <3>1. payment' = [SetPayment(b, "SUCCESS") EXCEPT ![b].charged = TRUE]
      BY <1>8 DEF PaymentIntentSucceeded, SetPayment
    <3>2. SetPayment(b, "SUCCESS") \in [Bookings -> PaymentRow]
      BY <2>1, SetPaymentType DEF TypeOK, TransactionStatus
    <3>3. ASSUME NEW p \in [Bookings -> PaymentRow]
          PROVE  [p EXCEPT ![b].charged = TRUE] \in [Bookings -> PaymentRow]
      <4>1. [p[b] EXCEPT !.charged = TRUE] \in PaymentRow
        BY <2>1 DEF PaymentRow
      <4> QED BY <4>1
    <3> QED BY <3>1, <3>2, <3>3
  <2>4. booking' \in [Bookings -> BookingStatus \cup {"none"}]
    BY <1>8, <2>1 DEF PaymentIntentSucceeded, Confirm, BookingStatus, TypeOK
  <2> QED BY <1>5, <1>8, <2>3, <2>4 DEF PaymentIntentSucceeded, TypeOK
<1>9. ASSUME NEW w \in Workers, PaymentIntentNotPaid(w) PROVE TypeOK'
  <2>1. worker[w].row.booking \in Bookings
    BY <1>4, <1>9 DEF PaymentIntentNotPaid, Running
  <2>2. payment' \in [Bookings -> PaymentRow]
    BY <1>9, <2>1, SetPaymentType
    DEF PaymentIntentNotPaid, NotPaidStatus, TransactionStatus, TypeOK
  <2>3. booking' \in [Bookings -> BookingStatus \cup {"none"}]
    BY <1>9 DEF PaymentIntentNotPaid, BookingStatus, TypeOK
  <2> QED BY <1>5, <1>9, <2>2, <2>3 DEF PaymentIntentNotPaid, TypeOK
<1>10. ASSUME NEW w \in Workers, ChargeRefunded(w) PROVE TypeOK'
  <2> DEFINE row == worker[w].row
             total == worker[w].event.arg
             status == IF total = Price THEN "FULLY_REFUNDED"
                                        ELSE "PARTIALLY_REFUNDED"
             Listed(q) == q.booking = row.booking /\ q.id + q.amount <= total
  <2>1. row.booking \in Bookings
    BY <1>4, <1>10 DEF ChargeRefunded, Running
  <2>2. status \in TransactionStatus
    BY DEF TransactionStatus
  <2>3. payment' \in [Bookings -> PaymentRow]
    BY <1>10, <2>1, <2>2, SetPaymentType DEF ChargeRefunded, TypeOK
  <2>4. PICK listed \in BOOLEAN :
          refundRow' = {[q EXCEPT !.status =
                           IF RefundRefs({q}) = {row} THEN status
                           ELSE IF listed /\ Listed(q) THEN "SUCCESS"
                           ELSE @] : q \in refundRow}
    BY <1>10 DEF ChargeRefunded
  <2>5. ASSUME NEW q \in RefundRow, NEW s \in TransactionStatus
        PROVE  [q EXCEPT !.status = s] \in RefundRow
    BY DEF RefundRow
  <2>6. ASSUME NEW q \in refundRow
        PROVE  [q EXCEPT !.status = IF RefundRefs({q}) = {row} THEN status
                           ELSE IF listed /\ Listed(q) THEN "SUCCESS"
                           ELSE @] \in RefundRow
    <3> HIDE DEF status, Listed
    <3>1. q \in RefundRow /\ q.status \in TransactionStatus
      BY DEF TypeOK, RefundRow
    <3>2. "SUCCESS" \in TransactionStatus
      BY DEF TransactionStatus
    <3> QED BY <2>2, <2>5, <3>1, <3>2
  <2>7. refundRow' \subseteq RefundRow
    <3> HIDE DEF status, Listed, row
    <3> QED BY <2>4, <2>6
  <2> QED BY <1>5, <1>10, <2>3, <2>7 DEF ChargeRefunded, TypeOK
<1> QED
  BY <1>1, <1>2, <1>3, <1>6, <1>7, <1>8, <1>9, <1>10 DEF Webhook

\* What Stripe is asked for is a number once it is positive.
LEMMA DueIsAmount ==
    ASSUME TypeOK, NEW q \in Request, Due(q) > 0
    PROVE  /\ Due(q) \in Nat
           /\ refunded[q.booking] + Due(q) <= Price
           /\ q.amount # 0 => Due(q) <= q.amount
  BY BookingPaymentAssumption DEF Due, TypeOK, Request

\* A step of a request that cancels or refunds keeps the types.
LEMMA RefundingType ==
    ASSUME TypeOK, Refunding
    PROVE  TypeOK'
<1> USE DEF rowVars, stripeVars
<1>0. ASSUME NEW r \in Requests, request[r] # IdleRequest
      PROVE  request[r] \in Request
  BY <1>0 DEF TypeOK
<1>1. ASSUME NEW r \in Requests, NEW b \in Bookings, CancelLoad(r, b)
      PROVE  TypeOK'
  <2>1. RefundAmount \in Nat
    BY BookingPaymentAssumption DEF RefundAmount, CancellationFee
  <2>2. [pc |-> "lookup", kind |-> "cancel", booking |-> b,
         amount |-> RefundAmount, prior |-> 0, id |-> 0] \in Request
    BY <2>1 DEF Request
  <2> QED BY <1>1, <2>2 DEF CancelLoad, GoTo, TypeOK
<1>2. ASSUME NEW r \in Requests, NEW b \in Bookings, NEW n \in AdminAmounts,
             AdminRefund(r, b, n)
      PROVE  TypeOK'
  <2>1. [pc |-> "refund", kind |-> "admin", booking |-> b,
         amount |-> n, prior |-> 0, id |-> 0] \in Request
    BY BookingPaymentAssumption DEF Request
  <2> QED BY <1>2, <2>1 DEF AdminRefund, GoTo, TypeOK
<1>3. ASSUME NEW r \in Requests, CancelLookup(r) PROVE TypeOK'
  <2>1. request[r] \in Request
    BY <1>0, <1>3 DEF CancelLookup, At
  <2>2. [request[r] EXCEPT !.pc = "refund"] \in Request
    BY <2>1 DEF Request
  <2>3. \A x \in RefundsMade(request[r].booking) :
          [request[r] EXCEPT !.pc = "cancel", !.prior = x.amount] \in Request
    BY <2>1 DEF Request, RefundsMade, TypeOK, RefundRow
  <2> QED BY <1>3, <2>2, <2>3 DEF CancelLookup, GoTo, TypeOK
<1>4. ASSUME NEW r \in Requests, ReadRefundable(r) PROVE TypeOK'
  <2>1. request[r] \in Request
    BY <1>0, <1>4 DEF ReadRefundable, At
  <2>2. Due(request[r]) \in Nat
    BY <1>4, <2>1, DueIsAmount DEF ReadRefundable
  <2>3. [request[r] EXCEPT !.pc = "create", !.amount = Due(request[r])] \in Request
    BY <2>1, <2>2 DEF Request
  <2> QED BY <1>4, <2>3 DEF ReadRefundable, GoTo, TypeOK
<1>5. ASSUME NEW r \in Requests, CreateRefund(r) PROVE TypeOK'
  <2> DEFINE q == request[r]
             total == refunded[q.booking] + q.amount
  <2>1. q \in Request
    BY <1>0, <1>5 DEF CreateRefund, At
  <2>2. q.booking \in Bookings /\ total \in Nat /\ refunded[q.booking] \in Nat
    BY <2>1 DEF Request, TypeOK
  <2>3. Send("refunded", q.booking, total) \in Event
    BY <2>2, SendIsEvent DEF EventKind
  <2>4. [q EXCEPT !.pc = "record", !.id = refunded[q.booking]] \in Request
    BY <2>1, <2>2 DEF Request
  <2> HIDE DEF total
  <2>5. refunded' \in [Bookings -> Nat]
    BY <1>5, <2>2 DEF CreateRefund, TypeOK, total
  <2>6. request' \in [Requests -> Request \cup {IdleRequest}]
    BY <1>5, <2>4 DEF CreateRefund, GoTo, TypeOK
  <2>7. events' \subseteq Event
    BY <1>5, <2>3 DEF CreateRefund, TypeOK, total
  <2> QED BY <1>5, <2>5, <2>6, <2>7 DEF CreateRefund, TypeOK
<1>6. ASSUME NEW r \in Requests, RecordRefund(r) PROVE TypeOK'
  <2>1. request[r] \in Request
    BY <1>0, <1>6 DEF RecordRefund, At
  <2>2. [booking |-> request[r].booking, id |-> request[r].id,
         amount |-> request[r].amount, status |-> "SUCCESS"] \in RefundRow
    BY <2>1 DEF Request, RefundRow, TransactionStatus
  <2>3. [request[r] EXCEPT !.pc = "cancel"] \in Request
    BY <2>1 DEF Request
  <2> QED BY <1>6, <2>2, <2>3 DEF RecordRefund, GoTo, TypeOK
<1>7. ASSUME NEW r \in Requests, CancelBooking(r) PROVE TypeOK'
  <2>1. request[r] \in Request /\ request[r].booking \in Bookings
    BY <1>0, <1>7 DEF CancelBooking, At, Request
  <2>2. CancelStatus(request[r]) \in TransactionStatus
    BY DEF CancelStatus, TransactionStatus
  <2>3. payment' \in [Bookings -> PaymentRow]
    BY <1>7, <2>1, <2>2, SetPaymentType DEF CancelBooking, TypeOK
  <2>4. booking' \in [Bookings -> BookingStatus \cup {"none"}]
    BY <1>7, <2>1 DEF CancelBooking, BookingStatus, TypeOK
  <2> QED BY <1>7, <2>3, <2>4 DEF CancelBooking, GoTo, TypeOK
<1>8. ASSUME NEW r \in Requests, RequestFails(r) PROVE TypeOK'
  BY <1>8 DEF RequestFails, GoTo, TypeOK
<1> QED
  BY <1>1, <1>2, <1>3, <1>4, <1>5, <1>6, <1>7, <1>8 DEF Refunding

\* No step of the bookings, of Stripe or of the jobs leaves the types.
LEMMA TypeStep == TypeOK /\ [Next]_vars => TypeOK'
<1> SUFFICES ASSUME TypeOK, [Next]_vars PROVE TypeOK'
  OBVIOUS
<1>1. CASE UNCHANGED vars
  BY <1>1 DEF vars, TypeOK
<1>2. CASE Next
  BY <1>2, EnvironmentType, WebhookType, RefundingType DEF Next
<1> QED BY <1>1, <1>2

\* The initial state is well typed.
LEMMA TypeInit == Init => TypeOK
  BY DEF Init, TypeOK, PaymentRow, TransactionStatus, BookingStatus

\* Every variable keeps its type (the rows of BookingPayment are well formed).
THEOREM TypeCorrect == Spec => []TypeOK
  BY TypeInit, TypeStep, PTL DEF Spec

-----------------------------------------------------------------------------
(***************************************************************************)
(* Why bookings settle correctly.  No handler checks the whole story of a  *)
(* booking; what keeps it straight is that nothing false is ever in        *)
(* flight: every event waiting, every row a job found and every request    *)
(* under way vouch for facts about the payment that, once true, stay true. *)
(***************************************************************************)


\* What an event says of its session or of its charge is so.
EventTrue(e) ==
    /\ e.kind \in {"completed", "succeeded"} => session[e.booking] = "complete"
    /\ e.kind = "expired" => session[e.booking] = "expired"
    /\ e.kind = "refunded" => e.arg <= refunded[e.booking]

\* A job works for a true event, on a row of that event's booking unless an
\* expiry led it to a refund row, and a job that looked its row up by the
\* PaymentIntent found one that has it.
JobTrue(w) ==
    worker[w] # IdleWorker =>
        LET e == worker[w].event
            row == worker[w].row
        IN /\ EventTrue(e)
           /\ row.type = "payment" => row.booking = e.booking
           /\ e.kind \notin {"expired", "refunded"} => row.type = "payment"
           /\ worker[w].pending => row.type = "payment"
           /\ e.kind \in {"succeeded", "failed", "canceled"} =>
                 payment[row.booking].intent = "pi"

\* A row that has its PaymentIntent was paid and its ticket marked; one that is
\* SUCCESS was paid.
RowTrue(b) ==
    /\ payment[b].intent = "pi" =>
          session[b] = "complete" /\ isBooked[Seat[b]]
    /\ payment[b].status = "SUCCESS" => session[b] = "complete"

\* A request cancels or refunds a booking that was paid.
RequestTrue(r) ==
    request[r] # IdleRequest => session[request[r].booking] = "complete"

Evidence ==
    /\ \A e \in events : EventTrue(e)
    /\ \A w \in Workers : JobTrue(w)
    /\ \A b \in Bookings : RowTrue(b)
    /\ \A r \in Requests : RequestTrue(r)

-----------------------------------------------------------------------------
(* Facts that stay true                                                    *)

Lasting ==
    /\ \A b \in Bookings :
          /\ session[b] = "complete" => session'[b] = "complete"
          /\ session[b] = "expired" => session'[b] = "expired"
          /\ refunded[b] <= refunded'[b]
          /\ payment[b].intent = "pi" => payment'[b].intent = "pi"
    /\ \A s \in Seats : isBooked[s] => isBooked'[s]

\* What a payment row is after its status was set.
LEMMA SetPaymentKeepsIntent ==
    ASSUME TypeOK, NEW b \in Bookings, NEW s
    PROVE  /\ \A c \in Bookings :
                 /\ SetPayment(b, s)[c].intent = payment[c].intent
                 /\ c # b => SetPayment(b, s)[c] = payment[c]
           /\ SetPayment(b, s)[b].status = s
<1>1. payment[b] \in PaymentRow
  BY DEF TypeOK
<1> QED BY <1>1 DEF SetPayment, TypeOK, PaymentRow

\* The row and the booking of a running job.
LEMMA JobRow ==
    ASSUME TypeOK, NEW w \in Workers, worker[w] # IdleWorker
    PROVE  /\ worker[w].row \in RowRef
           /\ worker[w].row.booking \in Bookings
           /\ worker[w].event \in Event
           /\ worker[w].event.booking \in Bookings
           /\ worker[w].event.arg \in Nat
           /\ worker[w].event.kind \in EventKind
  BY DEF TypeOK, Job, RowRef, Event

\* Sessions do not reopen, refunds are not taken back, a row keeps its
\* PaymentIntent and a ticket stays marked.
LEMMA FactsLast ==
    ASSUME TypeOK, [Next]_vars
    PROVE  Lasting
<1> USE DEF rowVars, stripeVars
<1>1. CASE UNCHANGED <<session, refunded, payment, isBooked>>
  BY <1>1 DEF Lasting, TypeOK
<1>2. CASE Guest
  BY <1>2 DEF Guest, OpenSession, CreateBooking, Lasting, TypeOK
<1>3. CASE Stripe
  BY <1>3 DEF Stripe, PaymentDeclined, PaymentCaptured, SessionExpires, Lasting,
              TypeOK
<1>4. CASE Seller
  BY <1>4 DEF Seller, SellerSetsStatus, Lasting, TypeOK
<1>5. CASE Webhook
  <2>1. UNCHANGED stripeVars
    BY <1>5 DEF Webhook, SkipJob, StartJob, CheckoutCompleted, CheckoutExpired,
                PaymentIntentSucceeded, PaymentIntentNotPaid, ChargeRefunded,
                JobFails
  <2>2. ASSUME NEW w \in Workers, worker[w] # IdleWorker
        PROVE  worker[w].row.booking \in Bookings
    BY <2>2, JobRow
  <2> DEFINE KeepsIntent == \A b \in Bookings :
          payment[b].intent = "pi" => payment'[b].intent = "pi"
  <2>3. KeepsIntent
    <3>1. CASE UNCHANGED payment
      BY <3>1
    <3>2. ASSUME NEW w \in Workers, CheckoutCompleted(w) PROVE KeepsIntent
      BY <2>2, <3>2 DEF CheckoutCompleted, Running, TypeOK, PaymentRow
    <3>3. ASSUME NEW w \in Workers, CheckoutExpired(w) PROVE KeepsIntent
      BY <2>2, <3>3, SetPaymentKeepsIntent DEF CheckoutExpired, Running, MarkRow
    <3>4. ASSUME NEW w \in Workers, PaymentIntentSucceeded(w) PROVE KeepsIntent
      BY <2>2, <3>4 DEF PaymentIntentSucceeded, Running, TypeOK, PaymentRow
    <3>5. ASSUME NEW w \in Workers, PaymentIntentNotPaid(w) PROVE KeepsIntent
      BY <2>2, <3>5, SetPaymentKeepsIntent DEF PaymentIntentNotPaid, Running
    <3>6. ASSUME NEW w \in Workers, ChargeRefunded(w) PROVE KeepsIntent
      BY <2>2, <3>6, SetPaymentKeepsIntent DEF ChargeRefunded, Running
    <3> QED
      BY <1>5, <3>1, <3>2, <3>3, <3>4, <3>5, <3>6
      DEF Webhook, SkipJob, StartJob, JobFails
  <2>4. \A s \in Seats : isBooked[s] => isBooked'[s]
    BY <1>5 DEF Webhook, SkipJob, StartJob, CheckoutCompleted, CheckoutExpired,
                PaymentIntentSucceeded, PaymentIntentNotPaid, ChargeRefunded,
                JobFails, TypeOK
  <2> QED BY <2>1, <2>3, <2>4 DEF Lasting, TypeOK
<1>6. CASE Refunding
  <2>1. CASE UNCHANGED <<stripeVars, payment, isBooked>>
    BY <1>1, <2>1
  <2>2. ASSUME NEW r \in Requests, CreateRefund(r) PROVE Lasting
    <3>1. request[r].amount \in Nat /\ request[r].booking \in Bookings
      BY <2>2 DEF CreateRefund, At, TypeOK, Request
    <3> QED BY <2>2, <3>1 DEF CreateRefund, Lasting, TypeOK
  <2>3. ASSUME NEW r \in Requests, CancelBooking(r) PROVE Lasting
    <3>1. request[r].booking \in Bookings
      BY <2>3 DEF CancelBooking, At, TypeOK, Request
    <3> QED
      BY <2>3, <3>1, SetPaymentKeepsIntent DEF CancelBooking, Lasting, TypeOK
  <2> QED
    BY <1>6, <2>1, <2>2, <2>3
    DEF Refunding, CancelLoad, AdminRefund, CancelLookup, ReadRefundable,
        RecordRefund, RequestFails
<1> QED BY <1>1, <1>2, <1>3, <1>4, <1>5, <1>6 DEF Next, vars

-----------------------------------------------------------------------------
(* Evidence is inductive                                                   *)

\* A true event stays true.
LEMMA TruthLasts ==
    ASSUME TypeOK, TypeOK', Lasting, NEW e \in Event, EventTrue(e)
    PROVE  EventTrue(e)'
<1>1. e.booking \in Bookings /\ e.arg \in Nat
  BY DEF Event
<1>2. refunded[e.booking] \in Nat /\ refunded'[e.booking] \in Nat
  BY <1>1 DEF TypeOK
<1> QED BY <1>1, <1>2 DEF EventTrue, Lasting

\* The events sent in a step are true when it ends.
LEMMA NewEventsTrue ==
    ASSUME TypeOK, TypeOK', Evidence, [Next]_vars
    PROVE  \A e \in events' : EventTrue(e)'
<1> USE DEF rowVars, stripeVars
<1>1. SUFFICES ASSUME NEW e \in events', e \notin events PROVE EventTrue(e)'
  BY FactsLast, TruthLasts DEF Evidence, TypeOK
<1>2. ASSUME NEW b \in Bookings, PaymentDeclined(b) PROVE EventTrue(e)'
  BY <1>1, <1>2 DEF PaymentDeclined, Send, EventTrue
<1>3. ASSUME NEW b \in Bookings, PaymentCaptured(b) PROVE EventTrue(e)'
  BY <1>1, <1>3 DEF PaymentCaptured, Send, EventTrue, TypeOK
<1>4. ASSUME NEW b \in Bookings, SessionExpires(b) PROVE EventTrue(e)'
  BY <1>1, <1>4 DEF SessionExpires, Send, EventTrue, TypeOK
<1>5. ASSUME NEW r \in Requests, CreateRefund(r) PROVE EventTrue(e)'
  <2> DEFINE b == request[r].booking
             total == refunded[b] + request[r].amount
  <2>1. b \in Bookings
    BY <1>5 DEF CreateRefund, At, TypeOK, Request
  <2>2. e = Send("refunded", b, total)
    BY <1>1, <1>5 DEF CreateRefund
  <2>3. refunded'[b] = total /\ total \in Nat
    BY <1>5, <2>1 DEF CreateRefund, At, TypeOK, Request
  <2> HIDE DEF total, b
  <2> QED BY <2>2, <2>3 DEF Send, EventTrue
<1>6. CASE events' \subseteq events
  BY <1>1, <1>6
<1>7. CASE Webhook
  BY <1>6, <1>7 DEF Webhook, SkipJob, StartJob, CheckoutCompleted,
     CheckoutExpired, PaymentIntentSucceeded, PaymentIntentNotPaid,
     ChargeRefunded, JobFails, Finish
<1>8. CASE Guest \/ Seller \/ UNCHANGED vars
  BY <1>6, <1>8 DEF Guest, OpenSession, CreateBooking, Seller,
     SellerSetsStatus, vars
<1>9. CASE Refunding
  BY <1>5, <1>6, <1>9 DEF Refunding, CancelLoad, AdminRefund, CancelLookup,
     ReadRefundable, RecordRefund, CancelBooking, RequestFails
<1> QED BY <1>2, <1>3, <1>4, <1>7, <1>8, <1>9 DEF Next, Stripe

\* The row a job finds belongs to its event.
LEMMA MatchesBelong ==
    ASSUME TypeOK, NEW e \in Event, NEW row \in Matches(e)
    PROVE  /\ row.type = "payment" => row.booking = e.booking
           /\ e.kind \notin {"expired", "refunded"} => row.type = "payment"
           /\ e.kind \in {"succeeded", "failed", "canceled"} =>
                 payment[row.booking].intent = "pi"
<1>1. \A b \in Bookings : \A x \in BySession(b) : x = PaymentRef(b)
  BY DEF BySession
<1>2. \A b \in Bookings : \A x \in ByIntent(b) :
        x = PaymentRef(b) /\ payment[b].intent = "pi"
  BY DEF ByIntent
<1>3. \A rows, x : x \in RefundRefs(rows) => x.type = "refund"
  BY DEF RefundRefs
<1>4. e.booking \in Bookings /\ e.kind \in EventKind
  BY DEF Event
<1>5. CASE e.kind = "completed"
  BY <1>1, <1>4, <1>5 DEF Matches, PaymentRef
<1>6. CASE e.kind = "expired"
  BY <1>1, <1>3, <1>4, <1>6 DEF Matches, PaymentRef, ExpiredRows
<1>7. CASE e.kind = "refunded"
  BY <1>3, <1>4, <1>7 DEF Matches, PaymentRef, ByCharge
<1>8. CASE e.kind \in {"succeeded", "failed", "canceled"}
  BY <1>2, <1>4, <1>8 DEF Matches, PaymentRef
<1> QED BY <1>4, <1>5, <1>6, <1>7, <1>8 DEF EventKind

\* The jobs under way stay true, and one that starts is.
LEMMA JobsStayTrue ==
    ASSUME TypeOK, TypeOK', Evidence, [Next]_vars
    PROVE  \A w \in Workers : JobTrue(w)'
<1> USE DEF rowVars, stripeVars
<1>1. SUFFICES ASSUME NEW w \in Workers, worker'[w] # IdleWorker
               PROVE  JobTrue(w)'
  BY DEF JobTrue, IdleWorker
<1>2. Lasting
  BY FactsLast
<1>3. CASE worker'[w] = worker[w]
  <2>1. JobTrue(w) /\ worker[w] # IdleWorker
    BY <1>1, <1>3 DEF Evidence, IdleWorker
  <2>2. PICK e \in Event, row \in RowRef : worker[w].event = e /\ worker[w].row = row
    BY <2>1, JobRow
  <2>3. EventTrue(e) /\ EventTrue(e)'
    BY <1>2, <2>1, <2>2, TruthLasts DEF JobTrue
  <2>4. payment[row.booking].intent = "pi" => payment'[row.booking].intent = "pi"
    BY <1>2 DEF Lasting, RowRef
  <2>5. /\ worker'[w].event = e /\ worker'[w].row = row
        /\ worker'[w].pending = worker[w].pending
    BY <1>3, <2>2
  <2> QED BY <2>1, <2>2, <2>3, <2>4, <2>5 DEF JobTrue
<1>4. CASE worker'[w] # worker[w]
  <2>1. PICK e \in events : StartJob(w, e)
    BY <1>1, <1>4 DEF Next, Guest, OpenSession, CreateBooking, Stripe,
       PaymentDeclined, PaymentCaptured, SessionExpires, Webhook, SkipJob,
       StartJob, CheckoutCompleted, CheckoutExpired, PaymentIntentSucceeded,
       PaymentIntentNotPaid, ChargeRefunded, JobFails, Finish, Refunding,
       CancelLoad, AdminRefund, CancelLookup, ReadRefundable, CreateRefund,
       RecordRefund, CancelBooking, RequestFails, Seller, SellerSetsStatus,
       vars, TypeOK, IdleWorker
  <2>2. PICK row \in Matches(e) : worker'[w] =
           [pc |-> "run", event |-> e, row |-> row,
            pending |-> row.type = "payment" /\ booking[row.booking] = "PENDING"]
    BY <2>1 DEF StartJob, TypeOK
  <2>3. e \in Event /\ EventTrue(e) /\ UNCHANGED <<session, refunded, payment>>
    BY <2>1 DEF Evidence, StartJob, TypeOK
  <2>4. /\ row.type = "payment" => row.booking = e.booking
        /\ e.kind \notin {"expired", "refunded"} => row.type = "payment"
        /\ e.kind \in {"succeeded", "failed", "canceled"} =>
              payment'[row.booking].intent = "pi"
    BY <2>3, MatchesBelong
  <2> DEFINE p == row.type = "payment" /\ booking[row.booking] = "PENDING"
  <2>5. p => row.type = "payment"
    OBVIOUS
  <2> HIDE DEF p
  <2>6. /\ worker'[w].event = e /\ worker'[w].row = row
        /\ worker'[w].pending = p
    <3>1. worker'[w] = [pc |-> "run", event |-> e, row |-> row, pending |-> p]
      BY <2>2 DEF p
    <3> QED BY <3>1
  <2> QED BY <2>3, <2>4, <2>5, <2>6 DEF JobTrue, EventTrue
<1> QED BY <1>3, <1>4

\* A job that says the guest paid is right.
LEMMA PaidJob ==
    ASSUME TypeOK, Evidence, NEW w \in Workers,
           Running(w, {"completed", "succeeded"})
    PROVE  session[worker[w].row.booking] = "complete"
  BY DEF Evidence, JobTrue, EventTrue, Running

\* Each row still tells the truth after a step.
LEMMA RowsStayTrue ==
    ASSUME TypeOK, TypeOK', Evidence, [Next]_vars
    PROVE  \A b \in Bookings : RowTrue(b)'
<1> USE DEF rowVars, stripeVars
<1>1. SUFFICES ASSUME NEW b \in Bookings PROVE RowTrue(b)'
  OBVIOUS
<1>2. Lasting /\ RowTrue(b) /\ Seat[b] \in Seats
  BY FactsLast, BookingPaymentAssumption DEF Evidence
<1>3. CASE payment'[b] = payment[b]
  BY <1>2, <1>3 DEF Lasting, RowTrue
<1>4. ASSUME NEW w \in Workers, CheckoutCompleted(w), worker[w].row.booking = b
      PROVE  RowTrue(b)'
  <2>1. session[b] = "complete"
    BY <1>4, PaidJob DEF CheckoutCompleted, Running
  <2>2. isBooked'[Seat[b]]
    BY <1>2, <1>4 DEF CheckoutCompleted, TypeOK
  <2> QED BY <1>2, <2>1, <2>2 DEF Lasting, RowTrue
<1>5. ASSUME NEW w \in Workers, PaymentIntentSucceeded(w),
             worker[w].row.booking = b
      PROVE  RowTrue(b)'
  <2>1. session[b] = "complete"
    BY <1>5, PaidJob DEF PaymentIntentSucceeded, Running
  <2>2. payment'[b].intent = payment[b].intent
    BY <1>5 DEF PaymentIntentSucceeded, TypeOK, PaymentRow
  <2> QED BY <1>2, <2>1, <2>2 DEF Lasting, RowTrue
<1>6. ASSUME NEW c \in Bookings, NEW s, s # "SUCCESS" \/ session[c] = "complete",
             payment' = SetPayment(c, s)
      PROVE  RowTrue(b)'
  <2>1. payment'[b].intent = payment[b].intent
    BY <1>6, SetPaymentKeepsIntent
  <2>2. payment'[b].status = "SUCCESS" =>
          payment[b].status = "SUCCESS" \/ session[b] = "complete"
    BY <1>6, SetPaymentKeepsIntent
  <2> QED BY <1>2, <2>1, <2>2 DEF Lasting, RowTrue
<1>7. ASSUME NEW w \in Workers,
             \/ CheckoutExpired(w) \/ PaymentIntentNotPaid(w)
             \/ ChargeRefunded(w)
      PROVE  RowTrue(b)'
  <2>1. worker[w].row.booking \in Bookings
    BY <1>7, JobRow DEF CheckoutExpired, PaymentIntentNotPaid, ChargeRefunded,
                        Running
  <2>2. \/ UNCHANGED payment
        \/ \E s \in {"FAILED", "CANCELLED", "FULLY_REFUNDED",
                     "PARTIALLY_REFUNDED"} :
              payment' = SetPayment(worker[w].row.booking, s)
    BY <1>7 DEF CheckoutExpired, MarkRow, PaymentIntentNotPaid, NotPaidStatus,
                ChargeRefunded
  <2> QED BY <1>3, <1>6, <2>1, <2>2
<1>8. ASSUME NEW r \in Requests, CancelBooking(r) PROVE RowTrue(b)'
  <2>1. /\ request[r].booking \in Bookings
        /\ session[request[r].booking] = "complete"
    BY <1>8 DEF CancelBooking, At, Evidence, RequestTrue, TypeOK, Request
  <2> QED BY <1>6, <1>8, <2>1 DEF CancelBooking
<1>9. CASE Webhook
  <2>1. ASSUME NEW w \in Workers,
               CheckoutCompleted(w) \/ PaymentIntentSucceeded(w),
               worker[w].row.booking # b
        PROVE  payment'[b] = payment[b]
    BY <2>1 DEF CheckoutCompleted, PaymentIntentSucceeded, TypeOK
  <2> QED BY <1>3, <1>4, <1>5, <1>7, <1>9, <2>1
          DEF Webhook, SkipJob, StartJob, JobFails
<1>10. CASE Refunding
  BY <1>3, <1>8, <1>10 DEF Refunding, CancelLoad, AdminRefund, CancelLookup,
     ReadRefundable, CreateRefund, RecordRefund, RequestFails
<1>11. CASE Guest \/ Stripe \/ Seller \/ UNCHANGED vars
  BY <1>3, <1>11 DEF Guest, OpenSession, CreateBooking, Stripe, PaymentDeclined,
     PaymentCaptured, SessionExpires, Seller, SellerSetsStatus, vars
<1> QED BY <1>9, <1>10, <1>11 DEF Next

\* Each request is still about a booking that was paid.
LEMMA RequestsStayTrue ==
    ASSUME TypeOK, TypeOK', Evidence, [Next]_vars
    PROVE  \A r \in Requests : RequestTrue(r)'
<1> USE DEF rowVars, stripeVars
<1>1. SUFFICES ASSUME NEW r \in Requests, request'[r] # IdleRequest
               PROVE  session'[request'[r].booking] = "complete"
  BY DEF RequestTrue, IdleRequest
<1> DEFINE Known == /\ request'[r].booking \in Bookings
                    /\ session[request'[r].booking] = "complete"
<1>2. SUFFICES Known
  BY FactsLast DEF Lasting
<1>3. CASE /\ request[r] # IdleRequest
           /\ request'[r].booking = request[r].booking
  BY <1>3 DEF Evidence, RequestTrue, TypeOK, Request
<1>4. CASE UNCHANGED request
  BY <1>1, <1>3, <1>4
<1>5. ASSUME NEW q \in Requests, NEW b \in Bookings,
             \/ CancelLoad(q, b)
             \/ \E n \in AdminAmounts : AdminRefund(q, b, n)
      PROVE  Known
  <2>1. session[b] = "complete"
    BY <1>5 DEF CancelLoad, AdminRefund, Evidence, RowTrue
  <2>2. CASE q = r
    BY <1>5, <2>1, <2>2 DEF CancelLoad, AdminRefund, GoTo, TypeOK
  <2>3. CASE q # r
    BY <1>1, <1>3, <1>5, <2>3 DEF CancelLoad, AdminRefund, GoTo, TypeOK
  <2> QED BY <2>2, <2>3
<1>6. ASSUME NEW q \in Requests,
             \/ CancelLookup(q) \/ ReadRefundable(q) \/ CreateRefund(q)
             \/ RecordRefund(q) \/ CancelBooking(q) \/ RequestFails(q)
      PROVE  Known
  <2>1. \E x : request' = [request EXCEPT ![q] = x]
    BY <1>6 DEF CancelLookup, ReadRefundable, CreateRefund, RecordRefund,
       CancelBooking, RequestFails, GoTo
  <2>2. CASE r # q
    BY <1>1, <1>3, <2>1, <2>2 DEF TypeOK
  <2>3. CASE r = q
    <3>1. request[r] # IdleRequest
      BY <1>6, <2>3 DEF CancelLookup, ReadRefundable, CreateRefund,
         RecordRefund, CancelBooking, RequestFails, At
    <3>2. request[r] \in Request
      BY <3>1 DEF TypeOK
    <3>3. CASE CancelLookup(r)
      <4>1. ASSUME GoTo(r, [request[r] EXCEPT !.pc = "refund"]) PROVE Known
        BY <1>3, <3>1, <3>2, <4>1 DEF GoTo, TypeOK, Request
      <4>2. ASSUME NEW x \in RefundsMade(request[r].booking),
                   GoTo(r, [request[r] EXCEPT !.pc = "cancel",
                                              !.prior = x.amount])
            PROVE  Known
        <5>1. request'[r] = [request[r] EXCEPT !.pc = "cancel", !.prior = x.amount]
          BY <4>2 DEF GoTo, TypeOK
        <5> QED BY <1>3, <3>1, <3>2, <5>1 DEF Request
      <4> QED BY <3>3, <4>1, <4>2 DEF CancelLookup
    <3>4. CASE ReadRefundable(r)
      <4>1. request'[r] = [request[r] EXCEPT !.pc = "create",
                                             !.amount = Due(request[r])]
        BY <3>4 DEF ReadRefundable, GoTo, TypeOK
      <4> QED BY <1>3, <3>1, <3>2, <4>1 DEF Request
    <3>5. CASE CreateRefund(r)
      <4>1. request'[r] = [request[r] EXCEPT
               !.pc = "record", !.id = refunded[request[r].booking]]
        BY <3>5 DEF CreateRefund, GoTo, TypeOK
      <4> QED BY <1>3, <3>1, <3>2, <4>1 DEF Request
    <3>6. CASE RecordRefund(r)
      <4>1. request'[r] = [request[r] EXCEPT !.pc = "cancel"]
        BY <1>1, <3>6 DEF RecordRefund, GoTo, TypeOK
      <4> QED BY <1>3, <3>1, <3>2, <4>1 DEF Request
    <3>7. CASE CancelBooking(r) \/ RequestFails(r)
      BY <1>1, <3>7 DEF CancelBooking, RequestFails, GoTo, TypeOK
    <3> QED BY <1>6, <2>3, <3>3, <3>4, <3>5, <3>6, <3>7
  <2> QED BY <2>2, <2>3
<1> QED
  BY <1>4, <1>5, <1>6
  DEF Next, Guest, OpenSession, CreateBooking, Stripe, PaymentDeclined,
      PaymentCaptured, SessionExpires, Webhook, SkipJob, StartJob,
      CheckoutCompleted, CheckoutExpired, PaymentIntentSucceeded,
      PaymentIntentNotPaid, ChargeRefunded, JobFails, Finish, Refunding, Seller,
      SellerSetsStatus, vars

\* Nothing false is ever in flight.
THEOREM EvidenceHolds == Spec => []Evidence
<1>1. Init => Evidence
  BY DEF Init, Evidence, JobTrue, RowTrue, RequestTrue, IdleWorker, IdleRequest
<1>2. TypeOK /\ TypeOK' /\ Evidence /\ [Next]_vars => Evidence'
  BY NewEventsTrue, JobsStayTrue, RowsStayTrue, RequestsStayTrue DEF Evidence
<1> QED BY <1>1, <1>2, TypeCorrect, PTL DEF Spec

-----------------------------------------------------------------------------
(* What follows for the bookings                                           *)

\* How a step can change a booking: only an event that says so confirms or
\* expires it, and only a request cancels it once its session is over.
LEMMA BookingChanges ==
    ASSUME TypeOK, Evidence, [Next]_vars, NEW b \in Bookings,
           booking'[b] # booking[b]
    PROVE  \/ booking'[b] = "PENDING" /\ session[b] = "open"
           \/ /\ booking'[b] = "CONFIRMED" /\ session[b] = "complete"
              /\ isBooked'[Seat[b]]
           \/ /\ booking'[b] = "EXPIRED" /\ session[b] = "expired"
              /\ payment'[b].status # "SUCCESS"
           \/ booking'[b] = "CANCELLED" /\ session[b] = "complete"
           \/ booking'[b] \in SellerStatuses
<1> USE DEF rowVars, stripeVars
<1> DEFINE Explained ==
      \/ booking'[b] = "PENDING" /\ session[b] = "open"
      \/ /\ booking'[b] = "CONFIRMED" /\ session[b] = "complete"
         /\ isBooked'[Seat[b]]
      \/ /\ booking'[b] = "EXPIRED" /\ session[b] = "expired"
         /\ payment'[b].status # "SUCCESS"
      \/ booking'[b] = "CANCELLED" /\ session[b] = "complete"
      \/ booking'[b] \in SellerStatuses
<1>1. ASSUME NEW c \in Bookings, CreateBooking(c) PROVE Explained
  BY <1>1 DEF CreateBooking, TypeOK
<1>2. ASSUME NEW w \in Workers, CheckoutCompleted(w) PROVE Explained
  <2>1. worker[w].row.booking = b /\ booking'[b] = "CONFIRMED"
    BY <1>2 DEF CheckoutCompleted, Confirm, TypeOK
  <2>2. session[b] = "complete"
    BY <1>2, <2>1, PaidJob DEF CheckoutCompleted, Running
  <2>3. isBooked'[Seat[b]]
    BY <1>2, <2>1, BookingPaymentAssumption DEF CheckoutCompleted, TypeOK
  <2> QED BY <2>1, <2>2, <2>3
<1>3. ASSUME NEW w \in Workers, PaymentIntentSucceeded(w) PROVE Explained
  <2>1. worker[w].row.booking = b /\ booking'[b] = "CONFIRMED"
    BY <1>3 DEF PaymentIntentSucceeded, Confirm, TypeOK
  <2>2. session[b] = "complete" /\ isBooked[Seat[b]]
    BY <1>3, <2>1 DEF PaymentIntentSucceeded, Running, Evidence, JobTrue, RowTrue
  <2> QED BY <1>3, <2>1, <2>2 DEF PaymentIntentSucceeded
<1>4. ASSUME NEW w \in Workers, CheckoutExpired(w) PROVE Explained
  <2>1. /\ worker[w].row.booking = b /\ booking'[b] = "EXPIRED"
        /\ worker[w].pending
    BY <1>4 DEF CheckoutExpired, ExpiredStatus, TypeOK
  <2>2. worker[w].row.type = "payment" /\ session[b] = "expired"
    BY <1>4, <2>1 DEF CheckoutExpired, Running, Evidence, JobTrue, EventTrue
  <2>3. payment' = SetPayment(b, "FAILED")
    BY <1>4, <2>1, <2>2 DEF CheckoutExpired, MarkRow
  <2> QED BY <2>1, <2>2, <2>3, SetPaymentKeepsIntent
<1>5. ASSUME NEW w \in Workers, PaymentIntentNotPaid(w) PROVE Explained
  <2>1. worker[w].row.booking = b /\ booking'[b] = "CANCELLED"
    BY <1>5 DEF PaymentIntentNotPaid, TypeOK
  <2>2. session[b] = "complete"
    BY <1>5, <2>1 DEF PaymentIntentNotPaid, Running, Evidence, JobTrue, RowTrue
  <2> QED BY <2>1, <2>2
<1>6. ASSUME NEW r \in Requests, CancelBooking(r) PROVE Explained
  <2>1. request[r].booking = b /\ booking'[b] = "CANCELLED"
    BY <1>6 DEF CancelBooking, TypeOK
  <2> QED BY <1>6, <2>1 DEF CancelBooking, At, Evidence, RequestTrue
<1>7. CASE Seller
  BY <1>7 DEF Seller, SellerSetsStatus, TypeOK
<1> QED
  BY <1>1, <1>2, <1>3, <1>4, <1>5, <1>6, <1>7
  DEF Next, Guest, OpenSession, Stripe, PaymentDeclined, PaymentCaptured,
      SessionExpires, Webhook, SkipJob, StartJob, ChargeRefunded, JobFails,
      Refunding, CancelLoad, AdminRefund, CancelLookup, ReadRefundable,
      CreateRefund, RecordRefund, RequestFails, vars

\* A step that writes a booking leaves the sessions at Stripe alone.
LEMMA ChangeLeavesSession ==
    ASSUME [Next]_vars, NEW b \in Bookings, booking'[b] # booking[b]
    PROVE  session' = session
  BY DEF Next, Guest, OpenSession, CreateBooking, Stripe, PaymentDeclined,
     PaymentCaptured, SessionExpires, Webhook, SkipJob, StartJob,
     CheckoutCompleted, CheckoutExpired, PaymentIntentSucceeded,
     PaymentIntentNotPaid, ChargeRefunded, JobFails, Refunding, CancelLoad,
     AdminRefund, CancelLookup, ReadRefundable, CreateRefund, RecordRefund,
     CancelBooking, RequestFails, Seller, SellerSetsStatus, vars, rowVars,
     stripeVars

\* A confirmed booking was paid and its ticket is marked, though
\* payment_intent.succeeded confirms without looking at the ticket: it can only
\* find a row that checkout.session.completed gave its PaymentIntent.
THEOREM ConfirmedSeat ==
    ASSUME "CONFIRMED" \notin SellerStatuses
    PROVE  Spec => []ConfirmedSeatIsTaken
<1>1. Init => ConfirmedSeatIsTaken
  BY DEF Init, ConfirmedSeatIsTaken
<1>2. TypeOK /\ Evidence /\ ConfirmedSeatIsTaken /\ [Next]_vars
        => ConfirmedSeatIsTaken'
  <2> SUFFICES ASSUME TypeOK, Evidence, ConfirmedSeatIsTaken, [Next]_vars,
                      NEW b \in Bookings, booking'[b] = "CONFIRMED"
               PROVE  isBooked'[Seat[b]] /\ session'[b] = "complete"
    BY DEF ConfirmedSeatIsTaken
  <2>1. Seat[b] \in Seats /\ Lasting
    BY FactsLast, BookingPaymentAssumption
  <2>2. CASE booking[b] = "CONFIRMED"
    BY <2>1, <2>2 DEF ConfirmedSeatIsTaken, Lasting
  <2>3. CASE booking[b] # "CONFIRMED"
    BY <2>1, <2>3, BookingChanges DEF Lasting
  <2> QED BY <2>2, <2>3
<1> QED BY <1>1, <1>2, TypeCorrect, EvidenceHolds, PTL DEF Spec

\* A payment succeeds in the step that confirms its booking, or cancels it.
LEMMA SuccessComes ==
    ASSUME TypeOK, [Next]_vars, NEW b \in Bookings,
           payment[b].status # "SUCCESS", payment'[b].status = "SUCCESS"
    PROVE  booking'[b] \in {"CONFIRMED", "CANCELLED"}
<1> USE DEF rowVars, stripeVars
<1>1. payment'[b] # payment[b]
  OBVIOUS
<1>2. ASSUME NEW w \in Workers,
             CheckoutCompleted(w) \/ PaymentIntentSucceeded(w)
      PROVE  booking'[b] = "CONFIRMED"
  BY <1>1, <1>2 DEF CheckoutCompleted, PaymentIntentSucceeded, Confirm, TypeOK
<1>3. ASSUME NEW c \in Bookings, NEW s, payment' = SetPayment(c, s)
      PROVE  c = b /\ s = "SUCCESS"
  BY <1>1, <1>3, SetPaymentKeepsIntent
<1>4. ASSUME NEW w \in Workers,
             \/ CheckoutExpired(w) \/ PaymentIntentNotPaid(w)
             \/ ChargeRefunded(w)
      PROVE  FALSE
  <2>1. worker[w].row.booking \in Bookings
    BY <1>4, JobRow DEF CheckoutExpired, PaymentIntentNotPaid, ChargeRefunded,
                        Running
  <2>2. \/ UNCHANGED payment
        \/ \E s \in {"FAILED", "CANCELLED", "FULLY_REFUNDED",
                     "PARTIALLY_REFUNDED"} :
              payment' = SetPayment(worker[w].row.booking, s)
    BY <1>4 DEF CheckoutExpired, MarkRow, PaymentIntentNotPaid, NotPaidStatus,
                ChargeRefunded
  <2> QED BY <1>1, <1>3, <2>1, <2>2
<1>5. ASSUME NEW r \in Requests, CancelBooking(r) PROVE booking'[b] = "CANCELLED"
  <2>1. request[r].booking \in Bookings
    BY <1>5 DEF CancelBooking, At, TypeOK, Request
  <2> QED BY <1>3, <1>5, <2>1 DEF CancelBooking, TypeOK
<1> QED
  BY <1>1, <1>2, <1>4, <1>5
  DEF Next, Guest, OpenSession, CreateBooking, Stripe, PaymentDeclined,
      PaymentCaptured, SessionExpires, Webhook, SkipJob, StartJob, JobFails,
      Refunding, CancelLoad, AdminRefund, CancelLookup, ReadRefundable,
      CreateRefund, RecordRefund, RequestFails, Seller, SellerSetsStatus, vars

\* A booking expires with its own session only, and a payment never succeeds
\* beside a booking that waits for it or expired.
SettledInv ==
    \A b \in Bookings :
        /\ booking[b] = "EXPIRED" => session[b] = "expired"
        /\ payment[b].status = "SUCCESS" => booking[b] \notin {"PENDING", "EXPIRED"}

\* No step makes it false unless a seller's does.
LEMMA SettledStep ==
    ASSUME SellerStatuses \cap {"PENDING", "EXPIRED"} = {},
           TypeOK, Evidence, Evidence', SettledInv, [Next]_vars
    PROVE  SettledInv'
<1> USE DEF rowVars, stripeVars
<1>1. SUFFICES ASSUME NEW b \in Bookings
               PROVE  /\ booking'[b] = "EXPIRED" => session'[b] = "expired"
                      /\ payment'[b].status = "SUCCESS" =>
                            booking'[b] \notin {"PENDING", "EXPIRED"}
  BY DEF SettledInv
<1>2. Lasting
  BY FactsLast
<1>3. payment'[b].status = "SUCCESS" => session'[b] = "complete"
  BY DEF Evidence, RowTrue
<1>4. CASE booking'[b] = booking[b]
  <2>1. booking[b] = "EXPIRED" => session'[b] = "expired"
    BY <1>2 DEF SettledInv, Lasting
  <2>2. CASE payment[b].status = "SUCCESS"
    BY <1>4, <2>1, <2>2 DEF SettledInv
  <2>3. CASE payment[b].status # "SUCCESS"
    BY <1>4, <2>1, <2>3, SuccessComes
  <2> QED BY <2>2, <2>3
<1>5. CASE booking'[b] # booking[b]
  <2>1. session' = session
    BY <1>5, ChangeLeavesSession
  <2> QED BY <1>3, <1>5, <2>1, BookingChanges
<1> QED BY <1>4, <1>5

\* A payment never succeeds beside a booking that waits for it or expired, as
\* long as sellers do not write those statuses.
THEOREM Settled ==
    ASSUME SellerStatuses \cap {"PENDING", "EXPIRED"} = {}
    PROVE  Spec => []SettledTogether
<1>1. Init => SettledInv
  BY DEF Init, SettledInv
<1>2. TypeOK /\ Evidence /\ Evidence' /\ SettledInv /\ [Next]_vars => SettledInv'
  BY SettledStep
<1>3. SettledInv => SettledTogether
  BY DEF SettledInv, SettledTogether
<1> QED BY <1>1, <1>2, <1>3, TypeCorrect, EvidenceHolds, PTL DEF Spec

\* An expired booking was never paid, and no one but its seller revives it.
THEOREM ExpiredForGood ==
    ASSUME SellerStatuses \cap {"PENDING", "EXPIRED"} = {}
    PROVE  Spec => ExpiryIsFinal
<1>1. Init => SettledInv
  BY DEF Init, SettledInv
<1>2. TypeOK /\ Evidence /\ Evidence' /\ SettledInv /\ [Next]_vars => SettledInv'
  BY SettledStep
<1> DEFINE Final == \A b \in Bookings :
               booking[b] = "EXPIRED" =>
                   /\ session[b] = "expired"
                   /\ booking'[b] \in {"EXPIRED"} \cup SellerStatuses
<1>3. TypeOK /\ Evidence /\ SettledInv /\ [Next]_vars => [Final]_vars
  BY BookingChanges DEF SettledInv
<1> QED BY <1>1, <1>2, <1>3, TypeCorrect, EvidenceHolds, PTL DEF Spec, ExpiryIsFinal

-----------------------------------------------------------------------------
(* The refund ledger: BookingPayment implements RefundLedger, that is, the *)
(* BOOKING_REFUND rows are a faithful ledger of the money that went back.  *)
(* The inductive invariant follows a refund between Stripe and its row: a  *)
(* request that was granted one and has not recorded it holds a piece of   *)
(* the payment that no row and no other request has.                       *)

\* Rows and requests that share no money of one payment.
Apart(x, y) ==
    x.booking = y.booking => x.id + x.amount <= y.id \/ y.id + y.amount <= x.id

\* The requests Stripe granted a refund that is not recorded.
Holding(r) == request[r] # IdleRequest /\ request[r].pc = "record"

LedgerInv ==
    /\ \A b \in Bookings : refunded[b] <= Price
    /\ \A q \in refundRow :
          q.amount > 0 /\ q.id + q.amount <= refunded[q.booking]
    /\ \A r \in Requests :
          request[r] # IdleRequest /\ request[r].pc = "create" =>
              request[r].amount > 0
    /\ \A r \in Requests : Holding(r) =>
          /\ request[r].amount > 0
          /\ request[r].id + request[r].amount <= refunded[request[r].booking]
          /\ \A q \in refundRow : Apart(q, request[r])
          /\ \A s \in Requests : s # r /\ Holding(s) => Apart(request[r], request[s])

-----------------------------------------------------------------------------
(* Steps that leave the pieces as they are                                 *)

SamePiece(x, q) == x.booking = q.booking /\ x.id = q.id /\ x.amount = q.amount

\* The rows stand for the same pieces before and after the step.
SamePieces ==
    /\ \A x \in refundRow' : \E q \in refundRow : SamePiece(x, q)
    /\ \A q \in refundRow : \E x \in refundRow' : SamePiece(x, q)

\* Marking a row, or the rows of a charge, changes no piece.
LEMMA WebhookKeepsPieces ==
    ASSUME TypeOK, Webhook
    PROVE  SamePieces
<1>1. CASE UNCHANGED refundRow
  BY <1>1 DEF SamePieces, SamePiece
<1>2. ASSUME NEW q \in RefundRow, NEW s
      PROVE  SamePiece([q EXCEPT !.status = s], q)
  BY DEF SamePiece, RefundRow
<1>3. ASSUME NEW w \in Workers, CheckoutExpired(w) PROVE SamePieces
  <2> DEFINE row == worker[w].row
             Hit(q) == q.booking = row.booking /\ q.id = row.id
             New(q) == IF Hit(q) THEN [q EXCEPT !.status = "FAILED"] ELSE q
  <2>1. CASE UNCHANGED refundRow
    BY <1>1, <2>1
  <2>2. CASE refundRow' = {New(q) : q \in refundRow}
    <3>1. \A q \in refundRow : SamePiece(New(q), q)
      BY <1>2 DEF TypeOK, SamePiece
    <3> HIDE DEF New
    <3> QED BY <2>2, <3>1 DEF SamePieces
  <2> QED BY <1>3, <2>1, <2>2 DEF CheckoutExpired, MarkRow
<1>4. ASSUME NEW w \in Workers, ChargeRefunded(w) PROVE SamePieces
  <2> DEFINE row == worker[w].row
             total == worker[w].event.arg
             status == IF total = Price THEN "FULLY_REFUNDED"
                                        ELSE "PARTIALLY_REFUNDED"
             Listed(q) == q.booking = row.booking /\ q.id + q.amount <= total
             New(listed, q) == [q EXCEPT !.status =
                                  IF RefundRefs({q}) = {row} THEN status
                                  ELSE IF listed /\ Listed(q) THEN "SUCCESS"
                                  ELSE @]
  <2>1. PICK listed \in BOOLEAN : refundRow' = {New(listed, q) : q \in refundRow}
    BY <1>4 DEF ChargeRefunded
  <2>2. \A q \in refundRow : SamePiece(New(listed, q), q)
    BY <1>2 DEF TypeOK
  <2> HIDE DEF New
  <2> QED BY <2>1, <2>2 DEF SamePieces
<1>5. CASE ~ \E w \in Workers : CheckoutExpired(w) \/ ChargeRefunded(w)
  BY <1>1, <1>5 DEF Webhook, SkipJob, StartJob, CheckoutCompleted,
     PaymentIntentSucceeded, PaymentIntentNotPaid, JobFails, rowVars
<1> QED BY <1>3, <1>4, <1>5

\* A step that moves and records no money and grants no refund keeps LedgerInv.
LEMMA QuietStep ==
    ASSUME TypeOK, TypeOK', LedgerInv, SamePieces, UNCHANGED refunded,
           \A r \in Requests :
              \/ request'[r] = request[r]
              \/ request'[r] = IdleRequest
              \/ request'[r].pc \notin {"create", "record"}
              \/ request'[r].pc = "create" /\ request'[r].amount > 0
    PROVE  LedgerInv'
<1>1. ASSUME NEW r \in Requests, Holding(r)'
      PROVE  Holding(r) /\ request'[r] = request[r]
  BY <1>1 DEF Holding
<1>2. ASSUME NEW q \in refundRow'
      PROVE  q.amount > 0 /\ q.id + q.amount <= refunded'[q.booking]
  BY <1>2 DEF SamePieces, SamePiece, LedgerInv
<1>3. ASSUME NEW r \in Requests, Holding(r)', NEW q \in refundRow'
      PROVE  Apart(q, request'[r])
  BY <1>1, <1>3 DEF SamePieces, SamePiece, LedgerInv, Apart
<1>4. ASSUME NEW r \in Requests, request'[r] # IdleRequest,
             request'[r].pc = "create"
      PROVE  request'[r].amount > 0
  BY <1>4 DEF LedgerInv
<1>5. ASSUME NEW r \in Requests, Holding(r)'
      PROVE  /\ request'[r].amount > 0
             /\ request'[r].id + request'[r].amount
                  <= refunded'[request'[r].booking]
             /\ \A s \in Requests :
                   s # r /\ Holding(s)' => Apart(request'[r], request'[s])
  BY <1>1, <1>5 DEF LedgerInv
<1>6. \A b \in Bookings : refunded'[b] <= Price
  BY DEF LedgerInv
<1> HIDE DEF Holding
<1> QED BY <1>2, <1>3, <1>4, <1>5, <1>6 DEF LedgerInv, Apart, Holding

-----------------------------------------------------------------------------
(* Steps of a refund                                                       *)

\* A grant: the new piece lies above everything refunded before.
LEMMA CreateStep ==
    ASSUME TypeOK, TypeOK', LedgerInv, NEW r \in Requests, CreateRefund(r)
    PROVE  LedgerInv'
<1> USE DEF rowVars, stripeVars
<1> DEFINE q == request[r]
           b == q.booking
<1>1. q \in Request /\ b \in Bookings /\ q.amount \in Nat /\ q.amount > 0
  BY DEF CreateRefund, At, TypeOK, Request, LedgerInv
<1>2. /\ refunded[b] \in Nat /\ refunded[b] + q.amount <= Price
      /\ refunded' = [refunded EXCEPT ![b] = refunded[b] + q.amount]
  BY <1>1 DEF CreateRefund, TypeOK
<1>3. request'[r] = [q EXCEPT !.pc = "record", !.id = refunded[b]]
  BY DEF CreateRefund, GoTo, TypeOK
<1>4. /\ request'[r].id = refunded[b] /\ request'[r].amount = q.amount
      /\ request'[r].booking = b
      /\ request'[r].pc = "record"
  BY <1>1, <1>3 DEF Request
<1>5. \A s \in Requests : s # r => request'[s] = request[s]
  BY DEF CreateRefund, GoTo, TypeOK
<1>6. refundRow' = refundRow
  BY DEF CreateRefund
<1> HIDE DEF q, b
<1>7. \A c \in Bookings :
        /\ refunded[c] \in Nat /\ refunded'[c] \in Nat
        /\ refunded[c] <= refunded'[c] /\ refunded'[c] <= Price
  BY <1>1, <1>2 DEF TypeOK, LedgerInv
<1>8. ASSUME NEW x \in refundRow
      PROVE  /\ x.amount > 0 /\ x.id + x.amount <= refunded'[x.booking]
             /\ Apart(x, request'[r])
  <2>1. x.booking \in Bookings /\ x.id \in Nat /\ x.amount \in Nat
    BY DEF TypeOK, RefundRow
  <2>2. x.amount > 0 /\ x.id + x.amount <= refunded[x.booking]
    BY DEF LedgerInv
  <2> QED BY <1>4, <1>7, <2>1, <2>2 DEF Apart
<1>9. ASSUME NEW s \in Requests, s # r, Holding(s)'
      PROVE  /\ Holding(s) /\ request'[s] = request[s]
             /\ request[s].booking \in Bookings
             /\ request[s].id \in Nat /\ request[s].amount \in Nat
             /\ request[s].id + request[s].amount <= refunded[request[s].booking]
  BY <1>5, <1>9 DEF Holding, LedgerInv, TypeOK, Request
<1>10. ASSUME NEW s \in Requests, s # r, Holding(s)'
       PROVE  Apart(request'[s], request'[r]) /\ Apart(request'[r], request'[s])
  BY <1>4, <1>9, <1>10 DEF Apart
<1>11. ASSUME NEW s \in Requests, Holding(s)'
       PROVE  /\ request'[s].amount > 0
              /\ request'[s].id + request'[s].amount
                   <= refunded'[request'[s].booking]
              /\ \A x \in refundRow' : Apart(x, request'[s])
              /\ \A t \in Requests :
                    t # s /\ Holding(t)' => Apart(request'[s], request'[t])
  <2>1. CASE s = r
    <3>1. refunded'[b] = refunded[b] + q.amount
      BY <1>1, <1>2 DEF TypeOK
    <3>2. /\ request'[s].amount > 0
          /\ request'[s].id + request'[s].amount
               <= refunded'[request'[s].booking]
      BY <1>1, <1>2, <1>4, <2>1, <3>1
    <3>3. \A x \in refundRow' : Apart(x, request'[s])
      BY <1>6, <1>8, <2>1
    <3>4. ASSUME NEW t \in Requests, t # s, Holding(t)'
          PROVE  Apart(request'[s], request'[t])
      BY <1>10, <2>1, <3>4
    <3> QED BY <3>2, <3>3, <3>4
  <2>2. CASE s # r
    <3>1. /\ request'[s].amount > 0
          /\ \A x \in refundRow' : Apart(x, request'[s])
      BY <1>6, <1>9, <1>11, <2>2 DEF LedgerInv
    <3>2. request'[s].id + request'[s].amount <= refunded'[request'[s].booking]
      BY <1>7, <1>9, <1>11, <2>2
    <3>3. ASSUME NEW t \in Requests, t # s, Holding(t)'
          PROVE  Apart(request'[s], request'[t])
      BY <1>9, <1>10, <1>11, <2>2, <3>3 DEF LedgerInv
    <3> QED BY <3>1, <3>2, <3>3
  <2> QED BY <2>1, <2>2
<1>12. ASSUME NEW s \in Requests, request'[s] # IdleRequest,
              request'[s].pc = "create"
       PROVE  request'[s].amount > 0
  BY <1>4, <1>5, <1>12 DEF LedgerInv
<1>13. /\ \A c \in Bookings : refunded'[c] <= Price
       /\ \A x \in refundRow' :
             x.amount > 0 /\ x.id + x.amount <= refunded'[x.booking]
  BY <1>6, <1>7, <1>8
<1> HIDE DEF Holding, Apart
<1> QED BY <1>11, <1>12, <1>13 DEF LedgerInv, Holding, Apart

\* A record: the piece the request held becomes a row's.
LEMMA RecordStep ==
    ASSUME TypeOK, TypeOK', LedgerInv, NEW r \in Requests, RecordRefund(r)
    PROVE  LedgerInv'
<1> USE DEF rowVars, stripeVars
<1> DEFINE q == request[r]
           row == [booking |-> q.booking, id |-> q.id, amount |-> q.amount,
                   status |-> "SUCCESS"]
<1>1. q \in Request /\ Holding(r)
  BY DEF RecordRefund, At, Holding, TypeOK
<1>2. refundRow' = refundRow \cup {row} /\ refunded' = refunded
  BY DEF RecordRefund
<1>3. row.booking = q.booking /\ row.id = q.id /\ row.amount = q.amount
  OBVIOUS
<1>4. \A s \in Requests : s # r => request'[s] = request[s]
  BY DEF RecordRefund, GoTo, TypeOK
<1>5. request'[r] = IdleRequest \/ request'[r].pc = "cancel"
  <2>1. request'[r] = IdleRequest \/ request'[r] = [q EXCEPT !.pc = "cancel"]
    BY DEF RecordRefund, GoTo, TypeOK
  <2> QED BY <1>1, <2>1 DEF Request
<1> HIDE DEF q, row
<1>6. ASSUME NEW s \in Requests, Holding(s)'
      PROVE  s # r /\ Holding(s) /\ request'[s] = request[s]
  BY <1>4, <1>5, <1>6 DEF Holding
<1>7. ASSUME NEW x \in refundRow'
      PROVE  x.amount > 0 /\ x.id + x.amount <= refunded'[x.booking]
  BY <1>1, <1>2, <1>3, <1>7 DEF LedgerInv, q
<1>8. ASSUME NEW s \in Requests, Holding(s)', NEW x \in refundRow'
      PROVE  Apart(x, request'[s])
  <2>1. CASE x \in refundRow
    BY <1>6, <1>8, <2>1 DEF LedgerInv
  <2>2. CASE x = row
    <3>1. Apart(q, request[s])
      BY <1>1, <1>6, <1>8 DEF LedgerInv, q
    <3> QED BY <1>3, <1>6, <1>8, <2>2, <3>1 DEF Apart
  <2> QED BY <1>2, <1>8, <2>1, <2>2
<1>9. ASSUME NEW s \in Requests, Holding(s)'
      PROVE  /\ request'[s].amount > 0
             /\ request'[s].id + request'[s].amount
                  <= refunded'[request'[s].booking]
             /\ \A t \in Requests :
                   t # s /\ Holding(t)' => Apart(request'[s], request'[t])
  BY <1>2, <1>6, <1>9 DEF LedgerInv
<1>10. ASSUME NEW s \in Requests, request'[s] # IdleRequest,
              request'[s].pc = "create"
       PROVE  request'[s].amount > 0
  BY <1>4, <1>5, <1>10 DEF LedgerInv
<1>11. \A c \in Bookings : refunded'[c] <= Price
  BY <1>2 DEF LedgerInv
<1> HIDE DEF Holding, Apart
<1> QED BY <1>7, <1>8, <1>9, <1>10, <1>11 DEF LedgerInv, Holding, Apart

\* The other steps of a request leave rows and refunds alone, and none of them
\* is granted a refund.
LEMMA RequestStep ==
    ASSUME TypeOK, TypeOK', NEW r \in Requests,
           \/ \E b \in Bookings : CancelLoad(r, b)
           \/ \E b \in Bookings, n \in AdminAmounts : AdminRefund(r, b, n)
           \/ CancelLookup(r) \/ ReadRefundable(r) \/ CancelBooking(r)
           \/ RequestFails(r)
    PROVE  /\ UNCHANGED <<session, refunded, refundRow>>
           /\ \A s \in Requests :
                 \/ request'[s] = request[s]
                 \/ request'[s] = IdleRequest
                 \/ request'[s].pc \notin {"create", "record"}
                 \/ request'[s].pc = "create" /\ request'[s].amount > 0
<1> USE DEF rowVars, stripeVars
<1>1. UNCHANGED <<session, refunded, refundRow>>
  BY DEF CancelLoad, AdminRefund, CancelLookup, ReadRefundable, CancelBooking,
         RequestFails
<1> DEFINE Harmless(s) ==
      \/ request'[s] = request[s]
      \/ request'[s] = IdleRequest
      \/ request'[s].pc \notin {"create", "record"}
      \/ request'[s].pc = "create" /\ request'[s].amount > 0
<1>2. ASSUME NEW s \in Requests, s # r PROVE request'[s] = request[s]
  BY <1>2 DEF CancelLoad, AdminRefund, CancelLookup, ReadRefundable,
     CancelBooking, RequestFails, GoTo, TypeOK
<1>3. Harmless(r)
  <2>1. ASSUME NEW b \in Bookings, CancelLoad(r, b) PROVE Harmless(r)
    BY <2>1 DEF CancelLoad, GoTo, TypeOK
  <2>2. ASSUME NEW b \in Bookings, NEW n \in AdminAmounts, AdminRefund(r, b, n)
        PROVE  Harmless(r)
    BY <2>2 DEF AdminRefund, GoTo, TypeOK
  <2>3. ASSUME CancelLookup(r) PROVE Harmless(r)
    <3>1. request[r] \in Request
      BY <2>3 DEF CancelLookup, At, TypeOK
    <3>2. ASSUME GoTo(r, [request[r] EXCEPT !.pc = "refund"]) PROVE Harmless(r)
      BY <3>1, <3>2 DEF GoTo, TypeOK, Request
    <3>3. ASSUME NEW x \in RefundsMade(request[r].booking),
                 GoTo(r, [request[r] EXCEPT !.pc = "cancel", !.prior = x.amount])
          PROVE  Harmless(r)
      <4>1. request'[r] = [request[r] EXCEPT !.pc = "cancel", !.prior = x.amount]
        BY <3>3 DEF GoTo, TypeOK
      <4> QED BY <3>1, <4>1 DEF Request
    <3> QED BY <2>3, <3>2, <3>3 DEF CancelLookup
  <2>4. ASSUME ReadRefundable(r) PROVE Harmless(r)
    <3>1. request[r] \in Request /\ Due(request[r]) > 0
      BY <2>4 DEF ReadRefundable, At, TypeOK
    <3>2. request'[r] = [request[r] EXCEPT !.pc = "create",
                                           !.amount = Due(request[r])]
      BY <2>4 DEF ReadRefundable, GoTo, TypeOK
    <3>3. request'[r].pc = "create" /\ request'[r].amount = Due(request[r])
      BY <3>1, <3>2 DEF Request
    <3> QED BY <3>1, <3>3
  <2>5. ASSUME CancelBooking(r) \/ RequestFails(r) PROVE Harmless(r)
    BY <2>5 DEF CancelBooking, RequestFails, GoTo, TypeOK
  <2> QED BY <2>1, <2>2, <2>3, <2>4, <2>5
<1> QED BY <1>1, <1>2, <1>3

\* Every step grants a refund, records one, or leaves the pieces as they are.
LEMMA LedgerSteps ==
    ASSUME TypeOK, TypeOK', [Next]_vars
    PROVE  \/ \E r \in Requests : CreateRefund(r) \/ RecordRefund(r)
           \/ /\ SamePieces /\ UNCHANGED refunded
              /\ \A s \in Requests :
                    \/ request'[s] = request[s]
                    \/ request'[s] = IdleRequest
                    \/ request'[s].pc \notin {"create", "record"}
                    \/ request'[s].pc = "create" /\ request'[s].amount > 0
<1> USE DEF rowVars, stripeVars
<1>1. UNCHANGED refundRow => SamePieces
  BY DEF SamePieces, SamePiece
<1>2. CASE Webhook
  <2>1. UNCHANGED <<refunded, request>>
    BY <1>2 DEF Webhook, SkipJob, StartJob, CheckoutCompleted, CheckoutExpired,
                PaymentIntentSucceeded, PaymentIntentNotPaid, ChargeRefunded,
                JobFails
  <2> QED BY <1>2, <2>1, WebhookKeepsPieces
<1>3. CASE Guest \/ Stripe \/ Seller \/ UNCHANGED vars
  BY <1>1, <1>3 DEF Guest, OpenSession, CreateBooking, Stripe, PaymentDeclined,
     PaymentCaptured, SessionExpires, Seller, SellerSetsStatus, vars
<1>4. CASE Refunding
  BY <1>1, <1>4, RequestStep DEF Refunding
<1> QED BY <1>2, <1>3, <1>4 DEF Next

\* A recorded refund is money that went back, recorded once.
THEOREM LedgerInvariant == Spec => []LedgerInv
<1>1. Init => LedgerInv
  BY BookingPaymentAssumption DEF Init, LedgerInv, IdleRequest, Holding
<1>2. TypeOK /\ TypeOK' /\ LedgerInv /\ [Next]_vars => LedgerInv'
  <2> SUFFICES ASSUME TypeOK, TypeOK', LedgerInv, [Next]_vars PROVE LedgerInv'
    OBVIOUS
  <2>1. CASE \E r \in Requests : CreateRefund(r) \/ RecordRefund(r)
    BY <2>1, CreateStep, RecordStep
  <2>2. CASE ~ \E r \in Requests : CreateRefund(r) \/ RecordRefund(r)
    BY <2>2, LedgerSteps, QuietStep
  <2> QED BY <2>1, <2>2
<1> QED BY <1>1, <1>2, TypeCorrect, PTL DEF Spec

-----------------------------------------------------------------------------
(* The refinement                                                          *)

\* The abstract state, under names the proof can hide.
Captured == {b \in Bookings : session[b] = "complete"}
Recorded == {[booking |-> q.booking, from |-> q.id, amount |-> q.amount] :
                q \in refundRow}

\* Rows that stand for the same pieces stand for the same ledger.
LEMMA SameLedger ==
    ASSUME SamePieces
    PROVE  Recorded' = Recorded
<1> DEFINE P(q) == [booking |-> q.booking, from |-> q.id, amount |-> q.amount]
<1>1. \A x, q : SamePiece(x, q) => P(x) = P(q)
  BY DEF SamePiece
<1>2. Recorded = {P(q) : q \in refundRow} /\ Recorded' = {P(q) : q \in refundRow'}
  BY DEF Recorded
<1> HIDE DEF P
<1> QED BY <1>1, <1>2 DEF SamePieces

\* A grant is a return of money that was captured.
LEMMA CreateRefines ==
    ASSUME TypeOK, Evidence, LedgerInv, NEW r \in Requests, CreateRefund(r)
    PROVE  \E b \in Bookings, n \in 1..Price : Ledger!Return(b, n)
<1> USE DEF rowVars, stripeVars
<1>1. request[r] \in Request /\ request[r].amount > 0
  BY DEF CreateRefund, At, TypeOK, LedgerInv
<1> DEFINE b == request[r].booking
           n == request[r].amount
<1>2. b \in Bookings /\ n \in Nat /\ refunded[b] \in Nat
  BY <1>1 DEF Request, TypeOK
<1>3. refunded[b] + n <= Price /\ refunded' = [refunded EXCEPT ![b] = @ + n]
  BY DEF CreateRefund
<1>4. n \in 1..Price
  BY <1>1, <1>2, <1>3, BookingPaymentAssumption
<1>5. b \in Captured
  BY <1>2 DEF CreateRefund, At, Evidence, RequestTrue, Captured
<1>6. UNCHANGED <<Captured, Recorded>>
  BY DEF CreateRefund, Captured, Recorded
<1>7. Ledger!Return(b, n)
  BY <1>1, <1>3, <1>5, <1>6 DEF Ledger!Return, Captured, Recorded
<1> QED BY <1>2, <1>4, <1>7

\* A record is of a piece no row has.
LEMMA RecordRefines ==
    ASSUME TypeOK, LedgerInv, NEW r \in Requests, RecordRefund(r)
    PROVE  \E b \in Bookings, from \in 0..Price, n \in 1..Price :
              Ledger!Record([booking |-> b, from |-> from, amount |-> n])
<1> USE DEF rowVars, stripeVars
<1> DEFINE q == request[r]
           p == [booking |-> q.booking, from |-> q.id, amount |-> q.amount]
<1>1. q \in Request /\ Holding(r)
  BY DEF RecordRefund, At, Holding, TypeOK
<1>2. /\ q.booking \in Bookings /\ q.id \in Nat /\ q.amount \in Nat
      /\ refunded[q.booking] \in Nat /\ refunded[q.booking] <= Price
  BY <1>1 DEF Request, TypeOK, LedgerInv
<1>3. q.amount > 0 /\ q.id + q.amount <= refunded[q.booking]
  BY <1>1 DEF LedgerInv
<1>4. q.id \in 0..Price /\ q.amount \in 1..Price
  BY <1>2, <1>3, BookingPaymentAssumption
<1>5. \A x \in refundRow : Apart(x, q)
  BY <1>1 DEF LedgerInv
<1>6. ASSUME NEW x \in Recorded PROVE Ledger!Disjoint(p, x)
  BY <1>5, <1>6 DEF Recorded, Ledger!Disjoint, Apart
<1>7. Recorded' = Recorded \cup {p}
  <2> DEFINE P(x) == [booking |-> x.booking, from |-> x.id, amount |-> x.amount]
             row == [booking |-> q.booking, id |-> q.id, amount |-> q.amount,
                     status |-> "SUCCESS"]
  <2>1. Recorded = {P(x) : x \in refundRow} /\ Recorded' = {P(x) : x \in refundRow'}
    BY DEF Recorded
  <2>2. refundRow' = refundRow \cup {row} /\ P(row) = p
    BY DEF RecordRefund
  <2> HIDE DEF P, row, p
  <2> QED BY <2>1, <2>2
<1>8. UNCHANGED <<Captured, refunded>>
  BY DEF RecordRefund, Captured
<1>9. p.amount > 0 /\ p.from + p.amount <= refunded[p.booking]
  BY <1>3
<1>10. PICK b \in Bookings, from \in 0..Price, n \in 1..Price :
         p = [booking |-> b, from |-> from, amount |-> n]
  BY <1>2, <1>4
<1> HIDE DEF p
<1>11. Ledger!Record([booking |-> b, from |-> from, amount |-> n])
  BY <1>6, <1>7, <1>8, <1>9, <1>10 DEF Ledger!Record, Captured, Recorded
<1> QED BY <1>11

\* The other steps capture a payment or are stutters.
LEMMA OthersRefine ==
    ASSUME TypeOK, SamePieces, UNCHANGED refunded, [Next]_vars
    PROVE  \/ \E b \in Bookings : Ledger!Capture(b)
           \/ UNCHANGED Ledger!lvars
<1> USE DEF rowVars, stripeVars
<1>1. Recorded' = Recorded
  BY SameLedger
<1>2. ASSUME NEW b \in Bookings, PaymentCaptured(b) PROVE Ledger!Capture(b)
  <2>1. b \notin Captured /\ Captured' = Captured \cup {b}
    BY <1>2 DEF PaymentCaptured, Captured, TypeOK
  <2> QED BY <1>1, <1>2, <2>1 DEF Ledger!Capture, Captured, Recorded
<1>3. CASE Captured' = Captured
  BY <1>1, <1>3 DEF Ledger!lvars, Captured, Recorded
<1>4. CASE UNCHANGED session
  BY <1>3, <1>4 DEF Captured
<1>5. ASSUME NEW b \in Bookings, OpenSession(b) \/ SessionExpires(b)
      PROVE  Captured' = Captured
  BY <1>5 DEF OpenSession, SessionExpires, Captured, TypeOK
<1> QED
  BY <1>2, <1>3, <1>4, <1>5
  DEF Next, Guest, CreateBooking, Stripe, PaymentDeclined, Webhook, SkipJob,
      StartJob, CheckoutCompleted, CheckoutExpired, PaymentIntentSucceeded,
      PaymentIntentNotPaid, ChargeRefunded, JobFails, Refunding, CancelLoad,
      AdminRefund, CancelLookup, ReadRefundable, CreateRefund, RecordRefund,
      CancelBooking, RequestFails, Seller, SellerSetsStatus, vars

\* The refund rows are a faithful ledger: what is recorded was returned, once,
\* and no more than the price is returned, whatever runs at once or dies.
THEOREM RefundsImplementLedger == Spec => RefundLedgerImplemented
<1>1. Init => Ledger!LInit
  BY DEF Init, Ledger!LInit
<1>2. TypeOK /\ TypeOK' /\ Evidence /\ LedgerInv /\ [Next]_vars
        => [Ledger!LNext]_(Ledger!lvars)
  <2> SUFFICES ASSUME TypeOK, TypeOK', Evidence, LedgerInv, [Next]_vars
               PROVE  Ledger!LNext \/ UNCHANGED Ledger!lvars
    OBVIOUS
  <2>1. CASE \E r \in Requests : CreateRefund(r) \/ RecordRefund(r)
    BY <2>1, CreateRefines, RecordRefines DEF Ledger!LNext
  <2>2. CASE ~ \E r \in Requests : CreateRefund(r) \/ RecordRefund(r)
    BY <2>2, LedgerSteps, OthersRefine DEF Ledger!LNext
  <2> QED BY <2>1, <2>2
<1> QED
  BY <1>1, <1>2, TypeCorrect, EvidenceHolds, LedgerInvariant, PTL
  DEF Spec, RefundLedgerImplemented, Ledger!LSpec

-----------------------------------------------------------------------------
(* Cancelled means money back                                              *)

\* The admin refunds the whole payment or nothing.
WholeAmounts == \A n \in AdminAmounts : n = 0 \/ n >= Price

\* Sellers leave these statuses to the payment.
SellersKeepOut == SellerStatuses \cap {"PENDING", "EXPIRED", "CANCELLED"} = {}

\* With no partial refunds, a refund is the whole price or nothing; whoever
\* recorded one, or is about to cancel, knows that it is the whole price; and a
\* failed or canceled payment cannot cancel a booking any more, since its job
\* finds only rows whose booking left PENDING.
MoneyBack ==
    /\ \A b \in Bookings : refunded[b] \in {0, Price}
    /\ \A q \in refundRow : refunded[q.booking] = Price
    /\ \A r \in Requests : request[r] # IdleRequest =>
          IF request[r].pc \in {"record", "cancel"}
          THEN refunded[request[r].booking] = Price
          ELSE \/ request[r].amount = Price
               \/ /\ request[r].pc # "create"
                  /\ request[r].amount = 0 \/ request[r].amount > Price
    /\ \A b \in Bookings : payment[b].intent = "pi" => booking[b] # "PENDING"
    /\ \A w \in Workers :
          Running(w, {"failed", "canceled"}) => ~worker[w].pending
    /\ CancelledMeansMoneyBack
    /\ FullyRefundedMeansMoneyBack

\* A refund is everything.
LEMMA RefundIsWhole ==
    ASSUME TypeOK, MoneyBack, [Next]_vars
    PROVE  \A b \in Bookings :
              /\ refunded'[b] \in {0, Price}
              /\ refunded[b] = Price => refunded'[b] = Price
<1>1. ASSUME NEW r \in Requests, CreateRefund(r)
      PROVE  /\ request[r].booking \in Bookings
             /\ refunded' = [refunded EXCEPT ![request[r].booking] = Price]
  <2>1. request[r] \in Request /\ request[r].amount = Price
    BY <1>1 DEF CreateRefund, At, TypeOK, MoneyBack
  <2>2. request[r].booking \in Bookings /\ refunded[request[r].booking] \in {0, Price}
    BY <2>1 DEF Request, MoneyBack
  <2>3. refunded[request[r].booking] + Price <= Price
    BY <1>1, <2>1 DEF CreateRefund
  <2>4. refunded[request[r].booking] + request[r].amount = Price
    BY <2>1, <2>2, <2>3, BookingPaymentAssumption
  <2> QED BY <1>1, <2>2, <2>4 DEF CreateRefund
<1>2. CASE refunded' = refunded
  BY <1>2 DEF MoneyBack
<1>3. ASSUME NEW r \in Requests, CreateRefund(r)
      PROVE  \A b \in Bookings : /\ refunded'[b] \in {0, Price}
                                 /\ refunded[b] = Price => refunded'[b] = Price
  BY <1>1, <1>3 DEF MoneyBack, TypeOK
<1> QED
  BY <1>2, <1>3
  DEF Next, Guest, OpenSession, CreateBooking, Stripe, PaymentDeclined,
      PaymentCaptured, SessionExpires, Webhook, SkipJob, StartJob,
      CheckoutCompleted, CheckoutExpired, PaymentIntentSucceeded,
      PaymentIntentNotPaid, ChargeRefunded, JobFails, Refunding, CancelLoad,
      AdminRefund, CancelLookup, ReadRefundable, RecordRefund,
      CancelBooking, RequestFails, Seller, SellerSetsStatus, vars, rowVars,
      stripeVars

\* Every row is of a booking that was refunded.
LEMMA RowsAreWhole ==
    ASSUME TypeOK, TypeOK', MoneyBack, [Next]_vars
    PROVE  \A q \in refundRow' : refunded'[q.booking] = Price
<1> SUFFICES ASSUME NEW x \in refundRow' PROVE refunded'[x.booking] = Price
  OBVIOUS
<1>1. x.booking \in Bookings
  BY DEF TypeOK, RefundRow
<1>2. SUFFICES refunded[x.booking] = Price
  BY <1>1, RefundIsWhole
<1>3. ASSUME NEW r \in Requests, CreateRefund(r) PROVE refunded[x.booking] = Price
  BY <1>3 DEF CreateRefund, rowVars, MoneyBack
<1>4. ASSUME NEW r \in Requests, RecordRefund(r) PROVE refunded[x.booking] = Price
  <2>1. refunded[request[r].booking] = Price
    BY <1>4 DEF RecordRefund, At, MoneyBack
  <2> QED BY <1>4, <2>1 DEF RecordRefund, MoneyBack
<1>5. CASE SamePieces
  BY <1>5 DEF SamePieces, SamePiece, MoneyBack
<1> QED BY <1>3, <1>4, <1>5, LedgerSteps

\* Every request is about a whole refund.
LEMMA RequestsAreWhole ==
    ASSUME WholeAmounts, TypeOK, TypeOK', MoneyBack, [Next]_vars
    PROVE  \A r \in Requests : request'[r] # IdleRequest =>
              IF request'[r].pc \in {"record", "cancel"}
              THEN refunded'[request'[r].booking] = Price
              ELSE \/ request'[r].amount = Price
                   \/ /\ request'[r].pc # "create"
                      /\ request'[r].amount = 0 \/ request'[r].amount > Price
<1> SUFFICES ASSUME NEW r \in Requests, request'[r] # IdleRequest
             PROVE  IF request'[r].pc \in {"record", "cancel"}
                    THEN refunded'[request'[r].booking] = Price
                    ELSE \/ request'[r].amount = Price
                         \/ /\ request'[r].pc # "create"
                            /\ request'[r].amount = 0 \/ request'[r].amount > Price
  OBVIOUS
<1> DEFINE Whole == IF request'[r].pc \in {"record", "cancel"}
                    THEN refunded'[request'[r].booking] = Price
                    ELSE \/ request'[r].amount = Price
                         \/ /\ request'[r].pc # "create"
                            /\ request'[r].amount = 0 \/ request'[r].amount > Price
<1>1. request'[r] \in Request /\ request'[r].booking \in Bookings
  BY DEF TypeOK, Request
<1>2. CASE request'[r] = request[r]
  BY <1>1, <1>2, RefundIsWhole DEF MoneyBack
<1>3. ASSUME NEW b \in Bookings, CancelLoad(r, b) PROVE Whole
  BY <1>3, BookingPaymentAssumption
  DEF CancelLoad, GoTo, TypeOK, RefundAmount, CancellationFee
<1>4. ASSUME request[r] # IdleRequest
      PROVE  request[r] \in Request /\ request[r].booking \in Bookings
  BY <1>4 DEF TypeOK, Request
<1>13. ASSUME NEW b \in Bookings, NEW n \in AdminAmounts, AdminRefund(r, b, n)
       PROVE  Whole
  <2>1. n \in Nat /\ (n = 0 \/ n >= Price)
    BY BookingPaymentAssumption DEF WholeAmounts
  <2>2. request'[r].pc = "refund" /\ request'[r].amount = n
    BY <1>13 DEF AdminRefund, GoTo, TypeOK
  <2> QED BY <2>1, <2>2, BookingPaymentAssumption
<1>5. ASSUME CancelLookup(r) PROVE Whole
  <2>1. /\ request[r] \in Request
        /\ \/ request[r].amount = Price
           \/ request[r].amount = 0 \/ request[r].amount > Price
    BY <1>4, <1>5 DEF CancelLookup, At, MoneyBack
  <2>2. ASSUME GoTo(r, [request[r] EXCEPT !.pc = "refund"]) PROVE Whole
    BY <2>1, <2>2 DEF GoTo, TypeOK, Request
  <2>3. ASSUME NEW x \in RefundsMade(request[r].booking),
               GoTo(r, [request[r] EXCEPT !.pc = "cancel", !.prior = x.amount])
        PROVE  Whole
    <3>1. request'[r] = [request[r] EXCEPT !.pc = "cancel", !.prior = x.amount]
      BY <2>3 DEF GoTo, TypeOK
    <3>2. request'[r].pc = "cancel" /\ request'[r].booking = request[r].booking
      BY <2>1, <3>1 DEF Request
    <3>3. refunded[request[r].booking] = Price
      BY <2>3 DEF RefundsMade, MoneyBack
    <3> QED BY <1>1, <3>2, <3>3, RefundIsWhole
  <2> QED BY <1>5, <2>2, <2>3 DEF CancelLookup
<1>6. ASSUME ReadRefundable(r) PROVE Whole
  <2>1. /\ request[r] \in Request
        /\ \/ request[r].amount = Price
           \/ request[r].amount = 0 \/ request[r].amount > Price
        /\ refunded[request[r].booking] \in {0, Price}
    BY <1>4, <1>6 DEF ReadRefundable, At, MoneyBack
  <2>2. Due(request[r]) = Price
    BY <1>6, <2>1, BookingPaymentAssumption DEF ReadRefundable, Due
  <2>3. request'[r] = [request[r] EXCEPT !.pc = "create",
                                         !.amount = Due(request[r])]
    BY <1>6 DEF ReadRefundable, GoTo, TypeOK
  <2> QED BY <2>1, <2>2, <2>3 DEF Request
<1>7. ASSUME CreateRefund(r) PROVE Whole
  <2>1. /\ request[r] \in Request /\ request[r].amount = Price
        /\ refunded[request[r].booking] \in {0, Price}
    BY <1>4, <1>7 DEF CreateRefund, At, MoneyBack
  <2>2. request'[r] = [request[r] EXCEPT !.pc = "record",
                                         !.id = refunded[request[r].booking]]
    BY <1>7 DEF CreateRefund, GoTo, TypeOK
  <2>3. request'[r].pc = "record" /\ request'[r].booking = request[r].booking
    BY <2>1, <2>2 DEF Request
  <2>4. refunded'[request[r].booking] = refunded[request[r].booking] + Price
    BY <1>1, <1>7, <2>1, <2>3 DEF CreateRefund, TypeOK
  <2>5. refunded[request[r].booking] + Price <= Price
    BY <1>7, <2>1 DEF CreateRefund
  <2> QED BY <2>1, <2>3, <2>4, <2>5, BookingPaymentAssumption
<1>8. ASSUME RecordRefund(r) PROVE Whole
  <2>1. /\ request[r] \in Request
        /\ refunded[request[r].booking] = Price
    BY <1>4, <1>8 DEF RecordRefund, At, MoneyBack
  <2>2. request'[r] = [request[r] EXCEPT !.pc = "cancel"]
    BY <1>8 DEF RecordRefund, GoTo, TypeOK
  <2>3. request'[r].pc = "cancel" /\ request'[r].booking = request[r].booking
    BY <2>1, <2>2 DEF Request
  <2> QED BY <1>1, <2>1, <2>3, RefundIsWhole
<1>9. ASSUME NEW q \in Requests, q # r,
             \/ \E b \in Bookings : CancelLoad(q, b)
             \/ \E b \in Bookings, n \in AdminAmounts : AdminRefund(q, b, n)
             \/ CancelLookup(q) \/ ReadRefundable(q) \/ CreateRefund(q)
             \/ RecordRefund(q) \/ CancelBooking(q) \/ RequestFails(q)
      PROVE  request'[r] = request[r]
  BY <1>9 DEF CancelLoad, AdminRefund, CancelLookup, ReadRefundable, CreateRefund,
     RecordRefund, CancelBooking, RequestFails, GoTo, TypeOK
<1>10. ASSUME CancelBooking(r) \/ RequestFails(r) PROVE FALSE
  BY <1>10 DEF CancelBooking, RequestFails, GoTo, TypeOK
<1>11. CASE UNCHANGED request
  BY <1>2, <1>11
<1>12. CASE Refunding
  BY <1>2, <1>3, <1>5, <1>6, <1>7, <1>8, <1>9, <1>10, <1>12, <1>13
  DEF Refunding
<1> QED
  BY <1>11, <1>12
  DEF Next, Guest, OpenSession, CreateBooking, Stripe, PaymentDeclined,
      PaymentCaptured, SessionExpires, Webhook, SkipJob, StartJob,
      CheckoutCompleted, CheckoutExpired, PaymentIntentSucceeded,
      PaymentIntentNotPaid, ChargeRefunded, JobFails, Seller, SellerSetsStatus,
      vars

\* A row with its PaymentIntent belongs to a booking that left PENDING for good.
LEMMA PaidLeavesPending ==
    ASSUME SellersKeepOut, TypeOK, TypeOK', Evidence, Evidence', MoneyBack,
           [Next]_vars
    PROVE  \A b \in Bookings : payment'[b].intent = "pi" => booking'[b] # "PENDING"
<1> USE DEF rowVars, stripeVars
<1> SUFFICES ASSUME NEW b \in Bookings, payment'[b].intent = "pi",
                    booking'[b] = "PENDING"
             PROVE  FALSE
  OBVIOUS
<1>1. session'[b] = "complete"
  BY DEF Evidence, RowTrue
<1>2. CASE booking'[b] # booking[b]
  <2>1. session[b] = "open" /\ session' = session
    BY <1>2, BookingChanges, ChangeLeavesSession DEF SellersKeepOut
  <2> QED BY <1>1, <2>1
<1>3. CASE booking'[b] = booking[b]
  <2>1. payment[b].intent # "pi" /\ payment[b].intent # payment'[b].intent
    BY <1>3 DEF MoneyBack
  <2>2. ASSUME NEW c \in Bookings, NEW s, payment' = SetPayment(c, s) PROVE FALSE
    BY <2>1, <2>2, SetPaymentKeepsIntent
  <2>3. ASSUME NEW w \in Workers, CheckoutCompleted(w) PROVE FALSE
    <3>1. worker[w].row.booking = b
      BY <2>1, <2>3 DEF CheckoutCompleted, TypeOK
    <3> QED BY <2>3, <3>1 DEF CheckoutCompleted, Confirm, TypeOK
  <2>4. ASSUME NEW w \in Workers, PaymentIntentSucceeded(w) PROVE FALSE
    BY <2>1, <2>4 DEF PaymentIntentSucceeded, TypeOK, PaymentRow
  <2>5. ASSUME NEW w \in Workers,
               \/ CheckoutExpired(w) \/ PaymentIntentNotPaid(w)
               \/ ChargeRefunded(w)
        PROVE  FALSE
    <3>1. worker[w].row.booking \in Bookings
      BY <2>5, JobRow DEF CheckoutExpired, PaymentIntentNotPaid,
                          ChargeRefunded, Running
    <3>2. UNCHANGED payment \/ \E s : payment' = SetPayment(worker[w].row.booking, s)
      BY <2>5 DEF CheckoutExpired, MarkRow, PaymentIntentNotPaid, ChargeRefunded
    <3> QED BY <2>1, <2>2, <3>1, <3>2
  <2>6. ASSUME NEW r \in Requests, CancelBooking(r) PROVE FALSE
    <3>1. request[r].booking \in Bookings
      BY <2>6 DEF CancelBooking, At, TypeOK, Request
    <3> QED BY <2>2, <2>6, <3>1 DEF CancelBooking
  <2> QED
    BY <2>1, <2>3, <2>4, <2>5, <2>6
    DEF Next, Guest, OpenSession, CreateBooking, Stripe, PaymentDeclined,
        PaymentCaptured, SessionExpires, Webhook, SkipJob, StartJob, JobFails,
        Refunding, CancelLoad, AdminRefund, CancelLookup, ReadRefundable,
        CreateRefund, RecordRefund, RequestFails, Seller, SellerSetsStatus,
        vars
<1> QED BY <1>2, <1>3

\* So the job of a failed or canceled payment finds no booking to cancel.
LEMMA FailuresCancelNothing ==
    ASSUME TypeOK, TypeOK', MoneyBack, [Next]_vars
    PROVE  \A w \in Workers :
              Running(w, {"failed", "canceled"})' => ~worker'[w].pending
<1> USE DEF rowVars, stripeVars
<1> SUFFICES ASSUME NEW w \in Workers, Running(w, {"failed", "canceled"})'
             PROVE  ~worker'[w].pending
  OBVIOUS
<1>1. CASE worker'[w] = worker[w]
  BY <1>1 DEF MoneyBack, Running, IdleWorker
<1>2. CASE worker'[w] # worker[w]
  <2>1. PICK e \in events : StartJob(w, e)
    <3>1. ASSUME NEW v \in Workers, worker' = [worker EXCEPT ![v] = IdleWorker]
          PROVE  FALSE
      BY <1>2, <3>1 DEF Running, TypeOK
    <3>2. ASSUME NEW v \in Workers,
                 \/ CheckoutCompleted(v) \/ CheckoutExpired(v)
                 \/ PaymentIntentSucceeded(v) \/ PaymentIntentNotPaid(v)
                 \/ ChargeRefunded(v) \/ JobFails(v)
          PROVE  FALSE
      BY <3>1, <3>2 DEF CheckoutCompleted, CheckoutExpired,
         PaymentIntentSucceeded, PaymentIntentNotPaid, ChargeRefunded,
         JobFails, Finish
    <3>3. ASSUME NEW v \in Workers, NEW e \in events, StartJob(v, e)
          PROVE  v = w
      BY <1>2, <3>3 DEF StartJob, TypeOK
    <3>4. worker' # worker
      BY <1>2
    <3>5. ASSUME Guest \/ Stripe \/ Refunding \/ Seller \/ UNCHANGED vars
          PROVE  FALSE
      BY <3>4, <3>5 DEF Guest, OpenSession, CreateBooking, Stripe,
         PaymentDeclined, PaymentCaptured, SessionExpires, Refunding,
         CancelLoad, AdminRefund, CancelLookup, ReadRefundable, CreateRefund,
         RecordRefund, CancelBooking, RequestFails, Seller, SellerSetsStatus,
         vars
    <3>6. ASSUME NEW e \in events, SkipJob(e) PROVE FALSE
      BY <3>4, <3>6 DEF SkipJob
    <3> QED BY <3>2, <3>3, <3>5, <3>6 DEF Next, Webhook
  <2>2. PICK row \in Matches(e) : worker' = [worker EXCEPT ![w] =
           [pc |-> "run", event |-> e, row |-> row,
            pending |-> row.type = "payment" /\ booking[row.booking] = "PENDING"]]
    BY <2>1 DEF StartJob
  <2> DEFINE p == row.type = "payment" /\ booking[row.booking] = "PENDING"
  <2>3. worker'[w].event = e /\ worker'[w].pending = p
    <3> HIDE DEF p
    <3>1. worker'[w] = [pc |-> "run", event |-> e, row |-> row, pending |-> p]
      BY <2>2 DEF p, TypeOK
    <3> QED BY <3>1
  <2>4. e \in Event /\ e.kind \in {"failed", "canceled"}
    BY <2>3 DEF TypeOK, Running
  <2>5. payment[row.booking].intent = "pi" /\ row.booking \in Bookings
    BY <2>4, MatchesBelong, MatchesAreRows DEF RowRef
  <2>6. ~p
    BY <2>5 DEF MoneyBack
  <2> QED BY <2>3, <2>6
<1> QED BY <1>1, <1>2

\* A booking is cancelled by a request that saw the whole price go back.
LEMMA CancelAfterRefund ==
    ASSUME SellersKeepOut, TypeOK, TypeOK', MoneyBack, [Next]_vars
    PROVE  CancelledMeansMoneyBack'
<1> USE DEF rowVars, stripeVars
<1> SUFFICES ASSUME NEW b \in Bookings, booking'[b] = "CANCELLED"
             PROVE  refunded'[b] = Price
  BY DEF CancelledMeansMoneyBack
<1>1. SUFFICES refunded[b] = Price
  BY RefundIsWhole
<1>2. CASE booking'[b] = booking[b]
  BY <1>2 DEF MoneyBack, CancelledMeansMoneyBack
<1>3. CASE booking'[b] # booking[b]
  <2>1. ASSUME NEW r \in Requests, CancelBooking(r) PROVE refunded[b] = Price
    <3>1. request[r].booking = b
      BY <1>3, <2>1 DEF CancelBooking, TypeOK
    <3> QED BY <2>1, <3>1 DEF CancelBooking, At, MoneyBack
  <2>2. ASSUME NEW w \in Workers, PaymentIntentNotPaid(w) PROVE FALSE
    BY <1>3, <2>2 DEF PaymentIntentNotPaid, MoneyBack
  <2>3. ASSUME NEW w \in Workers,
               \/ CheckoutCompleted(w) \/ PaymentIntentSucceeded(w)
               \/ CheckoutExpired(w)
        PROVE  FALSE
    BY <1>3, <2>3 DEF CheckoutCompleted, PaymentIntentSucceeded,
       CheckoutExpired, Confirm, ExpiredStatus, TypeOK
  <2>4. CASE Seller
    BY <1>3, <2>4 DEF Seller, SellerSetsStatus, TypeOK, SellersKeepOut
  <2> QED
    BY <1>3, <2>1, <2>2, <2>3, <2>4
    DEF Next, Guest, OpenSession, CreateBooking, Stripe, PaymentDeclined,
        PaymentCaptured, SessionExpires, Webhook, SkipJob, StartJob,
        ChargeRefunded, JobFails, Refunding, CancelLoad, AdminRefund,
        CancelLookup, ReadRefundable, CreateRefund, RecordRefund, RequestFails,
        vars, TypeOK
<1> QED BY <1>2, <1>3

\* A payment is marked FULLY_REFUNDED by such a request, or by an event that
\* says so.
LEMMA FullyAfterRefund ==
    ASSUME TypeOK, TypeOK', Evidence, MoneyBack, [Next]_vars
    PROVE  FullyRefundedMeansMoneyBack'
<1> USE DEF rowVars, stripeVars
<1> SUFFICES ASSUME NEW b \in Bookings, payment'[b].status = "FULLY_REFUNDED"
             PROVE  refunded'[b] = Price
  BY DEF FullyRefundedMeansMoneyBack
<1>1. SUFFICES refunded[b] = Price
  BY RefundIsWhole
<1>2. CASE payment'[b] = payment[b]
  BY <1>2 DEF MoneyBack, FullyRefundedMeansMoneyBack
<1>3. CASE payment'[b] # payment[b]
  <2>1. ASSUME NEW c \in Bookings, NEW s, payment' = SetPayment(c, s)
        PROVE  c = b /\ s = "FULLY_REFUNDED"
    BY <1>3, <2>1, SetPaymentKeepsIntent
  <2>2. ASSUME NEW r \in Requests, CancelBooking(r) PROVE refunded[b] = Price
    <3>1. request[r].booking \in Bookings
      BY <2>2 DEF CancelBooking, At, TypeOK, Request
    <3>2. request[r].booking = b
      BY <2>1, <2>2, <3>1 DEF CancelBooking
    <3> QED BY <2>2, <3>2 DEF CancelBooking, At, MoneyBack
  <2>3. ASSUME NEW w \in Workers, CheckoutExpired(w) \/ PaymentIntentNotPaid(w)
        PROVE  FALSE
    <3>1. worker[w].row.booking \in Bookings
      BY <2>3, JobRow DEF CheckoutExpired, PaymentIntentNotPaid, Running
    <3>2. UNCHANGED payment \/ \E s \in {"FAILED", "CANCELLED"} :
             payment' = SetPayment(worker[w].row.booking, s)
      BY <2>3 DEF CheckoutExpired, MarkRow, PaymentIntentNotPaid, NotPaidStatus
    <3> QED BY <1>3, <2>1, <3>1, <3>2
  <2>4. ASSUME NEW w \in Workers,
               CheckoutCompleted(w) \/ PaymentIntentSucceeded(w)
        PROVE  FALSE
    <3>1. worker[w].row.booking = b
      BY <1>3, <2>4 DEF CheckoutCompleted, PaymentIntentSucceeded, TypeOK
    <3> QED BY <2>4, <3>1
            DEF CheckoutCompleted, PaymentIntentSucceeded, TypeOK, PaymentRow
  <2>5. ASSUME NEW w \in Workers, ChargeRefunded(w) PROVE refunded[b] = Price
    <3> DEFINE row == worker[w].row
               total == worker[w].event.arg
               status == IF total = Price THEN "FULLY_REFUNDED"
                                          ELSE "PARTIALLY_REFUNDED"
    <3>1. /\ row.booking \in Bookings /\ total \in Nat
          /\ worker[w].event.booking \in Bookings
      BY <2>5, JobRow DEF ChargeRefunded, Running
    <3>2. row.type = "payment" /\ payment' = SetPayment(row.booking, status)
      BY <1>3, <2>5 DEF ChargeRefunded
    <3>3. row.booking = b /\ total = Price
      BY <2>1, <3>1, <3>2
    <3>4. total <= refunded[worker[w].event.booking]
          /\ worker[w].event.booking = b
      BY <2>5, <3>2, <3>3 DEF ChargeRefunded, Running, Evidence, JobTrue, EventTrue
    <3>5. refunded[b] \in {0, Price}
      BY DEF MoneyBack
    <3> QED BY <3>3, <3>4, <3>5, BookingPaymentAssumption
  <2> QED
    BY <1>3, <2>2, <2>3, <2>4, <2>5
    DEF Next, Guest, OpenSession, CreateBooking, Stripe, PaymentDeclined,
        PaymentCaptured, SessionExpires, Webhook, SkipJob, StartJob, JobFails,
        Refunding, CancelLoad, AdminRefund, CancelLookup, ReadRefundable,
        CreateRefund, RecordRefund, RequestFails, Seller, SellerSetsStatus,
        vars
<1> QED BY <1>2, <1>3

\* MoneyBack is inductive.
LEMMA MoneyBackHolds ==
    ASSUME WholeAmounts, SellersKeepOut
    PROVE  Spec => []MoneyBack
<1>1. Init => MoneyBack
  BY DEF Init, MoneyBack, IdleRequest, IdleWorker, Running,
         CancelledMeansMoneyBack, FullyRefundedMeansMoneyBack
<1>2. TypeOK /\ TypeOK' /\ Evidence /\ Evidence' /\ MoneyBack /\ [Next]_vars
        => MoneyBack'
  <2> SUFFICES ASSUME TypeOK, TypeOK', Evidence, Evidence', MoneyBack, [Next]_vars
               PROVE  MoneyBack'
    OBVIOUS
  <2>1. /\ CancelledMeansMoneyBack' /\ FullyRefundedMeansMoneyBack'
    BY CancelAfterRefund, FullyAfterRefund
  <2>2. \A b \in Bookings : payment'[b].intent = "pi" => booking'[b] # "PENDING"
    BY PaidLeavesPending
  <2>3. \A b \in Bookings : refunded'[b] \in {0, Price}
    BY RefundIsWhole
  <2> QED BY <2>1, <2>2, <2>3, RowsAreWhole, RequestsAreWhole,
             FailuresCancelNothing DEF MoneyBack
<1> QED BY <1>1, <1>2, TypeCorrect, EvidenceHolds, PTL DEF Spec

\* While admins refund whole payments and sellers write none of the statuses
\* above, the guest of a cancelled booking has all the money back.
THEOREM CancelledGetsMoneyBack ==
    ASSUME WholeAmounts, SellersKeepOut
    PROVE  Spec => []CancelledMeansMoneyBack
<1>1. MoneyBack => CancelledMeansMoneyBack
  BY DEF MoneyBack
<1> QED BY <1>1, MoneyBackHolds, PTL

\* Under the same conditions a payment marked FULLY_REFUNDED is.
THEOREM FullyRefundedGetsMoneyBack ==
    ASSUME WholeAmounts, SellersKeepOut
    PROVE  Spec => []FullyRefundedMeansMoneyBack
<1>1. MoneyBack => FullyRefundedMeansMoneyBack
  BY DEF MoneyBack
<1> QED BY <1>1, MoneyBackHolds, PTL
=============================================================================
