--------------------------- MODULE StripeEndpoint ---------------------------
(***************************************************************************)
(* The second webhook endpoint, POST stripe/webhook: stripe.service.ts     *)
(* handles the event before it answers, without WebhookEvent or queue, and *)
(* Stripe delivers an event that was answered by an error again.  Beside   *)
(* it run the jobs of the first endpoint, which BookingPayment models in   *)
(* detail, and confirmPaymentIntent.                                       *)
(*                                                                         *)
(* Every one of them finds the payment's row through what the row then     *)
(* calls its PaymentIntent: the session's id until the queue has handled   *)
(* checkout.session.completed, the PaymentIntent's id from then on.        *)
(***************************************************************************)
EXTENDS FiniteSets, Naturals

CONSTANTS
    Payments,     \* sessions of the checkout, each with the row it made
    MaxTries,     \* bound: deliveries of one event before Stripe gives up
    MaxFacts      \* bound: what happens at Stripe, over all payments

ASSUME EndpointAssumption ==
    IsFiniteSet(Payments) /\ MaxTries \in Nat /\ MaxFacts \in Nat

VARIABLES
    txn,          \* txn[p]: the row of payment p
    fact,         \* fact[p]: what has happened to p at Stripe
    incoming,     \* events for this endpoint, with the deliveries so far
    confirming    \* payments between retrieving and confirming their intent

endpointVars == <<txn, fact, incoming, confirming>>

(* REFUNDED stands for PARTIALLY_REFUNDED and FULLY_REFUNDED; nothing here
   writes REJECTED or CANCELLED. *)
RowStatus == {"PENDING", "PROCESSING", "SUCCESS", "FAILED", "REFUNDED", "DISPUTED"}
Fact == {"paid", "declined", "expired", "refused", "processing", "refunded",
         "disputed", "transferred"}

(* The events of this endpoint, with the fact each one tells of. *)
DirectEvents == {"session completed", "intent succeeded", "intent failed",
                 "transfer created", "dispute created"}
TellsOf ==
    [k \in DirectEvents |-> CASE k = "session completed" -> "paid"
                              [] k = "intent succeeded"  -> "paid"
                              [] k = "intent failed"     -> "declined"
                              [] k = "transfer created"  -> "transferred"
                              [] k = "dispute created"   -> "disputed"]

EndpointTypeOK ==
    /\ txn \in [Payments -> [status : RowStatus, key : {"session", "intent"},
                             charge : BOOLEAN, payout : BOOLEAN]]
    /\ fact \in [Payments -> SUBSET Fact]
    /\ incoming \subseteq [kind : DirectEvents, payment : Payments,
                           tries : 0..MaxTries]
    /\ confirming \subseteq Payments

EndpointInit ==
    /\ txn = [p \in Payments |-> [status |-> "PENDING", key |-> "session",
                                  charge |-> FALSE, payout |-> FALSE]]
    /\ fact = [p \in Payments |-> {}]
    /\ incoming = {} /\ confirming = {}

-----------------------------------------------------------------------------
(* What happens at Stripe. *)

EventsOf(p, kinds) == {[kind |-> k, payment |-> p, tries |-> 0] : k \in kinds}

facts == UNION {{<<p, f>> : f \in fact[p]} : p \in Payments}

Happens(p, f) ==
    /\ f \notin fact[p]
    /\ Cardinality(facts) < MaxFacts
    /\ fact' = [fact EXCEPT ![p] = @ \cup {f}]
    /\ incoming' = incoming \cup
                   EventsOf(p, {k \in DirectEvents : TellsOf[k] = f})

Possible(p, f) ==
    CASE f = "paid"     -> "expired" \notin fact[p]
      [] f = "declined" -> fact[p] \cap {"paid", "expired"} = {}
      [] f = "expired"  -> "paid" \notin fact[p]
      [] f \in {"refunded", "disputed", "transferred"} -> "paid" \in fact[p]
      [] OTHER          -> FALSE

StripeMoves(p) ==
    /\ \E f \in Fact : Possible(p, f) /\ Happens(p, f)
    /\ UNCHANGED <<txn, confirming>>

-----------------------------------------------------------------------------
(* The rows.  An id finds the row whose PaymentIntent it is now. *)

\* A slip: an id that is missing finds whichever row comes first.
FindAny(p, id) == Payments
Find(p, id) == IF txn[p].key = id THEN {p} ELSE {}

(* Whatever status the row has had, it is overwritten. *)
updateTransactionStatus(p, id, status) ==
    \E q \in Find(p, id) : txn' = [txn EXCEPT ![q].status = status]

-----------------------------------------------------------------------------
(* This endpoint.  An event that cannot be handled is answered by 500. *)

Answer(e) == incoming' = incoming \ {e}

Refuse(e) ==
    /\ incoming' = (incoming \ {e}) \cup
                   (IF e.tries + 1 < MaxTries
                    THEN {[e EXCEPT !.tries = @ + 1]} ELSE {})
    /\ UNCHANGED txn

IdOf(kind) == IF kind = "session completed" THEN "session" ELSE "intent"
StatusFor(kind) == IF kind = "intent failed" THEN "FAILED" ELSE "SUCCESS"

handlePayment(e) ==
    /\ e.kind \in {"session completed", "intent succeeded", "intent failed"}
    /\ IF Find(e.payment, IdOf(e.kind)) = {}
       THEN Refuse(e)
       ELSE /\ updateTransactionStatus(e.payment, IdOf(e.kind), StatusFor(e.kind))
            /\ Answer(e)
    /\ UNCHANGED <<fact, confirming>>

(* A transfer and a dispute find their row by the transfer's and the charge's
   id, then ask for its status to be changed by the row's own id, which is no
   PaymentIntent: not found.  Without a row there is nothing to do. *)
handleTransferCreated(e) ==
    /\ e.kind = "transfer created"
    /\ IF txn[e.payment].payout THEN Refuse(e)
                                ELSE Answer(e) /\ UNCHANGED txn
    /\ UNCHANGED <<fact, confirming>>

handleChargeDisputeCreated(e) ==
    /\ e.kind = "dispute created"
    /\ IF txn[e.payment].charge THEN Refuse(e)
                                ELSE Answer(e) /\ UNCHANGED txn
    /\ UNCHANGED <<fact, confirming>>

handleWebhook(e) ==
    handlePayment(e) \/ handleTransferCreated(e) \/ handleChargeDisputeCreated(e)

-----------------------------------------------------------------------------
(* confirmPaymentIntent: one step asks Stripe for the intent, the next
   confirms it, whatever has happened in between. *)

RetrieveIntent(p) ==
    /\ p \notin confirming
    /\ "paid" \notin fact[p]
    /\ confirming' = confirming \cup {p}
    /\ UNCHANGED <<txn, fact, incoming>>

ConfirmsAs(p) ==
    IF fact[p] \cap {"paid", "expired"} # {} THEN {"refused"}
    ELSE {"refused", "processing", "paid"}

ConfirmedStatus(f) ==
    CASE f = "paid"       -> "SUCCESS"
      [] f = "processing" -> "PROCESSING"
      [] f = "refused"    -> "FAILED"

(* Without a row the answer is an error, and the payment made all the same. *)
confirmPaymentIntent(p) ==
    /\ p \in confirming
    /\ confirming' = confirming \ {p}
    /\ \E f \in ConfirmsAs(p) :
        /\ IF f \in fact[p] THEN UNCHANGED <<fact, incoming>> ELSE Happens(p, f)
        /\ IF Find(p, "intent") = {}
           THEN UNCHANGED txn
           ELSE updateTransactionStatus(p, "intent", ConfirmedStatus(f))

-----------------------------------------------------------------------------
(* The other writers of the row: the jobs of the first endpoint, which run
   again and late, and the verification that records the payout. *)

QueueWrites(p, row) ==
    /\ txn' = [txn EXCEPT ![p] = row]
    /\ UNCHANGED <<fact, incoming, confirming>>

QueueCompleted(p) ==
    /\ "paid" \in fact[p]
    /\ QueueWrites(p, [txn[p] EXCEPT !.status = "SUCCESS", !.key = "intent"])

QueueExpired(p) ==
    /\ "expired" \in fact[p]
    /\ QueueWrites(p, [txn[p] EXCEPT !.status = "FAILED"])

QueueSucceeded(p) ==
    /\ "paid" \in fact[p] /\ txn[p].key = "intent"
    /\ QueueWrites(p, [txn[p] EXCEPT !.status = "SUCCESS", !.charge = TRUE])

QueueDeclined(p) ==
    /\ "declined" \in fact[p] /\ txn[p].key = "intent"
    /\ QueueWrites(p, [txn[p] EXCEPT !.status = "FAILED"])

QueueRefunded(p) ==
    /\ "refunded" \in fact[p] /\ txn[p].charge
    /\ QueueWrites(p, [txn[p] EXCEPT !.status = "REFUNDED"])

PayoutRecorded(p) ==
    /\ "transferred" \in fact[p]
    /\ QueueWrites(p, [txn[p] EXCEPT !.payout = TRUE])

EndpointNext ==
    \/ \E e \in incoming : handleWebhook(e)
    \/ \E p \in Payments :
        \/ StripeMoves(p)
        \/ RetrieveIntent(p) \/ confirmPaymentIntent(p)
        \/ QueueCompleted(p) \/ QueueExpired(p) \/ QueueSucceeded(p)
        \/ QueueDeclined(p) \/ QueueRefunded(p) \/ PayoutRecorded(p)

EndpointSpec == EndpointInit /\ [][EndpointNext]_endpointVars

-----------------------------------------------------------------------------
(* Properties. *)

Causes(status) ==
    CASE status = "PENDING"    -> Fact
      [] status = "PROCESSING" -> {"processing"}
      [] status = "SUCCESS"    -> {"paid"}
      [] status = "FAILED"     -> {"declined", "expired", "refused"}
      [] status = "REFUNDED"   -> {"refunded"}
      [] status = "DISPUTED"   -> {"disputed"}

(* Two endpoints, repeated and late events and confirmations write the rows,
   and each row says only what has happened to its own payment. *)
StatusHasCause ==
    \A p \in Payments :
        txn[p].status # "PENDING" => Causes(txn[p].status) \cap fact[p] # {}
=============================================================================
