--------------------------- MODULE DeliveryProofs ---------------------------
(***************************************************************************)
(* Theorems about Delivery for every number of bookings, guests and        *)
(* verifications: the platform's fee is credited once, although a          *)
(* verification only looks for an earlier credit before it makes its own.  *)
(* The argument is the lock on the booking's row, held from the update of  *)
(* the booking to the commit.                                              *)
(***************************************************************************)
EXTENDS Delivery, BookingPaymentProofs

-----------------------------------------------------------------------------
(* Type correctness                                                        *)

\* The id of a new transfer is in range and no other transfer has it.
LEMMA NewTransferIsUnused ==
    ASSUME \E id \in 1..MaxTransfers : Unused(id), NEW b
    PROVE  NewTransfer(b) \in 1..MaxTransfers /\ Unused(NewTransfer(b))
  BY DEF NewTransfer

\* A verification past its transfer knows the transfer's id.
HasTransfer ==
    \A v \in Verifiers :
        verifier[v] # IdleVerifier /\ verifier[v].pc # "transfer" =>
            verifier[v].id \in 1..MaxTransfers

\* A verification that is running is one.
LEMMA VerifierType ==
    ASSUME DeliveryTypeOK, NEW v \in Verifiers, verifier[v] # IdleVerifier
    PROVE  /\ verifier[v] \in Verification
           /\ verifier[v].booking \in Bookings
           /\ verifier[v].seen \in BookingStatus
           /\ verifier[v].id \in 0..MaxTransfers
  BY DEF DeliveryTypeOK, Verification

\* No step of a verification leaves the types.
LEMMA VerifyingType ==
    ASSUME TypeOK, DeliveryTypeOK, HasTransfer, Verifying
    PROVE  DeliveryTypeOK'
<1>1. ASSUME NEW v \in Verifiers, NEW b \in Bookings, VerifyCode(v, b)
      PROVE  DeliveryTypeOK'
  <2>1. booking[b] \in BookingStatus
    BY <1>1 DEF VerifyCode, TypeOK
  <2>2. [pc |-> "transfer", booking |-> b, seen |-> booking[b], id |-> 0,
         credited |-> FALSE] \in Verification
    BY <2>1, DeliveryAssumption DEF Verification
  <2> QED BY <1>1, <2>2 DEF VerifyCode, Proceed, DeliveryTypeOK
<1>2. ASSUME NEW v \in Verifiers, TransferToSeller(v) PROVE DeliveryTypeOK'
  <2>1. verifier[v] \in Verification /\ verifier[v].booking \in Bookings
    BY <1>2, VerifierType DEF TransferToSeller, DoingAt
  <2> DEFINE b == verifier[v].booking
             id == NewTransfer(b)
             q == [verifier[v] EXCEPT !.pc = "mark", !.id = id]
  <2>2. id \in 1..MaxTransfers /\ id \in 0..MaxTransfers
    BY <1>2, NewTransferIsUnused DEF TransferToSeller
  <2>6. verifier' = [verifier EXCEPT ![v] = q]
    BY <1>2 DEF TransferToSeller, Proceed
  <2>5. /\ transfers' = transfers \cup {[id |-> id, booking |-> b,
               reversed |-> FALSE, refundedBefore |-> refunded[b]]}
        /\ transferEvents' = transferEvents \cup {id}
        /\ UNCHANGED <<code, rowLock, payoutRow, credits>>
    BY <1>2 DEF TransferToSeller
  <2> HIDE DEF id
  <2>3. q \in Verification
    BY <2>1, <2>2 DEF Verification
  <2>4. [id |-> id, booking |-> b, reversed |-> FALSE,
         refundedBefore |-> refunded[b]] \in Transfer
    BY <2>1, <2>2 DEF Transfer, TypeOK
  <2> HIDE DEF q
  <2> QED BY <2>2, <2>3, <2>4, <2>5, <2>6 DEF DeliveryTypeOK
<1>3. ASSUME NEW v \in Verifiers, MarkDelivered(v) PROVE DeliveryTypeOK'
  <2>1. verifier[v] \in Verification /\ verifier[v].booking \in Bookings
    BY <1>3, VerifierType DEF MarkDelivered, DoingAt
  <2> DEFINE p == credits[verifier[v].booking] > 0
             q == [verifier[v] EXCEPT !.pc = "commit", !.credited = p]
  <2>2. p \in BOOLEAN
    OBVIOUS
  <2> HIDE DEF p
  <2>3. q \in Verification
    BY <2>1, <2>2 DEF Verification
  <2>4. /\ verifier' = [verifier EXCEPT ![v] = q]
        /\ UNCHANGED <<code, transfers, transferEvents, payoutRow, credits>>
    BY <1>3 DEF MarkDelivered, Proceed, p
  <2>5. rowLock' \in [Bookings -> Verifiers \cup {NoVerifier}]
    BY <1>3 DEF MarkDelivered, DeliveryTypeOK
  <2> HIDE DEF q
  <2> QED BY <2>3, <2>4, <2>5 DEF DeliveryTypeOK
<1>4. ASSUME NEW v \in Verifiers, Unlock(v)
      PROVE  rowLock' \in [Bookings -> Verifiers \cup {NoVerifier}]
  BY <1>4 DEF Unlock, DeliveryTypeOK
<1>5. ASSUME NEW v \in Verifiers, CommitDelivery(v) PROVE DeliveryTypeOK'
  <2>1. verifier[v] \in Verification /\ verifier[v].booking \in Bookings
    BY <1>5, VerifierType DEF CommitDelivery, DoingAt
  <2>2. credits' \in [Bookings -> Nat]
    BY <1>5, <2>1 DEF CommitDelivery, DeliveryTypeOK
  <2>3. code' \in [Accounts -> BOOLEAN]
    BY <1>5 DEF CommitDelivery, DeliveryTypeOK
  <2>4. payoutRow' \subseteq PayoutRow
    BY <1>5, <2>1 DEF CommitDelivery, DoingAt, DeliveryTypeOK, HasTransfer,
       PayoutRow
  <2> QED BY <1>4, <1>5, <2>2, <2>3, <2>4
          DEF CommitDelivery, Proceed, DeliveryTypeOK
<1>6. ASSUME NEW v \in Verifiers, DeliveryRollsBack(v) PROVE DeliveryTypeOK'
  <2>1. verifier[v] \in Verification
    BY <1>6, VerifierType DEF DeliveryRollsBack, DoingAt
  <2>2. [verifier[v] EXCEPT !.pc = "reverse"] \in Verification
    BY <2>1 DEF Verification
  <2> QED BY <1>4, <1>6, <2>2 DEF DeliveryRollsBack, Proceed, DeliveryTypeOK
<1>7. ASSUME NEW v \in Verifiers, ReverseTransfer(v) PROVE DeliveryTypeOK'
  <2>1. transfers' \subseteq Transfer
    BY <1>7 DEF ReverseTransfer, DeliveryTypeOK, Transfer
  <2> QED BY <1>7, <2>1 DEF ReverseTransfer, Proceed, DeliveryTypeOK
<1>8. ASSUME NEW v \in Verifiers, VerifierStops(v) PROVE DeliveryTypeOK'
  BY <1>4, <1>8 DEF VerifierStops, Proceed, DeliveryTypeOK
<1> QED BY <1>1, <1>2, <1>3, <1>5, <1>6, <1>7, <1>8 DEF Verifying

\* A commit leaves the types of BookingPayment.
LEMMA CommitKeepsTypes ==
    ASSUME TypeOK, DeliveryTypeOK, NEW v \in Verifiers, CommitDelivery(v)
    PROVE  TypeOK'
<1>1. verifier[v].booking \in Bookings
  BY VerifierType DEF CommitDelivery, DoingAt
<1> QED BY <1>1 DEF CommitDelivery, TypeOK, stripeVars, BookingStatus

\* A step that does not commit a delivery is one of BookingPayment, or leaves
\* its variables alone.
LEMMA BookingSteps ==
    ASSUME [DNext]_allVars, \A v \in Verifiers : ~CommitDelivery(v)
    PROVE  [Next]_vars
  BY DEF DNext, allVars, GenerateCode, CodeExpires, Verifying, VerifyCode,
     TransferToSeller, MarkDelivered, DeliveryRollsBack, ReverseTransfer,
     VerifierStops, TransferCreated

\* Which it keeps.
LEMMA HasTransferStep ==
    ASSUME DeliveryTypeOK, HasTransfer, [DNext]_allVars
    PROVE  HasTransfer'
<1> SUFFICES ASSUME NEW w \in Verifiers, verifier'[w] # IdleVerifier,
                    verifier'[w].pc # "transfer"
             PROVE  verifier'[w].id \in 1..MaxTransfers
  BY DEF HasTransfer
<1>1. CASE verifier'[w] = verifier[w]
  BY <1>1 DEF HasTransfer
<1>2. ASSUME NEW v \in Verifiers, verifier'[w] # verifier[w],
             \/ \E b \in Bookings : VerifyCode(v, b)
             \/ CommitDelivery(v) \/ ReverseTransfer(v) \/ VerifierStops(v)
      PROVE  FALSE
  BY <1>2 DEF VerifyCode, CommitDelivery, ReverseTransfer, VerifierStops,
     Proceed, DeliveryTypeOK
<1>3. ASSUME NEW v \in Verifiers, verifier'[w] # verifier[w], TransferToSeller(v)
      PROVE  verifier'[w].id \in 1..MaxTransfers
  <2>1. verifier[v] \in Verification
    BY <1>3, VerifierType DEF TransferToSeller, DoingAt
  <2> DEFINE id == NewTransfer(verifier[v].booking)
  <2>2. id \in 1..MaxTransfers
    BY <1>3, NewTransferIsUnused DEF TransferToSeller
  <2>3. verifier'[w] = [verifier[v] EXCEPT !.pc = "mark", !.id = id]
    BY <1>3 DEF TransferToSeller, Proceed, DeliveryTypeOK
  <2> HIDE DEF id
  <2> QED BY <2>1, <2>2, <2>3 DEF Verification
<1>4. ASSUME NEW v \in Verifiers, verifier'[w] # verifier[w], MarkDelivered(v)
      PROVE  verifier'[w].id \in 1..MaxTransfers
  <2>1. verifier[v] \in Verification /\ verifier[v].id \in 1..MaxTransfers
    BY <1>4, VerifierType DEF MarkDelivered, DoingAt, HasTransfer
  <2> DEFINE p == credits[verifier[v].booking] > 0
  <2>2. verifier'[w] = [verifier[v] EXCEPT !.pc = "commit", !.credited = p]
    BY <1>4 DEF MarkDelivered, Proceed, DeliveryTypeOK
  <2> HIDE DEF p
  <2> QED BY <2>1, <2>2 DEF Verification
<1>5. ASSUME NEW v \in Verifiers, verifier'[w] # verifier[w], DeliveryRollsBack(v)
      PROVE  verifier'[w].id \in 1..MaxTransfers
  <2>1. verifier[v] \in Verification /\ verifier[v].id \in 1..MaxTransfers
    BY <1>5, VerifierType DEF DeliveryRollsBack, DoingAt, HasTransfer
  <2>2. verifier'[w] = [verifier[v] EXCEPT !.pc = "reverse"]
    BY <1>5 DEF DeliveryRollsBack, Proceed, DeliveryTypeOK
  <2> QED BY <2>1, <2>2 DEF Verification
<1> QED BY <1>1, <1>2, <1>3, <1>4, <1>5
        DEF DNext, allVars, dvars, GenerateCode, CodeExpires, Verifying,
            TransferCreated

\* Both modules' variables keep their types.
DTypes == TypeOK /\ DeliveryTypeOK /\ HasTransfer

LEMMA DTypesStep == DTypes /\ [DNext]_allVars => DTypes'
<1> SUFFICES ASSUME TypeOK, DeliveryTypeOK, HasTransfer, [DNext]_allVars
             PROVE  DTypes'
  BY DEF DTypes
<1>1. TypeOK' /\ HasTransfer'
  BY TypeStep, CommitKeepsTypes, BookingSteps, HasTransferStep
<1>2. ASSUME UNCHANGED dvars PROVE DeliveryTypeOK'
  BY <1>2 DEF dvars, DeliveryTypeOK
<1>3. ASSUME NEW b \in Bookings, GenerateCode(b) PROVE DeliveryTypeOK'
  BY <1>3 DEF GenerateCode, DeliveryTypeOK
<1>4. ASSUME NEW a \in Accounts, CodeExpires(a) PROVE DeliveryTypeOK'
  BY <1>4 DEF CodeExpires, DeliveryTypeOK
<1>5. ASSUME NEW id \in 1..MaxTransfers, TransferCreated(id)
      PROVE  DeliveryTypeOK'
  <2>1. [transfer |-> id, source |-> "webhook"] \in PayoutRow
    BY DEF PayoutRow
  <2>2. payoutRow' \subseteq PayoutRow
    BY <1>5, <2>1 DEF TransferCreated, DeliveryTypeOK
  <2>3. transferEvents' \subseteq 1..MaxTransfers
    BY <1>5 DEF TransferCreated, DeliveryTypeOK
  <2> QED BY <1>5, <2>2, <2>3 DEF TransferCreated, DeliveryTypeOK
<1> QED BY <1>1, <1>2, <1>3, <1>4, <1>5, VerifyingType
        DEF DNext, DTypes, allVars

LEMMA DTypesInit == DInit => DTypes
  BY TypeInit DEF DInit, DTypes, DeliveryTypeOK, HasTransfer

\* The variables of a delivery keep their types (UserOtp, AdminBalance and
\* SELLER_PAYOUT rows are well formed and transfers have ids of their own).
THEOREM DeliveryTypeCorrect == DSpec => []DeliveryTypeOK
<1>1. DTypes => DeliveryTypeOK
  BY DEF DTypes
<1> QED BY <1>1, DTypesInit, DTypesStep, PTL DEF DSpec

-----------------------------------------------------------------------------
(* One credit per booking                                                  *)

\* A transaction that updates the booking holds its row's lock until it
\* commits; what it saw of the booking's credit stays true that long.  A
\* verification that found the booking DELIVERED holds no lock, but comes after
\* a commit that made the credit.
CreditInv ==
    /\ CreditedOnce
    /\ \A b \in Bookings :
          booking[b] = "DELIVERED" /\ PlatformFee > 0 => credits[b] > 0
    /\ \A v \in Verifiers : verifier[v] # IdleVerifier =>
          LET q == verifier[v] IN
          /\ q.seen = "DELIVERED" /\ PlatformFee > 0 => credits[q.booking] > 0
          /\ q.pc = "commit" /\ q.credited => credits[q.booking] > 0
          /\ q.pc = "commit" =>
                IF q.seen = "DELIVERED"
                THEN PlatformFee > 0 => q.credited
                ELSE /\ rowLock[q.booking] = v
                     /\ q.credited \/ credits[q.booking] = 0

\* No step of BookingPayment delivers a booking, unless a seller's does.
LEMMA OnlyVerificationDelivers ==
    ASSUME "DELIVERED" \notin SellerStatuses, TypeOK, [Next]_vars,
           NEW b \in Bookings, booking'[b] = "DELIVERED"
    PROVE  booking[b] = "DELIVERED"
<1> USE DEF rowVars, stripeVars
<1>1. ASSUME NEW w \in Workers,
             \/ CheckoutCompleted(w) \/ CheckoutExpired(w)
             \/ PaymentIntentSucceeded(w) \/ PaymentIntentNotPaid(w)
      PROVE  booking[b] = "DELIVERED"
  BY <1>1 DEF CheckoutCompleted, CheckoutExpired, PaymentIntentSucceeded,
     PaymentIntentNotPaid, Confirm, ExpiredStatus, TypeOK
<1>2. ASSUME NEW r \in Requests, CancelBooking(r) PROVE booking[b] = "DELIVERED"
  BY <1>2 DEF CancelBooking, TypeOK
<1>3. ASSUME NEW c \in Bookings, CreateBooking(c) PROVE booking[b] = "DELIVERED"
  BY <1>3 DEF CreateBooking, TypeOK
<1>4. CASE Seller
  BY <1>4 DEF Seller, SellerSetsStatus, TypeOK
<1>5. CASE UNCHANGED booking
  BY <1>5
<1> QED
  BY <1>1, <1>2, <1>3, <1>4, <1>5
  DEF Next, Guest, OpenSession, Stripe, PaymentDeclined, PaymentCaptured,
      SessionExpires, Webhook, SkipJob, StartJob, ChargeRefunded, JobFails,
      Refunding, CancelLoad, AdminRefund, CancelLookup, ReadRefundable,
      CreateRefund, RecordRefund, RequestFails, vars

\* A commit credits the fee only to a booking that has no credit yet, and then
\* holds the lock on its row.
LEMMA CommitCredits ==
    ASSUME DTypes, CreditInv, NEW v \in Verifiers, CommitDelivery(v)
    PROVE  LET b == verifier[v].booking IN
           /\ b \in Bookings
           /\ PlatformFee > 0 => credits'[b] > 0
           /\ \A c \in Bookings : c # b => credits'[c] = credits[c]
           /\ \/ credits' = credits
              \/ credits[b] = 0 /\ credits'[b] = 1 /\ rowLock[b] = v
<1> DEFINE q == verifier[v]
<1>1. q \in Verification /\ q.booking \in Bookings /\ q.pc = "commit"
  BY VerifierType DEF CommitDelivery, DoingAt, DTypes
<1>2. credits[q.booking] \in Nat /\ credits \in [Bookings -> Nat]
  BY <1>1 DEF DTypes, DeliveryTypeOK
<1>3. CASE q.credited \/ ~(PlatformFee > 0)
  <2>1. credits' = credits
    BY <1>3 DEF CommitDelivery
  <2>2. PlatformFee > 0 => credits[q.booking] > 0
    BY <1>1, <1>2, <1>3 DEF CommitDelivery, DoingAt, CreditInv
  <2> QED BY <1>1, <2>1, <2>2
<1>4. CASE ~q.credited /\ PlatformFee > 0
  <2>1. credits' = [credits EXCEPT ![q.booking] = @ + 1]
    BY <1>4 DEF CommitDelivery
  <2>2. rowLock[q.booking] = v /\ credits[q.booking] = 0
    BY <1>1, <1>4 DEF CommitDelivery, DoingAt, CreditInv
  <2> QED BY <1>1, <1>2, <2>1, <2>2
<1> QED BY <1>3, <1>4

\* A credit, once there, stays; a booking that is not committed to keeps its own.
LEMMA CreditsStay ==
    ASSUME DTypes, CreditInv, [DNext]_allVars, NEW b \in Bookings
    PROVE  /\ credits[b] > 0 => credits'[b] > 0
           /\ credits'[b] <= 1
<1>1. credits[b] \in Nat /\ credits[b] <= 1
  BY DEF DTypes, DeliveryTypeOK, CreditInv, CreditedOnce
<1>2. ASSUME NEW v \in Verifiers, CommitDelivery(v)
      PROVE  credits'[b] = credits[b] \/ (credits[b] = 0 /\ credits'[b] = 1)
  BY <1>2, CommitCredits
<1>3. ASSUME \A v \in Verifiers : ~CommitDelivery(v)
      PROVE  credits' = credits
  BY <1>3
  DEF DNext, allVars, dvars, GenerateCode, CodeExpires, Verifying, VerifyCode,
      TransferToSeller, MarkDelivered, DeliveryRollsBack, ReverseTransfer,
      VerifierStops, TransferCreated
<1>4. credits'[b] = credits[b] \/ (credits[b] = 0 /\ credits'[b] = 1)
  BY <1>2, <1>3
<1> QED BY <1>1, <1>4

\* A delivered booking has its credit.
LEMMA DeliveredIsCredited ==
    ASSUME "DELIVERED" \notin SellerStatuses, DTypes, CreditInv, [DNext]_allVars,
           NEW b \in Bookings, booking'[b] = "DELIVERED", PlatformFee > 0
    PROVE  credits'[b] > 0
<1>1. CASE booking[b] = "DELIVERED"
  BY <1>1, CreditsStay DEF CreditInv
<1>2. CASE booking[b] # "DELIVERED"
  <2>1. PICK v \in Verifiers : CommitDelivery(v)
    BY <1>2, BookingSteps, OnlyVerificationDelivers DEF DTypes
  <2>2. verifier[v].booking = b
    BY <1>2, <2>1, CommitCredits DEF CommitDelivery, DTypes, TypeOK
  <2> QED BY <2>1, <2>2, CommitCredits
<1> QED BY <1>1, <1>2

\* What a verification knows when it takes a step of its own.
LEMMA StepKnows ==
    ASSUME DTypes, CreditInv, [DNext]_allVars, NEW v \in Verifiers,
           verifier'[v] # verifier[v], verifier'[v] # IdleVerifier
    PROVE  \/ /\ verifier'[v].booking \in Bookings
              /\ verifier'[v].seen = booking[verifier'[v].booking]
              /\ verifier'[v].pc = "transfer" /\ UNCHANGED credits
           \/ /\ verifier[v] # IdleVerifier
              /\ verifier'[v].booking = verifier[v].booking
              /\ verifier'[v].seen = verifier[v].seen
              /\ \/ verifier'[v].pc # "commit" /\ UNCHANGED credits
                 \/ MarkDelivered(v) /\ verifier'[v].pc = "commit" /\ UNCHANGED credits
                    /\ (verifier'[v].credited <=> credits[verifier[v].booking] > 0)
<1>1. ASSUME NEW b \in Bookings, VerifyCode(v, b)
      PROVE  /\ verifier'[v].booking \in Bookings
             /\ verifier'[v].seen = booking[verifier'[v].booking]
             /\ verifier'[v].pc = "transfer" /\ UNCHANGED credits
  BY <1>1 DEF VerifyCode, Proceed, DTypes, DeliveryTypeOK
<1>2. ASSUME TransferToSeller(v)
      PROVE  /\ verifier[v] # IdleVerifier
             /\ verifier'[v].booking = verifier[v].booking
             /\ verifier'[v].seen = verifier[v].seen
             /\ verifier'[v].pc # "commit" /\ UNCHANGED credits
  <2>1. verifier[v] \in Verification /\ verifier[v] # IdleVerifier
    BY <1>2, VerifierType DEF TransferToSeller, DoingAt, DTypes
  <2> DEFINE id == NewTransfer(verifier[v].booking)
  <2>2. verifier'[v] = [verifier[v] EXCEPT !.pc = "mark", !.id = id]
    BY <1>2 DEF TransferToSeller, Proceed, DTypes, DeliveryTypeOK
  <2> HIDE DEF id
  <2> QED BY <1>2, <2>1, <2>2 DEF TransferToSeller, Verification
<1>3. ASSUME MarkDelivered(v)
      PROVE  /\ verifier[v] # IdleVerifier
             /\ verifier'[v].booking = verifier[v].booking
             /\ verifier'[v].seen = verifier[v].seen
             /\ MarkDelivered(v) /\ verifier'[v].pc = "commit" /\ UNCHANGED credits
             /\ (verifier'[v].credited <=> credits[verifier[v].booking] > 0)
  <2>1. verifier[v] \in Verification /\ verifier[v] # IdleVerifier
    BY <1>3, VerifierType DEF MarkDelivered, DoingAt, DTypes
  <2> DEFINE p == credits[verifier[v].booking] > 0
  <2>2. verifier'[v] = [verifier[v] EXCEPT !.pc = "commit", !.credited = p]
    BY <1>3 DEF MarkDelivered, Proceed, DTypes, DeliveryTypeOK
  <2>3. UNCHANGED credits
    BY <1>3 DEF MarkDelivered
  <2>4. /\ verifier'[v].booking = verifier[v].booking
        /\ verifier'[v].seen = verifier[v].seen
        /\ verifier'[v].pc = "commit" /\ verifier'[v].credited = p
    <3> HIDE DEF p
    <3> QED BY <2>1, <2>2 DEF Verification
  <2> QED BY <1>3, <2>1, <2>3, <2>4
<1>4. ASSUME DeliveryRollsBack(v)
      PROVE  /\ verifier[v] # IdleVerifier
             /\ verifier'[v].booking = verifier[v].booking
             /\ verifier'[v].seen = verifier[v].seen
             /\ verifier'[v].pc # "commit" /\ UNCHANGED credits
  <2>1. verifier[v] \in Verification /\ verifier[v] # IdleVerifier
    BY <1>4, VerifierType DEF DeliveryRollsBack, DoingAt, DTypes
  <2>2. verifier'[v] = [verifier[v] EXCEPT !.pc = "reverse"]
    BY <1>4 DEF DeliveryRollsBack, Proceed, DTypes, DeliveryTypeOK
  <2> QED BY <1>4, <2>1, <2>2 DEF DeliveryRollsBack, Verification
<1>5. ASSUME CommitDelivery(v) \/ ReverseTransfer(v) \/ VerifierStops(v)
      PROVE  FALSE
  BY <1>5 DEF CommitDelivery, ReverseTransfer, VerifierStops, Proceed, DTypes,
     DeliveryTypeOK
<1>6. ASSUME NEW w \in Verifiers, w # v,
             \/ \E b \in Bookings : VerifyCode(w, b)
             \/ TransferToSeller(w) \/ MarkDelivered(w) \/ CommitDelivery(w)
             \/ DeliveryRollsBack(w) \/ ReverseTransfer(w) \/ VerifierStops(w)
      PROVE  FALSE
  BY <1>6 DEF VerifyCode, TransferToSeller, MarkDelivered, CommitDelivery,
     DeliveryRollsBack, ReverseTransfer, VerifierStops, Proceed, DTypes,
     DeliveryTypeOK
<1>7. CASE UNCHANGED verifier
  BY <1>7
<1>8. CASE Verifying
  BY <1>1, <1>2, <1>3, <1>4, <1>5, <1>6, <1>8 DEF Verifying
<1> QED BY <1>7, <1>8 DEF DNext, allVars, dvars, GenerateCode, CodeExpires,
                         TransferCreated

\* Nobody takes the lock of a transaction that goes on, so nobody credits its
\* booking.
LEMMA LockStays ==
    ASSUME DTypes, CreditInv, [DNext]_allVars, NEW v \in Verifiers,
           verifier[v] # IdleVerifier, verifier[v].pc = "commit",
           verifier'[v] = verifier[v], NEW b \in Bookings, rowLock[b] = v
    PROVE  rowLock'[b] = v /\ credits'[b] = credits[b]
<1> USE DEF DTypes, DeliveryTypeOK
<1>1. ASSUME NEW w \in Verifiers, MarkDelivered(w) PROVE rowLock'[b] = v
  BY <1>1, DeliveryAssumption DEF MarkDelivered
<1>2. ASSUME NEW w \in Verifiers,
             CommitDelivery(w) \/ DeliveryRollsBack(w) \/ VerifierStops(w)
      PROVE  w # v
  <2>1. ASSUME w = v, CommitDelivery(v) \/ VerifierStops(v) PROVE FALSE
    BY <2>1 DEF CommitDelivery, VerifierStops, Proceed
  <2>2. ASSUME w = v, DeliveryRollsBack(v) PROVE FALSE
    <3>1. verifier[v] \in Verification
      BY VerifierType
    <3>2. verifier'[v] = [verifier[v] EXCEPT !.pc = "reverse"]
      BY <2>2 DEF DeliveryRollsBack, Proceed
    <3> QED BY <3>1, <3>2 DEF Verification
  <2> QED BY <1>2, <2>1, <2>2
<1>3. ASSUME NEW w \in Verifiers,
             CommitDelivery(w) \/ DeliveryRollsBack(w) \/ VerifierStops(w)
      PROVE  rowLock'[b] = v
  BY <1>2, <1>3 DEF CommitDelivery, DeliveryRollsBack, VerifierStops, Unlock
<1>4. rowLock'[b] = v
  BY <1>1, <1>3
  DEF DNext, allVars, dvars, GenerateCode, CodeExpires, Verifying, VerifyCode,
      TransferToSeller, ReverseTransfer, TransferCreated
<1>5. ASSUME NEW w \in Verifiers, CommitDelivery(w)
      PROVE  credits'[b] = credits[b]
  BY <1>2, <1>5, CommitCredits
<1>6. ASSUME \A w \in Verifiers : ~CommitDelivery(w)
      PROVE  credits' = credits
  BY <1>6
  DEF DNext, allVars, dvars, GenerateCode, CodeExpires, Verifying, VerifyCode,
      TransferToSeller, MarkDelivered, DeliveryRollsBack, ReverseTransfer,
      VerifierStops, TransferCreated
<1> QED BY <1>4, <1>5, <1>6

\* CreditInv is inductive.
LEMMA CreditStep ==
    ASSUME "DELIVERED" \notin SellerStatuses, DTypes, DTypes', CreditInv,
           [DNext]_allVars
    PROVE  CreditInv'
<1>1. CreditedOnce'
  BY CreditsStay DEF CreditedOnce
<1>2. ASSUME NEW b \in Bookings, booking'[b] = "DELIVERED", PlatformFee > 0
      PROVE  credits'[b] > 0
  BY <1>2, DeliveredIsCredited
<1>3. ASSUME NEW v \in Verifiers, verifier'[v] # IdleVerifier
      PROVE  LET q == verifier'[v] IN
             /\ q.seen = "DELIVERED" /\ PlatformFee > 0 => credits'[q.booking] > 0
             /\ q.pc = "commit" /\ q.credited => credits'[q.booking] > 0
             /\ q.pc = "commit" =>
                   IF q.seen = "DELIVERED"
                   THEN PlatformFee > 0 => q.credited
                   ELSE /\ rowLock'[q.booking] = v
                        /\ q.credited \/ credits'[q.booking] = 0
  <2> DEFINE q == verifier'[v]
  <2>1. CASE verifier'[v] = verifier[v]
    <3>1. q.booking \in Bookings
      BY <1>3, <2>1, VerifierType DEF DTypes
    <3>2. credits[q.booking] > 0 => credits'[q.booking] > 0
      BY <3>1, CreditsStay
    <3>3. /\ q.seen = "DELIVERED" /\ PlatformFee > 0 => credits'[q.booking] > 0
          /\ q.pc = "commit" /\ q.credited => credits'[q.booking] > 0
          /\ q.pc = "commit" /\ q.seen = "DELIVERED" /\ PlatformFee > 0
                => q.credited
      BY <1>3, <2>1, <3>2 DEF CreditInv
    <3>4. ASSUME q.pc = "commit", q.seen # "DELIVERED"
          PROVE  /\ rowLock'[q.booking] = v
                 /\ q.credited \/ credits'[q.booking] = 0
      <4>1. /\ rowLock[q.booking] = v
            /\ q.credited \/ credits[q.booking] = 0
        BY <1>3, <2>1, <3>4 DEF CreditInv
      <4> QED BY <1>3, <2>1, <3>1, <3>4, <4>1, LockStays
    <3> QED BY <3>3, <3>4
  <2>2. CASE verifier'[v] # verifier[v]
    <3>1. CASE q.pc # "commit"
      <4>1. /\ credits' = credits
            /\ \/ q.booking \in Bookings /\ q.seen = booking[q.booking]
               \/ /\ verifier[v] # IdleVerifier
                  /\ q.booking = verifier[v].booking /\ q.seen = verifier[v].seen
        BY <1>3, <2>2, <3>1, StepKnows
      <4> QED BY <3>1, <4>1 DEF CreditInv
    <3>2. CASE q.pc = "commit"
      <4>1. /\ verifier[v] # IdleVerifier /\ credits' = credits
            /\ q.booking = verifier[v].booking /\ q.seen = verifier[v].seen
            /\ MarkDelivered(v)
            /\ q.credited <=> credits[q.booking] > 0
        BY <1>3, <2>2, <3>2, StepKnows
      <4>2. q.booking \in Bookings /\ credits[q.booking] \in Nat
        BY <4>1, VerifierType DEF DTypes, DeliveryTypeOK
      <4>3. q.seen # "DELIVERED" => rowLock'[q.booking] = v
        BY <4>1, <4>2 DEF MarkDelivered, MustMark, DTypes, DeliveryTypeOK
      <4>4. q.seen = "DELIVERED" /\ PlatformFee > 0 => credits[q.booking] > 0
        BY <4>1 DEF CreditInv
      <4>5. q.credited \/ credits[q.booking] = 0
        BY <4>1, <4>2
      <4>6. q.seen = "DELIVERED" /\ PlatformFee > 0 => q.credited
        BY <4>1, <4>4
      <4> QED BY <3>2, <4>1, <4>3, <4>4, <4>5, <4>6
    <3> QED BY <3>1, <3>2
  <2> QED BY <2>1, <2>2
<1> QED BY <1>1, <1>2, <1>3 DEF CreditInv

\* The platform's fee is credited once per booking however many verifications
\* of it run (verifyBookingCode), as long as no seller writes DELIVERED.
THEOREM CreditsOnce ==
    ASSUME "DELIVERED" \notin SellerStatuses
    PROVE  DSpec => []CreditedOnce
<1>1. DInit => CreditInv
  BY DEF DInit, Init, CreditInv, CreditedOnce
<1>2. CreditInv => CreditedOnce
  BY DEF CreditInv
<1>3. DTypes /\ DTypes' /\ CreditInv /\ [DNext]_allVars => CreditInv'
  BY CreditStep
<1> QED BY <1>1, <1>2, <1>3, DTypesInit, DTypesStep, PTL DEF DSpec

-----------------------------------------------------------------------------
(* Recorded payouts                                                        *)

\* A verification that has moved money.
Paying(v) == verifier[v] # IdleVerifier /\ verifier[v].pc # "transfer"

\* The row a verification writes when it commits.
RowOf(id) == [transfer |-> id, source |-> "verify"]

\* A transfer to b's seller that was not taken back.
Pays(b, id) == \E t \in transfers : t.id = id /\ t.booking = b /\ ~t.reversed

\* The transfer of a running verification stands, is nobody else's and is not
\* recorded yet: so a reversal takes back what no row names.
PayoutInv ==
    /\ RecordedPayoutsStand
    /\ \A v \in Verifiers : Paying(v) =>
          /\ Pays(verifier[v].booking, verifier[v].id)
          /\ RowOf(verifier[v].id) \notin payoutRow
          /\ \A w \in Verifiers :
                w # v /\ Paying(w) => verifier[w].id # verifier[v].id

\* A delivered booking's seller has a recorded transfer that stands.
PaidInv ==
    \A b \in Bookings : booking[b] = "DELIVERED" =>
        \E id \in 1..MaxTransfers : Pays(b, id) /\ RowOf(id) \in payoutRow

\* Most steps move no money, record no payout and start no reversal.
LEMMA OtherStepsPayNothing ==
    ASSUME DTypes, [DNext]_allVars,
           \A v \in Verifiers : ~TransferToSeller(v) /\ ~CommitDelivery(v)
                                /\ ~ReverseTransfer(v)
    PROVE  /\ transfers' = transfers
           /\ \A p \in payoutRow' : p.source = "verify" => p \in payoutRow
           /\ payoutRow \subseteq payoutRow'
           /\ \A v \in Verifiers : Paying(v)' =>
                 /\ Paying(v)
                 /\ verifier'[v].id = verifier[v].id
                 /\ verifier'[v].booking = verifier[v].booking
<1> DEFINE Same(v) == Paying(v)' => /\ Paying(v)
                                    /\ verifier'[v].id = verifier[v].id
                                    /\ verifier'[v].booking = verifier[v].booking
<1>1. ASSUME NEW v \in Verifiers, NEW w \in Verifiers, NEW b \in Bookings,
             VerifyCode(w, b)
      PROVE  Same(v)
  BY <1>1 DEF VerifyCode, Proceed, Paying, DTypes, DeliveryTypeOK
<1>2. ASSUME NEW v \in Verifiers, NEW w \in Verifiers, MarkDelivered(w)
      PROVE  Same(v)
  <2>1. verifier[w] \in Verification /\ Paying(w)
    BY <1>2, VerifierType DEF MarkDelivered, DoingAt, DTypes, Paying
  <2> DEFINE p == credits[verifier[w].booking] > 0
  <2>2. verifier' = [verifier EXCEPT ![w] =
                        [verifier[w] EXCEPT !.pc = "commit", !.credited = p]]
    BY <1>2 DEF MarkDelivered, Proceed
  <2> HIDE DEF p
  <2> QED BY <2>1, <2>2 DEF Verification, Paying, DTypes, DeliveryTypeOK
<1>3. ASSUME NEW v \in Verifiers, NEW w \in Verifiers, DeliveryRollsBack(w)
      PROVE  Same(v)
  <2>1. verifier[w] \in Verification /\ Paying(w)
    BY <1>3, VerifierType DEF DeliveryRollsBack, DoingAt, DTypes, Paying
  <2>2. verifier' = [verifier EXCEPT ![w] =
                        [verifier[w] EXCEPT !.pc = "reverse"]]
    BY <1>3 DEF DeliveryRollsBack, Proceed
  <2> QED BY <2>1, <2>2 DEF Verification, Paying, DTypes, DeliveryTypeOK
<1>4. ASSUME NEW v \in Verifiers, NEW w \in Verifiers, VerifierStops(w)
      PROVE  Same(v)
  BY <1>4 DEF VerifierStops, Proceed, Paying, DTypes, DeliveryTypeOK
<1>5. ASSUME verifier' = verifier, NEW v \in Verifiers PROVE Same(v)
  BY <1>5 DEF Paying
<1>6. \A v \in Verifiers : Same(v)
  BY <1>1, <1>2, <1>3, <1>4, <1>5
  DEF DNext, allVars, dvars, GenerateCode, CodeExpires, Verifying,
      TransferCreated
<1>7. transfers' = transfers
  BY DEF DNext, allVars, dvars, GenerateCode, CodeExpires, Verifying,
         VerifyCode, MarkDelivered, DeliveryRollsBack, VerifierStops,
         TransferCreated
<1>8. ASSUME NEW id \in 1..MaxTransfers, TransferCreated(id)
      PROVE  /\ \A p \in payoutRow' : p.source = "verify" => p \in payoutRow
             /\ payoutRow \subseteq payoutRow'
  BY <1>8 DEF TransferCreated
<1>9. /\ \A p \in payoutRow' : p.source = "verify" => p \in payoutRow
      /\ payoutRow \subseteq payoutRow'
  BY <1>8
  DEF DNext, allVars, dvars, GenerateCode, CodeExpires, Verifying,
      VerifyCode, MarkDelivered, DeliveryRollsBack, VerifierStops
<1> QED BY <1>6, <1>7, <1>9

\* Only a commit delivers a booking, and only its own.
LEMMA DeliveredBefore ==
    ASSUME "DELIVERED" \notin SellerStatuses, DTypes, [DNext]_allVars,
           NEW b \in Bookings, booking'[b] = "DELIVERED",
           booking[b] # "DELIVERED"
    PROVE  \E v \in Verifiers : CommitDelivery(v) /\ verifier[v].booking = b
<1>1. PICK v \in Verifiers : CommitDelivery(v)
  BY BookingSteps, OnlyVerificationDelivers DEF DTypes
<1>2. verifier[v].booking = b
  BY <1>1, VerifierType DEF CommitDelivery, DoingAt, DTypes, TypeOK
<1> QED BY <1>1, <1>2

LEMMA OtherStepsKeepPayouts ==
    ASSUME DTypes, PayoutInv, [DNext]_allVars,
           \A v \in Verifiers : ~TransferToSeller(v) /\ ~CommitDelivery(v)
                                /\ ~ReverseTransfer(v)
    PROVE  PayoutInv'
<1>1. /\ transfers' = transfers
      /\ \A p \in payoutRow' : p.source = "verify" => p \in payoutRow
      /\ payoutRow \subseteq payoutRow'
      /\ \A v \in Verifiers : Paying(v)' =>
            /\ Paying(v)
            /\ verifier'[v].id = verifier[v].id
            /\ verifier'[v].booking = verifier[v].booking
  BY OtherStepsPayNothing
<1>2. RecordedPayoutsStand'
  BY <1>1 DEF PayoutInv, RecordedPayoutsStand, Live
<1>3. ASSUME NEW v \in Verifiers, Paying(v)'
      PROVE  /\ Pays(verifier[v].booking, verifier[v].id)'
             /\ RowOf(verifier'[v].id) \notin payoutRow'
             /\ \A w \in Verifiers :
                   w # v /\ Paying(w)' => verifier'[w].id # verifier'[v].id
  <2>1. RowOf(verifier'[v].id) \notin payoutRow'
    BY <1>1, <1>3 DEF PayoutInv, RowOf
  <2> QED BY <1>1, <1>3, <2>1 DEF PayoutInv, Pays
<1> QED BY <1>2, <1>3 DEF PayoutInv

\* A new transfer has an id no verification and no row has.
LEMMA TransferKeepsPayouts ==
    ASSUME DTypes, PayoutInv, NEW v \in Verifiers, TransferToSeller(v)
    PROVE  PayoutInv'
<1> DEFINE b == verifier[v].booking
           id == NewTransfer(b)
           t == [id |-> id, booking |-> b, reversed |-> FALSE,
                 refundedBefore |-> refunded[b]]
<1>1. verifier[v] \in Verification /\ verifier[v] # IdleVerifier
  BY VerifierType DEF TransferToSeller, DoingAt, DTypes
<1>2. id \in 1..MaxTransfers /\ Unused(id)
  BY NewTransferIsUnused DEF TransferToSeller
<1>3. /\ transfers' = transfers \cup {t}
      /\ verifier' = [verifier EXCEPT ![v] =
                         [verifier[v] EXCEPT !.pc = "mark", !.id = id]]
      /\ UNCHANGED <<booking, payoutRow>>
  BY DEF TransferToSeller, Proceed, vars
<1>4. t.id = id /\ t.booking = b /\ ~t.reversed
  OBVIOUS
<1> HIDE DEF t, id
<1>5. /\ verifier'[v].id = id /\ verifier'[v].booking = b
      /\ \A w \in Verifiers : w # v => verifier'[w] = verifier[w]
  BY <1>1, <1>3 DEF Verification, DTypes, DeliveryTypeOK
<1>6. ASSUME NEW w \in Verifiers, Paying(w), w # v PROVE verifier[w].id # id
  BY <1>2, <1>6 DEF PayoutInv, Pays, Unused
<1>7. RowOf(id) \notin payoutRow
  BY <1>2 DEF PayoutInv, RecordedPayoutsStand, Live, RowOf, Unused
<1>8. RecordedPayoutsStand'
  BY <1>3 DEF PayoutInv, RecordedPayoutsStand, Live
<1>9. ASSUME NEW w \in Verifiers, Paying(w)'
      PROVE  /\ Pays(verifier[w].booking, verifier[w].id)'
             /\ RowOf(verifier'[w].id) \notin payoutRow'
             /\ \A u \in Verifiers :
                   u # w /\ Paying(u)' => verifier'[u].id # verifier'[w].id
  <2>1. CASE w = v
    BY <1>3, <1>4, <1>5, <1>6, <1>7, <2>1 DEF Pays, Paying
  <2>2. CASE w # v
    BY <1>3, <1>5, <1>6, <1>9, <2>2 DEF Pays, Paying, PayoutInv
  <2> QED BY <2>1, <2>2
<1> QED BY <1>8, <1>9 DEF PayoutInv

\* A commit records a transfer that stands, and its verification ends.
LEMMA CommitKeepsPayouts ==
    ASSUME DTypes, PayoutInv, NEW v \in Verifiers, CommitDelivery(v)
    PROVE  PayoutInv'
<1> DEFINE b == verifier[v].booking
           id == verifier[v].id
<1>1. verifier[v] \in Verification /\ Paying(v) /\ b \in Bookings
  BY VerifierType DEF CommitDelivery, DoingAt, DTypes, Paying
<1>2. id \in 1..MaxTransfers
  BY <1>1 DEF DTypes, HasTransfer, Paying
<1>3. Pays(b, id)
  BY <1>1 DEF PayoutInv
<1>4. /\ verifier' = [verifier EXCEPT ![v] = IdleVerifier]
      /\ payoutRow' = payoutRow \cup {RowOf(id)}
      /\ transfers' = transfers
  BY DEF CommitDelivery, Proceed, RowOf
<1>5. RecordedPayoutsStand'
  BY <1>3, <1>4 DEF PayoutInv, RecordedPayoutsStand, Live, Pays, RowOf
<1>6. ASSUME NEW w \in Verifiers, Paying(w)'
      PROVE  Paying(w) /\ verifier'[w] = verifier[w] /\ w # v
  BY <1>4, <1>6 DEF Paying, DTypes, DeliveryTypeOK
<1>7. ASSUME NEW w \in Verifiers, Paying(w)'
      PROVE  /\ Pays(verifier[w].booking, verifier[w].id)'
             /\ RowOf(verifier'[w].id) \notin payoutRow'
             /\ \A u \in Verifiers :
                   u # w /\ Paying(u)' => verifier'[u].id # verifier'[w].id
  <2>1. verifier[w].id # id /\ RowOf(verifier[w].id) \notin payoutRow
    BY <1>1, <1>6, <1>7 DEF PayoutInv
  <2>2. RowOf(verifier[w].id) # RowOf(id)
    BY <2>1 DEF RowOf
  <2>3. Pays(verifier[w].booking, verifier[w].id)'
    BY <1>4, <1>6, <1>7 DEF PayoutInv, Pays
  <2>4. \A u \in Verifiers :
           u # w /\ Paying(u)' => verifier'[u].id # verifier'[w].id
    BY <1>6, <1>7 DEF PayoutInv
  <2> QED BY <1>4, <1>6, <1>7, <2>1, <2>2, <2>3, <2>4
<1> QED BY <1>5, <1>7 DEF PayoutInv

\* A reversal takes back its own transfer, which no row names.
LEMMA ReversalKeepsPayouts ==
    ASSUME DTypes, PayoutInv, NEW v \in Verifiers, ReverseTransfer(v)
    PROVE  PayoutInv'
<1> DEFINE id == verifier[v].id
<1>1. Paying(v)
  BY DEF ReverseTransfer, DoingAt, Paying
<1>2. /\ verifier' = [verifier EXCEPT ![v] = IdleVerifier]
      /\ transfers' = {[t EXCEPT !.reversed = t.reversed \/ t.id = id] :
                          t \in transfers}
      /\ UNCHANGED <<payoutRow, booking>>
  BY DEF ReverseTransfer, Proceed, vars
<1>3. ASSUME NEW t \in transfers, t.id # id PROVE t \in transfers'
  <2>1. t \in Transfer
    BY <1>3 DEF DTypes, DeliveryTypeOK
  <2>2. [t EXCEPT !.reversed = t.reversed \/ t.id = id] = t
    BY <1>3, <2>1 DEF Transfer
  <2> QED BY <1>2, <2>2
<1>4. RowOf(id) \notin payoutRow
  BY <1>1 DEF PayoutInv
<1>6. ASSUME NEW p \in payoutRow, p.source = "verify"
      PROVE  p.transfer # id
  <2>1. p = RowOf(p.transfer)
    BY <1>6 DEF DTypes, DeliveryTypeOK, PayoutRow, RowOf
  <2> QED BY <1>4, <2>1
<1>7. RecordedPayoutsStand'
  BY <1>2, <1>3, <1>6 DEF PayoutInv, RecordedPayoutsStand, Live
<1>8. ASSUME NEW w \in Verifiers, Paying(w)'
      PROVE  Paying(w) /\ verifier'[w] = verifier[w] /\ w # v
  BY <1>2, <1>8 DEF Paying, DTypes, DeliveryTypeOK
<1>9. ASSUME NEW w \in Verifiers, Paying(w)'
      PROVE  /\ Pays(verifier[w].booking, verifier[w].id)'
             /\ RowOf(verifier'[w].id) \notin payoutRow'
             /\ \A u \in Verifiers :
                   u # w /\ Paying(u)' => verifier'[u].id # verifier'[w].id
  <2>1. verifier[w].id # id /\ verifier[w].id \in 1..MaxTransfers
    BY <1>1, <1>8, <1>9 DEF PayoutInv, DTypes, HasTransfer, Paying
  <2>2. PICK t \in transfers : /\ t.id = verifier[w].id /\ ~t.reversed
                               /\ t.booking = verifier[w].booking
    BY <1>8, <1>9 DEF PayoutInv, Pays
  <2>3. Pays(verifier[w].booking, verifier[w].id)'
    BY <1>3, <1>8, <1>9, <2>1, <2>2 DEF Pays
  <2>4. /\ RowOf(verifier'[w].id) \notin payoutRow'
        /\ \A u \in Verifiers :
              u # w /\ Paying(u)' => verifier'[u].id # verifier'[w].id
    BY <1>2, <1>8, <1>9 DEF PayoutInv
  <2> QED BY <2>3, <2>4
<1> QED BY <1>7, <1>9 DEF PayoutInv

LEMMA PayoutStep == DTypes /\ PayoutInv /\ [DNext]_allVars => PayoutInv'
  BY OtherStepsKeepPayouts, TransferKeepsPayouts, CommitKeepsPayouts,
     ReversalKeepsPayouts

LEMMA PayoutInit == DInit => PayoutInv
  BY DEF DInit, Init, PayoutInv, RecordedPayoutsStand, Paying

\* A recorded transfer that stands goes on to stand.
LEMMA PaidStaysPaid ==
    ASSUME DTypes, PayoutInv, [DNext]_allVars, NEW b \in Bookings,
           NEW id \in 1..MaxTransfers, Pays(b, id), RowOf(id) \in payoutRow
    PROVE  Pays(b, id)' /\ RowOf(id) \in payoutRow'
<1>1. CASE \A v \in Verifiers : ~TransferToSeller(v) /\ ~CommitDelivery(v)
                                /\ ~ReverseTransfer(v)
  BY <1>1, OtherStepsPayNothing DEF Pays
<1>2. ASSUME NEW v \in Verifiers, TransferToSeller(v) \/ CommitDelivery(v)
      PROVE  transfers \subseteq transfers' /\ payoutRow \subseteq payoutRow'
  BY <1>2 DEF TransferToSeller, CommitDelivery
<1>3. ASSUME NEW v \in Verifiers, ReverseTransfer(v)
      PROVE  Pays(b, id)' /\ RowOf(id) \in payoutRow'
  <2>1. Paying(v)
    BY <1>3 DEF ReverseTransfer, DoingAt, Paying
  <2>2. verifier[v].id # id
    BY <2>1 DEF PayoutInv
  <2>3. PICK t \in transfers : t.id = id /\ t.booking = b /\ ~t.reversed
    BY DEF Pays
  <2>4. [t EXCEPT !.reversed = t.reversed \/ t.id = verifier[v].id] = t
    BY <2>2, <2>3 DEF Transfer, DTypes, DeliveryTypeOK
  <2>5. t \in transfers' /\ payoutRow' = payoutRow
    BY <1>3, <2>3, <2>4 DEF ReverseTransfer
  <2> QED BY <2>3, <2>5 DEF Pays
<1> QED BY <1>1, <1>2, <1>3 DEF Pays

LEMMA PaidStep ==
    ASSUME "DELIVERED" \notin SellerStatuses, DTypes, PayoutInv, PaidInv,
           [DNext]_allVars
    PROVE  PaidInv'
<1> SUFFICES ASSUME NEW b \in Bookings, booking'[b] = "DELIVERED"
             PROVE  \E id \in 1..MaxTransfers :
                       Pays(b, id)' /\ RowOf(id) \in payoutRow'
  BY DEF PaidInv
<1>1. CASE booking[b] = "DELIVERED"
  BY <1>1, PaidStaysPaid DEF PaidInv
<1>2. CASE booking[b] # "DELIVERED"
  <2>1. PICK v \in Verifiers : CommitDelivery(v) /\ verifier[v].booking = b
    BY <1>2, DeliveredBefore
  <2>2. Paying(v)
    BY <2>1 DEF CommitDelivery, DoingAt, Paying
  <2>3. verifier[v].id \in 1..MaxTransfers /\ Pays(b, verifier[v].id)
    BY <2>1, <2>2 DEF PayoutInv, Paying, DTypes, HasTransfer
  <2>4. transfers' = transfers /\ RowOf(verifier[v].id) \in payoutRow'
    BY <2>1 DEF CommitDelivery, RowOf
  <2> QED BY <2>3, <2>4 DEF Pays
<1> QED BY <1>1, <1>2

\* The compensation of a failed verification never takes back a payout that a
\* verification recorded (the catch of verifyBookingCode), whatever sellers
\* write.
THEOREM RecordedPayouts == DSpec => []RecordedPayoutsStand
<1>1. PayoutInv => RecordedPayoutsStand
  BY DEF PayoutInv
<1> QED BY <1>1, PayoutInit, PayoutStep, DTypesInit, DTypesStep, PTL DEF DSpec

\* A delivered booking has paid its seller and credited its fee, as long as no
\* seller writes DELIVERED.
THEOREM DeliveredPaidOut ==
    ASSUME "DELIVERED" \notin SellerStatuses
    PROVE  DSpec => []DeliveredIsPaidOut
<1>1. DInit => CreditInv /\ PaidInv
  BY DEF DInit, Init, CreditInv, CreditedOnce, PaidInv
<1>2. DTypes /\ DTypes' /\ CreditInv /\ [DNext]_allVars => CreditInv'
  BY CreditStep
<1>3. DTypes /\ PayoutInv /\ PaidInv /\ [DNext]_allVars => PaidInv'
  BY PaidStep
<1>4. PaidInv /\ CreditInv => DeliveredIsPaidOut
  BY DEF PaidInv, CreditInv, DeliveredIsPaidOut, Pays, RowOf
<1> QED BY <1>1, <1>2, <1>3, <1>4, PayoutInit, PayoutStep, DTypesInit, DTypesStep,
           PTL DEF DSpec
=============================================================================
