-------------------------- MODULE WithdrawalsProofs --------------------------
(***************************************************************************)
(* Theorems about Withdrawals, for any number of requests, admins, webhook *)
(* jobs, withdrawals and transfers.                                        *)
(***************************************************************************)
EXTENDS Withdrawals, FiniteSetTheorems, TLAPS

(* The initial states are well typed. *)
LEMMA TypeInit == Init => WithdrawalTypeOK
<1> SUFFICES ASSUME Init PROVE WithdrawalTypeOK
  OBVIOUS
<1>1. [status |-> "none", amount |-> 0] \in
          [status : Status, amount : Amounts \cup {0}]
  BY DEF Status
<1>2. NoWithdrawal \in Payee
  BY DEF Payee
<1>3. /\ withdrawal \in [Withdrawals -> [status : Status, amount : Amounts \cup {0}]]
      /\ payee \in [Transfers -> Payee]
  BY <1>1, <1>2 DEF Init
<1>4. earned \in 0..MaxEarned /\ payoutRows \in [Transfers -> Nat]
  BY WithdrawalsAssumption DEF Init
<1> QED
  BY <1>3, <1>4 DEF Init, WithdrawalTypeOK

(* A step of a seller's request keeps the types. *)
LEMMA TypeSeller ==
    ASSUME WithdrawalTypeOK, NEW c \in Creators, Seller(c)
    PROVE  WithdrawalTypeOK'
<1> USE DEF Idle
<1>1. ASSUME NEW n \in Amounts, AskForWithdrawal(c, n)
      PROVE  WithdrawalTypeOK'
  <2>1. [pc |-> "check", amount |-> n] \in Creator
    BY DEF Creator
  <2> QED
    BY <1>1, <2>1 DEF WithdrawalTypeOK, AskForWithdrawal, ProceedCreator
<1>2. CASE CheckPending(c)
  <2>1. creator[c] \in Creator
    BY <1>2 DEF WithdrawalTypeOK, CheckPending, AsksAt
  <2>2. [creator[c] EXCEPT !.pc = "create"] \in Creator
    BY <2>1 DEF Creator
  <2> QED
    BY <1>2, <2>2 DEF WithdrawalTypeOK, CheckPending, ProceedCreator
<1>3. ASSUME NEW i \in Withdrawals, CreateWithdrawal(c, i)
      PROVE  WithdrawalTypeOK'
  <2>1. creator[c] \in Creator
    BY <1>3 DEF WithdrawalTypeOK, CreateWithdrawal, AsksAt
  <2>2. [status |-> "PENDING", amount |-> creator[c].amount] \in
            [status : Status, amount : Amounts \cup {0}]
    BY <2>1 DEF Creator, Status
  <2> QED
    BY <1>3, <2>2 DEF WithdrawalTypeOK, CreateWithdrawal, ProceedCreator
<1>4. CASE CreatorStops(c)
  BY <1>4 DEF WithdrawalTypeOK, CreatorStops, ProceedCreator
<1> QED
  BY <1>1, <1>2, <1>3, <1>4 DEF Seller

(* A step of an admin's request keeps the types. *)
LEMMA TypeDeciding ==
    ASSUME WithdrawalTypeOK, NEW a \in Admins, Deciding(a)
    PROVE  WithdrawalTypeOK'
<1> USE DEF Idle
<1>1. ASSUME NEW i \in Withdrawals, NEW approved \in BOOLEAN,
             LoadWithdrawal(a, i, approved)
      PROVE  WithdrawalTypeOK'
  <2> DEFINE q == [pc |-> IF approved THEN "pay" ELSE "reject",
                   payee |-> {i}, amount |-> withdrawal[i].amount]
  <2>1. withdrawal[i].amount \in Amounts \cup {0} /\ {i} \in Payee
    BY DEF WithdrawalTypeOK, Payee
  <2>2. q \in Admin
    BY <2>1 DEF Admin
  <2>3. admin' = [admin EXCEPT ![a] = q]
    BY <1>1 DEF LoadWithdrawal, ProceedAdmin
  <2> HIDE DEF q
  <2> QED
    BY <1>1, <2>2, <2>3 DEF WithdrawalTypeOK, LoadWithdrawal
<1>2. ASSUME NEW n \in Amounts, LoadHost(a, n)
      PROVE  WithdrawalTypeOK'
  <2>1. [pc |-> "pay", payee |-> NoWithdrawal, amount |-> n] \in Admin
    BY DEF Admin, Payee
  <2> QED
    BY <1>2, <2>1 DEF WithdrawalTypeOK, LoadHost, ProceedAdmin
<1>3. ASSUME NEW t \in Transfers, PaySeller(a, t)
      PROVE  WithdrawalTypeOK'
  <2>1. admin[a] \in Admin
    BY <1>3 DEF WithdrawalTypeOK, PaySeller, ActsAt
  <2>2. /\ admin[a].amount \in Amounts \cup {0}
        /\ admin[a].payee \in Payee
        /\ [admin[a] EXCEPT !.pc = "record"] \in Admin
    BY <2>1 DEF Admin
  <2> QED
    BY <1>3, <2>2 DEF WithdrawalTypeOK, PaySeller, ProceedAdmin
<1>4. CASE RejectWithdrawal(a)
  <2>1. \A i \in Withdrawals :
           [withdrawal[i] EXCEPT !.status = RejectedStatus] \in
               [status : Status, amount : Amounts \cup {0}]
    BY DEF WithdrawalTypeOK, RejectedStatus, Status
  <2>2. withdrawal' \in
            [Withdrawals -> [status : Status, amount : Amounts \cup {0}]]
    BY <1>4, <2>1 DEF WithdrawalTypeOK, RejectWithdrawal
  <2> QED
    BY <1>4, <2>2 DEF WithdrawalTypeOK, RejectWithdrawal, ProceedAdmin
<1>5. CASE AdminStops(a)
  BY <1>5 DEF WithdrawalTypeOK, AdminStops, ProceedAdmin
<1> QED
  BY <1>1, <1>2, <1>3, <1>4, <1>5 DEF Deciding

(* A step of a webhook job keeps the types. *)
LEMMA TypeWebhook ==
    ASSUME WithdrawalTypeOK, NEW w \in Workers, Webhook(w)
    PROVE  WithdrawalTypeOK'
<1> USE DEF Idle
<1>1. ASSUME NEW t \in Transfers, FindPayout(w, t)
      PROVE  WithdrawalTypeOK'
  <2> DEFINE found == RowMade(t)
  <2>1. found \in BOOLEAN
    BY DEF RowMade
  <2>2. worker' = [worker EXCEPT ![w] =
                      [pc |-> "record", transfer |-> t, found |-> found]]
    BY <1>1 DEF FindPayout
  <2> HIDE DEF found
  <2>3. [pc |-> "record", transfer |-> t, found |-> found] \in Job
    BY <2>1 DEF Job
  <2> QED
    BY <1>1, <2>2, <2>3 DEF WithdrawalTypeOK, FindPayout
<1>2. CASE SettlePayout(w)
  <2>1. worker[w].transfer \in Transfers
    BY <1>2 DEF WithdrawalTypeOK, SettlePayout, Job
  <2>2. payoutRows' \in [Transfers -> Nat]
    BY <1>2, <2>1 DEF WithdrawalTypeOK, SettlePayout
  <2>3. events' \subseteq Transfers
    BY <1>2 DEF WithdrawalTypeOK, SettlePayout
  <2> QED
    BY <1>2, <2>2, <2>3 DEF WithdrawalTypeOK, SettlePayout
<1>3. CASE JobFails(w)
  BY <1>3 DEF WithdrawalTypeOK, JobFails
<1> QED
  BY <1>1, <1>2, <1>3 DEF Webhook

(* Every reachable state of the account is well typed. *)
THEOREM WithdrawalTypeCorrect == Spec => []WithdrawalTypeOK
<1>1. WithdrawalTypeOK /\ [Next]_vars => WithdrawalTypeOK'
  <2> SUFFICES ASSUME WithdrawalTypeOK, [Next]_vars
               PROVE  WithdrawalTypeOK'
    OBVIOUS
  <2>1. CASE EarningsChange
    BY <2>1 DEF WithdrawalTypeOK, EarningsChange
  <2>2. CASE OnboardingChanges
    BY <2>2 DEF WithdrawalTypeOK, OnboardingChanges
  <2>3. CASE UNCHANGED vars
    BY <2>3 DEF WithdrawalTypeOK, vars
  <2> QED
    BY <2>1, <2>2, <2>3, TypeSeller, TypeDeciding, TypeWebhook DEF Next
<1> QED
  BY <1>1, TypeInit, PTL DEF Spec

-----------------------------------------------------------------------------
(* How many requests can be pending.                                       *)

\* The requests of the seller that found nothing pending and will create one.
Checked == {c \in Creators : AsksAt(c, "create")}

\* Inductive: who passes the check finds none pending, and from then on each
\* new pending withdrawal uses up one that passed.
PendingInv == Cardinality(Pending) + Cardinality(Checked) <= Cardinality(Creators)

(* Both sets are finite, Checked is no larger than Creators. *)
LEMMA PendingFinite ==
    /\ IsFiniteSet(Pending) /\ Cardinality(Pending) \in Nat
    /\ IsFiniteSet(Checked) /\ Cardinality(Checked) \in Nat
    /\ Cardinality(Checked) <= Cardinality(Creators)
    /\ Cardinality(Creators) \in Nat
<1>1. Pending \subseteq Withdrawals /\ Checked \subseteq Creators
  BY DEF Pending, Checked
<1> QED
  BY <1>1, FS_Subset, FS_CardinalityType, WithdrawalsAssumption

(* Fewer pending and fewer checked keep the bound. *)
LEMMA FewerPending ==
    ASSUME PendingInv, Pending' \subseteq Pending, Checked' \subseteq Checked
    PROVE  PendingInv'
<1>1. /\ Cardinality(Pending') <= Cardinality(Pending)
      /\ Cardinality(Checked') <= Cardinality(Checked)
      /\ Cardinality(Pending') \in Nat /\ Cardinality(Checked') \in Nat
  BY PendingFinite, FS_Subset, FS_CardinalityType
<1> QED
  BY <1>1, PendingFinite DEF PendingInv

(* A step keeps the bound. *)
LEMMA PendingStep ==
    ASSUME WithdrawalTypeOK, PendingInv, [Next]_vars
    PROVE  PendingInv'
<1>1. CASE EarningsChange \/ OnboardingChanges \/ UNCHANGED vars
  BY <1>1, FewerPending
     DEF EarningsChange, OnboardingChanges, vars, Pending, Checked, AsksAt
<1>2. ASSUME NEW c \in Creators, Seller(c)
      PROVE  PendingInv'
  <2>1. ASSUME NEW n \in Amounts, AskForWithdrawal(c, n)
        PROVE  PendingInv'
    <3>1. Pending' = Pending
      BY <2>1 DEF AskForWithdrawal, Pending
    <3>2. Checked' \subseteq Checked
      BY <2>1 DEF AskForWithdrawal, ProceedCreator, Checked, AsksAt, Idle,
                  WithdrawalTypeOK
    <3> QED
      BY <3>1, <3>2, FewerPending
  <2>2. CASE CheckPending(c)
    <3>1. Pending' = {}
      BY <2>2 DEF CheckPending, HasPending, Pending
    <3>2. Cardinality(Pending') = 0
      BY <3>1, FS_EmptySet
    <3>3. Cardinality(Checked') \in Nat
             /\ Cardinality(Checked') <= Cardinality(Creators)
      <4>1. Checked' \subseteq Creators
        BY DEF Checked
      <4> QED
        BY <4>1, FS_Subset, FS_CardinalityType, WithdrawalsAssumption
    <3> QED
      BY <3>2, <3>3, PendingFinite DEF PendingInv
  <2>3. ASSUME NEW i \in Withdrawals, CreateWithdrawal(c, i)
        PROVE  PendingInv'
    <3>1. i \notin Pending /\ Pending' = Pending \cup {i}
      BY <2>3 DEF CreateWithdrawal, Pending, WithdrawalTypeOK
    <3>2. c \in Checked /\ Checked' = Checked \ {c}
      BY <2>3 DEF CreateWithdrawal, ProceedCreator, Checked, AsksAt, Idle,
                  WithdrawalTypeOK
    <3>3. Cardinality(Pending') = Cardinality(Pending) + 1
      BY <3>1, PendingFinite, FS_AddElement
    <3>4. Cardinality(Checked') = Cardinality(Checked) - 1
      BY <3>2, PendingFinite, FS_RemoveElement
    <3> QED
      BY <3>3, <3>4, PendingFinite DEF PendingInv
  <2>4. CASE CreatorStops(c)
    <3>1. Pending' = Pending
      BY <2>4 DEF CreatorStops, Pending
    <3>2. Checked' \subseteq Checked
      BY <2>4 DEF CreatorStops, ProceedCreator, Checked, AsksAt, Idle,
                  WithdrawalTypeOK
    <3> QED
      BY <3>1, <3>2, FewerPending
  <2> QED
    BY <1>2, <2>1, <2>2, <2>3, <2>4 DEF Seller
<1>3. ASSUME NEW a \in Admins, Deciding(a)
      PROVE  PendingInv'
  <2>1. Checked' = Checked
    BY <1>3 DEF Deciding, LoadWithdrawal, LoadHost, PaySeller,
                RejectWithdrawal, AdminStops, Checked, AsksAt
  <2>2. CASE RejectWithdrawal(a)
    <3>1. Pending' \subseteq Pending
      BY <2>2 DEF RejectWithdrawal, RejectedStatus, Pending, WithdrawalTypeOK
    <3> QED
      BY <2>1, <3>1, FewerPending
  <2>3. CASE ~RejectWithdrawal(a)
    <3>1. Pending' = Pending
      BY <1>3, <2>3 DEF Deciding, LoadWithdrawal, LoadHost, PaySeller,
                        AdminStops, Pending
    <3> QED
      BY <2>1, <3>1, FewerPending
  <2> QED
    BY <2>2, <2>3
<1>4. ASSUME NEW w \in Workers, Webhook(w)
      PROVE  PendingInv'
  BY <1>4, FewerPending
     DEF Webhook, FindPayout, SettlePayout, JobFails, Pending, Checked, AsksAt
<1> QED
  BY <1>1, <1>2, <1>3, <1>4 DEF Next

(* Never are more withdrawals pending than can be asked for at once. *)
THEOREM PendingBounded == Spec => []PendingIsBounded
<1>1. Init => PendingInv
  <2> SUFFICES ASSUME Init PROVE PendingInv
    OBVIOUS
  <2>1. Pending = {} /\ Checked = {}
    BY DEF Init, Pending, Checked, AsksAt
  <2> QED
    BY <2>1, FS_EmptySet, PendingFinite DEF PendingInv
<1>2. PendingInv => PendingIsBounded
  BY PendingFinite DEF PendingInv, PendingIsBounded
<1>3. WithdrawalTypeOK /\ PendingInv /\ [Next]_vars => PendingInv'
  BY PendingStep
<1> QED
  BY <1>1, <1>2, <1>3, WithdrawalTypeCorrect, PTL DEF Spec

-----------------------------------------------------------------------------
(* The rows that count a transfer.                                         *)

\* The jobs that found no row for t and will create one.
Counting(t) ==
    {w \in Workers : /\ worker[w] # Idle
                     /\ worker[w].transfer = t /\ ~worker[w].found}

\* Inductive: what a job found is still there when it writes, an event is gone
\* only when there is a row, and a job that starts to count finds none yet.
CountInv ==
    /\ \A w \in Workers :
          worker[w] # Idle /\ worker[w].found => payoutRows[worker[w].transfer] > 0
    /\ \A t \in Transfers :
          /\ transfer[t] > 0 /\ t \notin events => payoutRows[t] > 0
          /\ payoutRows[t] + Cardinality(Counting(t)) <= Cardinality(Workers)

(* The jobs that count are finitely many. *)
LEMMA CountingFinite ==
    ASSUME NEW t \in Transfers
    PROVE  /\ IsFiniteSet(Counting(t)) /\ Cardinality(Counting(t)) \in Nat
           /\ Cardinality(Counting(t)) <= Cardinality(Workers)
           /\ Cardinality(Workers) \in Nat
<1>1. Counting(t) \subseteq Workers
  BY DEF Counting
<1> QED
  BY <1>1, FS_Subset, FS_CardinalityType, WithdrawalsAssumption

(* While rows stay, fewer jobs that count keep the bound. *)
LEMMA FewerCounting ==
    ASSUME NEW t \in Transfers, payoutRows[t] \in Nat,
           payoutRows'[t] = payoutRows[t], Counting(t)' \subseteq Counting(t),
           payoutRows[t] + Cardinality(Counting(t)) <= Cardinality(Workers)
    PROVE  payoutRows'[t] + Cardinality(Counting(t)') <= Cardinality(Workers)
<1>1. Cardinality(Counting(t)') \in Nat
         /\ Cardinality(Counting(t)') <= Cardinality(Counting(t))
  BY CountingFinite, FS_Subset, FS_CardinalityType
<1> QED
  BY <1>1, CountingFinite

(* A step of a webhook job keeps the counts. *)
LEMMA CountWebhook ==
    ASSUME WithdrawalTypeOK, CountInv, NEW w \in Workers, Webhook(w)
    PROVE  CountInv'
<1>1. \A t \in Transfers : payoutRows[t] \in Nat
  BY DEF WithdrawalTypeOK
<1>2. ASSUME NEW t \in Transfers, FindPayout(w, t)
      PROVE  CountInv'
  <2> DEFINE found == RowMade(t)
  <2>1. worker' = [worker EXCEPT ![w] =
                      [pc |-> "record", transfer |-> t, found |-> found]]
    BY <1>2 DEF FindPayout
  <2>2. found <=> payoutRows[t] > 0
    BY DEF RowMade
  <2>3. UNCHANGED <<transfer, events, payoutRows>> /\ worker[w] = Idle
    BY <1>2 DEF FindPayout
  <2> HIDE DEF found
  <2>4. \A v \in Workers : worker'[v] # Idle /\ worker'[v].found =>
                               payoutRows'[worker'[v].transfer] > 0
    BY <2>1, <2>2, <2>3 DEF CountInv, WithdrawalTypeOK
  <2>5. ASSUME NEW u \in Transfers
        PROVE  payoutRows'[u] + Cardinality(Counting(u)') <= Cardinality(Workers)
    <3>1. CASE u # t \/ found
      <4>1. Counting(u)' \subseteq Counting(u)
        BY <2>1, <3>1 DEF Counting, WithdrawalTypeOK
      <4> QED
        BY <1>1, <2>3, <4>1, FewerCounting DEF CountInv
    <3>2. CASE u = t /\ ~found
      <4>1. payoutRows'[u] = 0
        BY <1>1, <2>2, <2>3, <3>2
      <4>2. Counting(u)' \subseteq Workers
        BY DEF Counting
      <4>3. Cardinality(Counting(u)') \in Nat
               /\ Cardinality(Counting(u)') <= Cardinality(Workers)
        BY <4>2, FS_Subset, FS_CardinalityType, WithdrawalsAssumption
      <4> QED
        BY <4>1, <4>3, CountingFinite
    <3> QED
      BY <3>1, <3>2
  <2> QED
    BY <2>3, <2>4, <2>5 DEF CountInv
<1>3. CASE SettlePayout(w)
  <2> DEFINE t == worker[w].transfer
  <2>1. t \in Transfers /\ worker[w] # Idle /\ worker[w].found \in BOOLEAN
    BY <1>3 DEF SettlePayout, WithdrawalTypeOK, Job
  <2>2. /\ worker' = [worker EXCEPT ![w] = Idle]
        /\ transfer' = transfer
        /\ events' \in {events, events \ {t}}
        /\ payoutRows' = IF worker[w].found THEN payoutRows
                         ELSE [payoutRows EXCEPT ![t] = @ + 1]
    BY <1>3 DEF SettlePayout
  <2>3. \A u \in Transfers : payoutRows'[u] \in Nat /\ payoutRows'[u] >= payoutRows[u]
    BY <1>1, <2>1, <2>2 DEF WithdrawalTypeOK
  <2>4. payoutRows'[t] > 0
    BY <1>1, <2>1, <2>2 DEF CountInv, WithdrawalTypeOK
  <2>5. \A v \in Workers : worker'[v] # Idle => worker'[v] = worker[v] /\ v # w
    BY <2>2 DEF WithdrawalTypeOK
  <2>6. \A v \in Workers : worker'[v] # Idle => worker[v].transfer \in Transfers
    BY <2>5 DEF WithdrawalTypeOK, Job
  <2>7. \A v \in Workers : worker'[v] # Idle /\ worker'[v].found =>
                               payoutRows'[worker'[v].transfer] > 0
    BY <1>1, <2>3, <2>5, <2>6 DEF CountInv
  <2>8. ASSUME NEW u \in Transfers, transfer'[u] > 0, u \notin events'
        PROVE  payoutRows'[u] > 0
    BY <1>1, <2>2, <2>3, <2>4, <2>8 DEF CountInv
  <2>9. ASSUME NEW u \in Transfers
        PROVE  payoutRows'[u] + Cardinality(Counting(u)') <= Cardinality(Workers)
    <3>1. Counting(u)' \subseteq Counting(u)
      BY <2>5 DEF Counting
    <3>2. CASE payoutRows'[u] = payoutRows[u]
      BY <1>1, <3>1, <3>2, FewerCounting DEF CountInv
    <3>3. CASE payoutRows'[u] # payoutRows[u]
      <4>1. u = t /\ ~worker[w].found /\ payoutRows'[u] = payoutRows[u] + 1
        BY <2>1, <2>2, <3>3 DEF WithdrawalTypeOK
      <4>2. w \in Counting(u) /\ w \notin Counting(u)'
        BY <2>1, <2>5, <4>1 DEF Counting
      <4>3. Counting(u)' \subseteq Counting(u) \ {w}
        BY <3>1, <4>2
      <4>4. /\ IsFiniteSet(Counting(u) \ {w})
            /\ Cardinality(Counting(u) \ {w}) = Cardinality(Counting(u)) - 1
        BY <4>2, CountingFinite, FS_RemoveElement
      <4>5. /\ Cardinality(Counting(u)') <= Cardinality(Counting(u)) - 1
            /\ Cardinality(Counting(u)') \in Nat
        BY <4>3, <4>4, FS_Subset, FS_CardinalityType
      <4>6. payoutRows[u] + Cardinality(Counting(u)) <= Cardinality(Workers)
        BY DEF CountInv
      <4> HIDE DEF t
      <4> QED
        BY <1>1, <4>1, <4>5, <4>6, CountingFinite
    <3> QED
      BY <3>2, <3>3
  <2> QED
    BY <2>7, <2>8, <2>9 DEF CountInv
<1>4. CASE JobFails(w)
  <2>1. /\ UNCHANGED <<transfer, events, payoutRows>>
        /\ worker' = [worker EXCEPT ![w] = Idle]
    BY <1>4 DEF JobFails
  <2>2. \A v \in Workers : worker'[v] # Idle => worker'[v] = worker[v]
    BY <2>1 DEF WithdrawalTypeOK
  <2>3. \A t \in Transfers : Counting(t)' \subseteq Counting(t)
    BY <2>2 DEF Counting
  <2>4. \A t \in Transfers :
           payoutRows'[t] + Cardinality(Counting(t)') <= Cardinality(Workers)
    BY <1>1, <2>1, <2>3, FewerCounting DEF CountInv
  <2> QED
    BY <2>1, <2>2, <2>4 DEF CountInv
<1> QED
  BY <1>2, <1>3, <1>4 DEF Webhook

(* A step keeps the counts. *)
LEMMA CountStep ==
    ASSUME WithdrawalTypeOK, CountInv, [Next]_vars
    PROVE  CountInv'
<1>1. ASSUME NEW w \in Workers, Webhook(w)
      PROVE  CountInv'
  BY <1>1, CountWebhook
<1>2. ASSUME NEW a \in Admins, NEW t \in Transfers, PaySeller(a, t)
      PROVE  CountInv'
  <2>1. /\ UNCHANGED <<worker, payoutRows>>
        /\ events' = events \cup {t}
        /\ transfer' = [transfer EXCEPT ![t] = admin[a].amount]
    BY <1>2 DEF PaySeller
  <2>2. \A u \in Transfers : Counting(u)' = Counting(u)
    BY <2>1 DEF Counting
  <2> QED
    BY <2>1, <2>2 DEF CountInv, WithdrawalTypeOK
<1>3. CASE UNCHANGED <<transfer, events, worker, payoutRows>>
  <2>1. \A u \in Transfers : Counting(u)' = Counting(u)
    BY <1>3 DEF Counting
  <2> QED
    BY <1>3, <2>1 DEF CountInv
<1>4. CASE UNCHANGED vars
  BY <1>3, <1>4 DEF vars
<1>5. CASE EarningsChange \/ OnboardingChanges
  BY <1>3, <1>5 DEF EarningsChange, OnboardingChanges
<1>6. ASSUME NEW c \in Creators, Seller(c)
      PROVE  CountInv'
  BY <1>3, <1>6 DEF Seller, AskForWithdrawal, CheckPending, CreateWithdrawal,
                    CreatorStops
<1>7. ASSUME NEW a \in Admins, Deciding(a)
      PROVE  CountInv'
  BY <1>2, <1>3, <1>7 DEF Deciding, LoadWithdrawal, LoadHost, RejectWithdrawal,
                          AdminStops
<1> QED
  BY <1>1, <1>4, <1>5, <1>6, <1>7 DEF Next

(* The invariant on the counts. *)
LEMMA CountInvariant == Spec => []CountInv
<1>1. Init => CountInv
  <2> SUFFICES ASSUME Init PROVE CountInv
    OBVIOUS
  <2>1. \A t \in Transfers : Counting(t) = {}
    BY DEF Init, Counting
  <2> QED
    BY <2>1, FS_EmptySet, CountingFinite DEF Init, CountInv
<1>2. WithdrawalTypeOK /\ CountInv /\ [Next]_vars => CountInv'
  BY CountStep
<1> QED
  BY <1>1, <1>2, WithdrawalTypeCorrect, PTL DEF Spec

(* A transfer whose event is processed has a row that counts it. *)
THEOREM TransfersCounted == Spec => []TransfersAreCounted
<1>1. CountInv => TransfersAreCounted
  BY DEF CountInv, TransfersAreCounted
<1> QED
  BY <1>1, CountInvariant, PTL

(* No transfer has more rows than there are webhook jobs at once. *)
THEOREM CountsBounded == Spec => []CountsAreBounded
<1>1. WithdrawalTypeOK /\ CountInv => CountsAreBounded
  <2> SUFFICES ASSUME WithdrawalTypeOK, CountInv, NEW t \in Transfers
               PROVE  payoutRows[t] <= Cardinality(Workers)
    BY DEF CountsAreBounded
  <2>1. payoutRows[t] \in Nat
    BY DEF WithdrawalTypeOK
  <2> QED
    BY <2>1, CountingFinite DEF CountInv
<1> QED
  BY <1>1, CountInvariant, WithdrawalTypeCorrect, PTL
=============================================================================
