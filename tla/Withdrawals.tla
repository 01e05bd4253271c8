----------------------------- MODULE Withdrawals -----------------------------
(***************************************************************************)
(* How a seller gets at the money earned: the balance computed from the    *)
(* rows, requests for a withdrawal, their approval or rejection by an      *)
(* admin, and payouts an admin makes by hand (stripe.service.ts,           *)
(* getHostBalance, createWithdrawalRequest, processWithdrawalApproval,     *)
(* processHostPayout), with the SELLER_PAYOUT rows the transfer.created    *)
(* handler writes (webhook.service.ts).  It is the account of one seller:  *)
(* every query selects the seller's rows.                                  *)
(*                                                                         *)
(* An approval moves the money and then calls createTransaction without a  *)
(* payer, which that function requires: it throws, and the transaction     *)
(* around it rolls back.  So no request becomes APPROVED, and the row of   *)
(* the transfer is the one the webhook creates.                            *)
(***************************************************************************)
EXTENDS Integers, FiniteSetsExt

CONSTANTS
    Withdrawals,  \* ids of withdrawal requests
    Amounts,      \* amounts that are asked for or paid
    Creators,     \* HTTP requests that ask for a withdrawal, at once
    Admins,       \* HTTP requests of admins, at once
    Workers,      \* webhook jobs that run at once
    MaxEarned,    \* bound: what the seller earns
    MaxTransfers  \* bound: transfers ever made

ASSUME WithdrawalsAssumption ==
    /\ IsFiniteSet(Withdrawals) /\ IsFiniteSet(Creators) /\ IsFiniteSet(Workers)
    /\ Amounts \subseteq Nat \ {0}
    /\ MaxEarned \in Nat /\ MaxTransfers \in Nat

VARIABLES
    earned,      \* sellerAmount of the BOOKING_PAYMENT rows that are SUCCESS
    onboarded,   \* User.stripeOnboardingComplete, with an account
    withdrawal,  \* withdrawal[i]: the WithdrawalRequest row
    creator,     \* creator[c]: where the request c of the seller stands
    admin,       \* admin[a]: where the request a of an admin stands
    transfer,    \* transfer[t]: the amount of the Stripe transfer t
    payee,       \* payee[t]: the withdrawal t was made for, if any
    events,      \* transfer.created events not yet PROCESSED
    worker,      \* worker[w]: the webhook job w is running
    payoutRows   \* payoutRows[t]: SELLER_PAYOUT rows, SUCCESS, that name t

vars == <<earned, onboarded, withdrawal, creator, admin, transfer, payee,
          events, worker, payoutRows>>

Status == {"none", "PENDING", "APPROVED", "REJECTED"}
Transfers == 1..MaxTransfers
NoWithdrawal == {}                       \* the payee of a payout by hand
Payee == {{i} : i \in Withdrawals} \cup {NoWithdrawal}

Idle == [pc |-> "idle"]
Creator == [pc : {"check", "create"}, amount : Amounts]
Admin == [pc : {"reject", "pay", "record"}, payee : Payee,
          amount : Amounts \cup {0}]
Job == [pc : {"record"}, transfer : Transfers, found : BOOLEAN]

WithdrawalTypeOK ==
    /\ earned \in 0..MaxEarned
    /\ onboarded \in BOOLEAN
    /\ withdrawal \in [Withdrawals -> [status : Status, amount : Amounts \cup {0}]]
    /\ creator \in [Creators -> Creator \cup {Idle}]
    /\ admin \in [Admins -> Admin \cup {Idle}]
    /\ transfer \in [Transfers -> Amounts \cup {0}]
    /\ payee \in [Transfers -> Payee]
    /\ events \subseteq Transfers
    /\ worker \in [Workers -> Job \cup {Idle}]
    /\ payoutRows \in [Transfers -> Nat]

Init ==
    /\ earned = 0
    /\ onboarded = FALSE
    /\ withdrawal = [i \in Withdrawals |-> [status |-> "none", amount |-> 0]]
    /\ creator = [c \in Creators |-> Idle]
    /\ admin = [a \in Admins |-> Idle]
    /\ transfer = [t \in Transfers |-> 0]
    /\ payee = [t \in Transfers |-> NoWithdrawal]
    /\ events = {}
    /\ worker = [w \in Workers |-> Idle]
    /\ payoutRows = [t \in Transfers |-> 0]

-----------------------------------------------------------------------------
(* Around the account                                                      *)

\* Payments become SUCCESS, and stop to be when they are refunded.
EarningsChange ==
    /\ earned' \in 0..MaxEarned
    /\ UNCHANGED <<onboarded, withdrawal, creator, admin, transfer, payee,
                   events, worker, payoutRows>>

\* onBoardComplete sets it; checkHostOnboardingStatus and account.updated copy
\* what Stripe says.  The account itself stays: its id is written by a
\* transaction of some seconds that found none, so not after transfers to it.
OnboardingChanges ==
    /\ onboarded' \in BOOLEAN
    /\ UNCHANGED <<earned, withdrawal, creator, admin, transfer, payee, events,
                   worker, payoutRows>>

-----------------------------------------------------------------------------
(* Asking for a withdrawal                                                 *)

Pending == {i \in Withdrawals : withdrawal[i].status = "PENDING"}

\* What was earned, less what was paid out and what is asked for already.
availableBalance ==
    earned - MapThenSumSet(LAMBDA t : payoutRows[t] * transfer[t], Transfers)
           - MapThenSumSet(LAMBDA i : withdrawal[i].amount, Pending)

ProceedCreator(c, q) == creator' = [creator EXCEPT ![c] = q]
AsksAt(c, pc) == creator[c] # Idle /\ creator[c].pc = pc

\* The balance is read in a transaction of its own.
AskForWithdrawal(c, n) ==
    /\ creator[c] = Idle
    /\ onboarded
    /\ n \in Amounts
    /\ n <= availableBalance
    /\ ProceedCreator(c, [pc |-> "check", amount |-> n])
    /\ UNCHANGED <<earned, onboarded, withdrawal, admin, transfer, payee,
                   events, worker, payoutRows>>

HasApproved == \E i \in Withdrawals : withdrawal[i].status = "APPROVED" \* a slip
HasPending == Pending # {}

\* One pending request at a time, as far as this transaction can see.
CheckPending(c) ==
    /\ AsksAt(c, "check")
    /\ ~HasPending
    /\ ProceedCreator(c, [creator[c] EXCEPT !.pc = "create"])
    /\ UNCHANGED <<earned, onboarded, withdrawal, admin, transfer, payee,
                   events, worker, payoutRows>>

CreateWithdrawal(c, i) ==
    /\ AsksAt(c, "create")
    /\ withdrawal[i].status = "none"
    /\ withdrawal' = [withdrawal EXCEPT
           ![i] = [status |-> "PENDING", amount |-> creator[c].amount]]
    /\ ProceedCreator(c, Idle)
    /\ UNCHANGED <<earned, onboarded, admin, transfer, payee, events, worker,
                   payoutRows>>

\* There is a pending request, a query fails or the process dies.
CreatorStops(c) ==
    /\ creator[c] # Idle
    /\ ProceedCreator(c, Idle)
    /\ UNCHANGED <<earned, onboarded, withdrawal, admin, transfer, payee,
                   events, worker, payoutRows>>

-----------------------------------------------------------------------------
(* The admin                                                               *)

ProceedAdmin(a, q) == admin' = [admin EXCEPT ![a] = q]
ActsAt(a, pc) == admin[a] # Idle /\ admin[a].pc = pc

\* processWithdrawalApproval loads the request and checks it.
LoadWithdrawal(a, i, approved) ==
    /\ admin[a] = Idle
    /\ withdrawal[i].status = "PENDING"
    /\ onboarded
    /\ ProceedAdmin(a, [pc |-> IF approved THEN "pay" ELSE "reject",
                        payee |-> {i}, amount |-> withdrawal[i].amount])
    /\ UNCHANGED <<earned, onboarded, withdrawal, creator, transfer, payee,
                   events, worker, payoutRows>>

\* processHostPayout: the admin gives the amount, no balance is looked at.
LoadHost(a, n) ==
    /\ admin[a] = Idle
    /\ onboarded
    /\ n \in Amounts
    /\ ProceedAdmin(a, [pc |-> "pay", payee |-> NoWithdrawal, amount |-> n])
    /\ UNCHANGED <<earned, onboarded, withdrawal, creator, transfer, payee,
                   events, worker, payoutRows>>

\* transfers.create.  No idempotency key: each call is a transfer of its own.
PaySeller(a, t) ==
    /\ ActsAt(a, "pay")
    /\ transfer[t] = 0
    /\ transfer' = [transfer EXCEPT ![t] = admin[a].amount]
    /\ payee' = [payee EXCEPT ![t] = admin[a].payee]
    /\ events' = events \cup {t}
    /\ ProceedAdmin(a, [admin[a] EXCEPT !.pc = "record"])
    /\ UNCHANGED <<earned, onboarded, withdrawal, creator, worker, payoutRows>>

RejectedStatusOfEmail == "DECLINED"      \* a slip: not a status of the table
RejectedStatus == "REJECTED"

\* The request is rejected by its id, whatever it has become.
RejectWithdrawal(a) ==
    /\ ActsAt(a, "reject")
    /\ withdrawal' = [i \in Withdrawals |->
           IF i \in admin[a].payee
           THEN [withdrawal[i] EXCEPT !.status = RejectedStatus]
           ELSE withdrawal[i]]
    /\ ProceedAdmin(a, Idle)
    /\ UNCHANGED <<earned, onboarded, creator, transfer, payee, events, worker,
                   payoutRows>>

\* createTransaction throws for want of a payer, whichever the payout was; or
\* Stripe refuses, a query fails, the process dies.
AdminStops(a) ==
    /\ admin[a] # Idle
    /\ ProceedAdmin(a, Idle)
    /\ UNCHANGED <<earned, onboarded, withdrawal, creator, transfer, payee,
                   events, worker, payoutRows>>

-----------------------------------------------------------------------------
(* transfer.created                                                        *)

NoRowEver(t) == FALSE                    \* a slip: the row is not looked for
RowMade(t) == payoutRows[t] > 0

FindPayout(w, t) ==
    /\ worker[w] = Idle
    /\ t \in events
    /\ worker' = [worker EXCEPT ![w] =
           [pc |-> "record", transfer |-> t, found |-> RowMade(t)]]
    /\ UNCHANGED <<earned, onboarded, withdrawal, creator, admin, transfer,
                   payee, events, payoutRows>>

\* A slip: only a row that exists is settled, as in stripe.service.ts.
SettlePayoutOnly(w) ==
    /\ worker[w] # Idle
    /\ worker' = [worker EXCEPT ![w] = Idle]
    /\ events' \in {events, events \ {worker[w].transfer}}
    /\ UNCHANGED <<earned, onboarded, withdrawal, creator, admin, transfer,
                   payee, payoutRows>>

\* The row found is settled, or one is created.  PROCESSED is written after
\* that: a crash in between leaves the event to be processed again.
SettlePayout(w) ==
    /\ worker[w] # Idle
    /\ LET t == worker[w].transfer IN
          /\ payoutRows' = IF worker[w].found THEN payoutRows
                           ELSE [payoutRows EXCEPT ![t] = @ + 1]
          /\ events' \in {events, events \ {t}}
    /\ worker' = [worker EXCEPT ![w] = Idle]
    /\ UNCHANGED <<earned, onboarded, withdrawal, creator, admin, transfer,
                   payee>>

JobFails(w) ==
    /\ worker[w] # Idle
    /\ worker' = [worker EXCEPT ![w] = Idle]
    /\ UNCHANGED <<earned, onboarded, withdrawal, creator, admin, transfer,
                   payee, events, payoutRows>>

-----------------------------------------------------------------------------
Seller(c) ==
    \/ \E n \in Amounts : AskForWithdrawal(c, n)
    \/ CheckPending(c)
    \/ \E i \in Withdrawals : CreateWithdrawal(c, i)
    \/ CreatorStops(c)

Deciding(a) ==
    \/ \E i \in Withdrawals, approved \in BOOLEAN : LoadWithdrawal(a, i, approved)
    \/ \E n \in Amounts : LoadHost(a, n)
    \/ \E t \in Transfers : PaySeller(a, t)
    \/ RejectWithdrawal(a) \/ AdminStops(a)

Webhook(w) ==
    \/ \E t \in Transfers : FindPayout(w, t)
    \/ SettlePayout(w) \/ JobFails(w)

Next ==
    \/ EarningsChange \/ OnboardingChanges
    \/ \E c \in Creators : Seller(c)
    \/ \E a \in Admins : Deciding(a)
    \/ \E w \in Workers : Webhook(w)

Spec == Init /\ [][Next]_vars

-----------------------------------------------------------------------------
(* Properties                                                              *)

\* The check for a pending request takes no lock, so requests made at once may
\* all pass it; but never more are pending than can be made at once, however
\* many are made, decided and made again (createWithdrawalRequest).
PendingIsBounded == Cardinality(Pending) <= Cardinality(Creators)

\* Money sent to the seller is not offered again: when its event is processed,
\* a transfer stands among the payouts the balance is computed from, though
\* every approval and every payout by hand fails after the transfer.
TransfersAreCounted ==
    \A t \in Transfers : transfer[t] > 0 /\ t \notin events => payoutRows[t] > 0

\* It is not counted again by events delivered again: at most the jobs that
\* looked for the row at once count a transfer (handleTransferCreated).
CountsAreBounded ==
    \A t \in Transfers : payoutRows[t] <= Cardinality(Workers)

\* A withdrawal request is paid once.
PaidOncePerRequest ==
    \A s, t \in Transfers :
        s # t /\ transfer[s] > 0 /\ transfer[t] > 0 =>
            payee[s] # payee[t] \/ payee[s] = NoWithdrawal
=============================================================================
