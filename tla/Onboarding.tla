----------------------------- MODULE Onboarding -----------------------------
(***************************************************************************)
(* A seller's account and customer at Stripe (stripe.service.ts): the link *)
(* that creates the account, the redirect and the status check that read   *)
(* it back, the account.updated events of the second webhook endpoint, and *)
(* the customer, created on demand.                                        *)
(*                                                                         *)
(* Stripe keeps what a rolled back transaction created there.  The row is  *)
(* read in one step, Stripe asked in the next and the row written in a     *)
(* third, each without a lock on the row.                                  *)
(***************************************************************************)
EXTENDS FiniteSets, Integers

CONSTANTS
    StripeRequests,   \* requests of the seller at once
    MaxAccounts,      \* bound: accounts, and customers, ever created at Stripe
    MaxChecks        \* bound: changes of an account by Stripe

ASSUME OnboardingAssumption ==
    /\ IsFiniteSet(StripeRequests)
    /\ MaxAccounts \in Nat /\ MaxChecks \in Nat

VARIABLES
    sellerRow,    \* the columns of the seller's row
    account,      \* account[a]: what Stripe says of the accounts 1..created
    customers,    \* customers created at Stripe
    updates,      \* account.updated events on their way, with their snapshot
    asking,       \* asking[r]: where request r stands
    rolledBack,   \* transactions that failed after creating something
    enabledOnce,  \* accounts Stripe has enabled at some time
    redirected,   \* the seller came back from Stripe's pages
    replaced,     \* a link replaced an account the row named by then
    checks        \* changes by Stripe so far

onboardingVars == <<sellerRow, account, customers, updates, asking, rolledBack,
                    enabledOnce, redirected, replaced, checks>>

(* details_submitted comes before charges_enabled and payouts_enabled. *)
StripeView == {"new", "submitted", "enabled"}
AccountIds == 1..MaxAccounts
created == Cardinality(DOMAIN account)

NotAsking == [pc |-> "idle"]
AskingAt == {"create account", "name account", "complete", "retrieve",
             "update status", "create customer", "name customer"}
Asking == [pc : AskingAt, id : 0..MaxAccounts, complete : BOOLEAN,
           doomed : BOOLEAN]

OnboardingTypeOK ==
    /\ sellerRow \in [account : 0..MaxAccounts, complete : BOOLEAN,
                      status : {"none", "pending", "onboarded", "active"},
                      customer : 0..MaxAccounts]
    /\ account \in UNION {[1..n -> StripeView] : n \in 0..MaxAccounts}
    /\ customers \in 0..MaxAccounts
    /\ updates \subseteq [account : AccountIds, view : StripeView]
    /\ asking \in [StripeRequests -> Asking \cup {NotAsking}]
    /\ rolledBack \in 0..(2 * MaxAccounts)
    /\ enabledOnce \subseteq AccountIds
    /\ redirected \in BOOLEAN /\ replaced \in BOOLEAN
    /\ checks \in 0..MaxChecks

OnboardingInit ==
    /\ sellerRow = [account |-> 0, complete |-> FALSE, status |-> "none",
                    customer |-> 0]
    /\ account = <<>> /\ customers = 0 /\ updates = {}
    /\ asking = [r \in StripeRequests |-> NotAsking]
    /\ rolledBack = 0 /\ enabledOnce = {} /\ checks = 0
    /\ redirected = FALSE /\ replaced = FALSE

-----------------------------------------------------------------------------
Asks(r, pc, id, complete, doomed) ==
    asking' = [asking EXCEPT ![r] = [pc |-> pc, id |-> id, complete |-> complete,
                                     doomed |-> doomed]]
Answered(r) == asking' = [asking EXCEPT ![r] = NotAsking]

OnStripe == UNCHANGED <<account, enabledOnce, checks>>

\* A slip: every link makes an account.
NeedsAlways == TRUE
NeedsAccount == sellerRow.account = 0

(* A seller who has an account gets another link to it, and no more. *)
StartLink(r) ==
    /\ asking[r] = NotAsking
    /\ NeedsAccount
    /\ Asks(r, "create account", 0, FALSE, FALSE)
    /\ UNCHANGED <<sellerRow, customers, updates, rolledBack, redirected, replaced>>
    /\ OnStripe

CreateAccount(r) ==
    /\ asking[r].pc = "create account"
    /\ created < MaxAccounts
    /\ account' = [a \in 1..(created + 1) |->
                      IF a = created + 1 THEN "new" ELSE account[a]]
    /\ Asks(r, "name account", created + 1, FALSE, FALSE)
    /\ UNCHANGED <<sellerRow, customers, updates, rolledBack, enabledOnce,
                   redirected, replaced, checks>>

(* The row names the account, or the link fails, or the transaction takes
   too long: then the account is Stripe's alone. *)
createHostOnboardingLink(r) ==
    /\ asking[r].pc = "name account"
    /\ \/ /\ sellerRow' = [sellerRow EXCEPT !.account = asking[r].id,
                                            !.status = "pending"]
          /\ replaced' = (replaced \/ sellerRow.account # 0)
          /\ UNCHANGED rolledBack
       \/ /\ rolledBack' = rolledBack + 1
          /\ UNCHANGED <<sellerRow, replaced>>
    /\ Answered(r)
    /\ UNCHANGED <<customers, updates, redirected>> /\ OnStripe

(* The redirect asks nobody: the seller may have left Stripe's pages early.
   It writes back the account it read. *)
StartComplete(r) ==
    /\ asking[r] = NotAsking
    /\ sellerRow.account # 0
    /\ Asks(r, "complete", sellerRow.account, FALSE, FALSE)
    /\ redirected' = TRUE
    /\ UNCHANGED <<sellerRow, customers, updates, rolledBack, replaced>>
    /\ OnStripe

onBoardComplete(r) ==
    /\ asking[r].pc = "complete"
    /\ sellerRow' = [sellerRow EXCEPT !.account = asking[r].id,
                                      !.status = "onboarded",
                                      !.complete = TRUE]
    /\ Answered(r)
    /\ UNCHANGED <<customers, updates, rolledBack, redirected, replaced>>
    /\ OnStripe

StartCheck(r) ==
    /\ asking[r] = NotAsking
    /\ sellerRow.account # 0
    /\ Asks(r, "retrieve", sellerRow.account, sellerRow.complete, FALSE)
    /\ UNCHANGED <<sellerRow, customers, updates, rolledBack, redirected, replaced>>
    /\ OnStripe

\* A slip: an account whose details are submitted counts as onboarded.
OnboardedEarly(view) == view # "new"
isOnboarded(view) == view = "enabled"

StatusOf(done) == IF done THEN "active" ELSE "pending"

(* The row is written only when the answer differs from what was read. *)
Retrieve(r) ==
    /\ asking[r].pc = "retrieve"
    /\ LET done == isOnboarded(account[asking[r].id])
       IN  IF done # asking[r].complete
           THEN Asks(r, "update status", asking[r].id, done, FALSE)
           ELSE Answered(r)
    /\ UNCHANGED <<sellerRow, customers, updates, rolledBack, redirected, replaced>>
    /\ OnStripe

checkHostOnboardingStatus(r) ==
    /\ asking[r].pc = "update status"
    /\ sellerRow' = [sellerRow EXCEPT !.complete = asking[r].complete,
                                      !.status = StatusOf(asking[r].complete)]
    /\ Answered(r)
    /\ UNCHANGED <<customers, updates, rolledBack, redirected, replaced>>
    /\ OnStripe

(* An event tells of the account as it was; it may come late, again, or
   after a newer one. *)
handleAccountUpdated(u) ==
    /\ u \in updates
    /\ sellerRow' = IF sellerRow.account = u.account
                    THEN [sellerRow EXCEPT !.complete = isOnboarded(u.view),
                                           !.status = StatusOf(isOnboarded(u.view))]
                    ELSE sellerRow
    /\ updates' \in {updates, updates \ {u}}
    /\ UNCHANGED <<customers, asking, rolledBack, redirected, replaced>>
    /\ OnStripe

(* Stripe reviews an account. *)
StripeReviews(a) ==
    /\ checks < MaxChecks /\ checks' = checks + 1
    /\ \E view \in StripeView \ {account[a], "new"} :
        /\ account' = [account EXCEPT ![a] = view]
        /\ updates' = updates \cup {[account |-> a, view |-> view]}
        /\ enabledOnce' = IF view = "enabled" THEN enabledOnce \cup {a}
                          ELSE enabledOnce
    /\ UNCHANGED <<sellerRow, customers, asking, rolledBack, redirected, replaced>>

(* Anyone who needs the customer looks for it first.  doomed: within
   createPaymentIntent, whose price of zero it always refuses later on. *)
StartCustomer(r, doomed) ==
    /\ asking[r] = NotAsking
    /\ sellerRow.customer = 0
    /\ Asks(r, "create customer", 0, FALSE, doomed)
    /\ UNCHANGED <<sellerRow, customers, updates, rolledBack, redirected, replaced>>
    /\ OnStripe

CreateCustomer(r) ==
    /\ asking[r].pc = "create customer"
    /\ customers < MaxAccounts
    /\ customers' = customers + 1
    /\ Asks(r, "name customer", customers + 1, FALSE, asking[r].doomed)
    /\ UNCHANGED <<sellerRow, updates, rolledBack, redirected, replaced>>
    /\ OnStripe

getOrCreateCustomer(r) ==
    /\ asking[r].pc = "name customer"
    /\ IF asking[r].doomed
       THEN rolledBack' = rolledBack + 1 /\ UNCHANGED sellerRow
       ELSE /\ sellerRow' = [sellerRow EXCEPT !.customer = asking[r].id]
            /\ UNCHANGED rolledBack
    /\ Answered(r)
    /\ UNCHANGED <<customers, updates, redirected, replaced>> /\ OnStripe

OnboardingNext ==
    \/ \E r \in StripeRequests :
        \/ StartLink(r) \/ CreateAccount(r) \/ createHostOnboardingLink(r)
        \/ StartComplete(r) \/ onBoardComplete(r)
        \/ StartCheck(r) \/ Retrieve(r) \/ checkHostOnboardingStatus(r)
        \/ \E doomed \in BOOLEAN : StartCustomer(r, doomed)
        \/ CreateCustomer(r) \/ getOrCreateCustomer(r)
    \/ \E u \in updates : handleAccountUpdated(u)
    \/ \E a \in DOMAIN account : StripeReviews(a)

OnboardingSpec == OnboardingInit /\ [][OnboardingNext]_onboardingVars

-----------------------------------------------------------------------------
(* Properties. *)

(* What is created at Stripe for one seller is bounded by the requests at
   once and by the transactions that were rolled back: links and payments
   do not pile up accounts and customers. *)
AccountsAreBounded ==
    created + customers <= 2 * Cardinality(StripeRequests) + rolledBack

(* A seller is active only when Stripe has enabled an account of theirs, and
   complete otherwise only after the redirect. *)
ActiveWasEnabled ==
    /\ sellerRow.status = "active" => enabledOnce # {}
    /\ sellerRow.complete => enabledOnce # {} \/ redirected

(* The flag that payouts ask for and the status that is shown agree, unless
   a second link replaced the account: that leaves the flag of the first. *)
FlagAgreesWithStatus ==
    replaced \/ (sellerRow.complete <=> sellerRow.status \in {"onboarded", "active"})

(* Accounts at Stripe do not pile up, and what a seller's row says of one
   was so (stripe.service). *)
OnboardingHolds == AccountsAreBounded /\ ActiveWasEnabled /\ FlagAgreesWithStatus
=============================================================================
