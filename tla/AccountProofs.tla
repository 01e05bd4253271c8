---------------------------- MODULE AccountProofs ----------------------------
(***************************************************************************)
(* Theorems about a member's account (Accounts), a seller's account and    *)
(* customer at Stripe (Onboarding) and the second webhook endpoint         *)
(* (StripeEndpoint), for any number of requests, codes and payments.       *)
(***************************************************************************)
EXTENDS Accounts, Onboarding, StripeEndpoint, FiniteSetTheorems, TLAPS

-----------------------------------------------------------------------------
(* Onboarding: what the rows and the requests know                         *)

AccountsAt(n) == n \in 0..MaxAccounts /\ account \in [1..n -> StripeView]

\* An account a request or the row names exists; what a request is about to
\* write of it Stripe has said; and the row names an account before anything is
\* said of one.
AskingInv(q) ==
    /\ q.pc \in {"name account", "complete", "retrieve", "update status"} =>
          q.id \in DOMAIN account
    /\ q.pc \in {"complete", "retrieve", "update status"} =>
          sellerRow.account # 0
    /\ q.pc = "complete" => redirected = TRUE
    /\ q.pc = "update status" /\ q.complete = TRUE => enabledOnce # {}
    /\ q.pc = "name customer" => q.id # 0

RowInv ==
    /\ sellerRow.account \in DOMAIN account \cup {0}
    /\ sellerRow.account = 0 => sellerRow.complete = FALSE /\ sellerRow.status = "none"

\* What is to be proved of the row, with its Boolean columns as values.
ActiveInv ==
    /\ sellerRow.status = "active" => enabledOnce # {}
    /\ sellerRow.complete = TRUE => enabledOnce # {} \/ redirected = TRUE

FlagInv ==
    \/ replaced = TRUE
    \/ sellerRow.complete = TRUE <=> sellerRow.status \in {"onboarded", "active"}

StripeInv ==
    /\ \A a \in DOMAIN account : account[a] = "enabled" => enabledOnce # {}
    /\ \A u \in updates : u.view = "enabled" => enabledOnce # {}

SellerRow == [account : 0..MaxAccounts, complete : BOOLEAN,
              status : {"none", "pending", "onboarded", "active"},
              customer : 0..MaxAccounts]

\* The type, but for the bound of rolledBack, which counting gives.
OnboardingTypes ==
    /\ sellerRow \in SellerRow
    /\ \E n \in Nat : AccountsAt(n)
    /\ customers \in 0..MaxAccounts
    /\ updates \subseteq [account : AccountIds, view : StripeView]
    /\ asking \in [StripeRequests -> Asking \cup {NotAsking}]
    /\ rolledBack \in Nat
    /\ enabledOnce \subseteq AccountIds
    /\ redirected \in BOOLEAN /\ replaced \in BOOLEAN
    /\ checks \in 0..MaxChecks

OnboardingInv ==
    /\ OnboardingTypes
    /\ RowInv /\ StripeInv
    /\ \A r \in StripeRequests : AskingInv(asking[r])
    /\ ActiveInv /\ FlagInv

LEMMA CreatedIs ==
    ASSUME NEW n \in Nat, AccountsAt(n)
    PROVE  DOMAIN account = 1..n /\ created = n
<1>1. DOMAIN account = 1..n
  BY DEF AccountsAt
<1>2. Cardinality(1..n) = n
  BY FS_Interval
<1> QED BY <1>1, <1>2 DEF created

LEMMA OnboardingInvInit == OnboardingInit => OnboardingInv
<1> SUFFICES ASSUME OnboardingInit PROVE OnboardingInv
  OBVIOUS
<1>1. AccountsAt(0)
  <2>1. 1..0 = {}
    OBVIOUS
  <2>2. <<>> \in [{} -> StripeView]
    OBVIOUS
  <2> QED BY <2>1, <2>2, OnboardingAssumption DEF AccountsAt, OnboardingInit
<1>2. sellerRow \in SellerRow
  BY OnboardingAssumption DEF OnboardingInit, SellerRow
<1>3. customers \in 0..MaxAccounts /\ checks \in 0..MaxChecks /\ rolledBack \in Nat
  BY OnboardingAssumption DEF OnboardingInit
<1>4. OnboardingTypes
  BY <1>1, <1>2, <1>3 DEF OnboardingTypes, OnboardingInit
<1>5. StripeInv
  BY DEF StripeInv, OnboardingInit
<1>6. \A r \in StripeRequests : AskingInv(asking[r])
  BY DEF OnboardingInit, AskingInv, NotAsking
<1> QED BY <1>4, <1>5, <1>6
        DEF OnboardingInv, RowInv, ActiveInv, FlagInv,
            OnboardingInit

\* A request goes on to a state its invariant holds of, and the rest stays.
LEMMA AskingStays ==
    ASSUME OnboardingInv, NEW r \in StripeRequests,
           NEW q \in Asking \cup {NotAsking},
           asking' = [asking EXCEPT ![r] = q], AskingInv(q)',
           DOMAIN account \subseteq DOMAIN account',
           sellerRow.account # 0 => sellerRow'.account # 0,
           redirected = TRUE => redirected' = TRUE, enabledOnce \subseteq enabledOnce'
    PROVE  /\ asking' \in [StripeRequests -> Asking \cup {NotAsking}]
           /\ \A s \in StripeRequests : AskingInv(asking[s])'
<1>1. asking' \in [StripeRequests -> Asking \cup {NotAsking}]
  BY DEF OnboardingInv, OnboardingTypes
<1>2. ASSUME NEW s \in StripeRequests
      PROVE  AskingInv(asking[s])'
  <2>1. CASE s = r
    <3>1. asking'[s] = q
      BY <2>1 DEF OnboardingInv, OnboardingTypes
    <3> QED BY <3>1 DEF AskingInv
  <2>2. CASE s # r
    <3>1. asking'[s] = asking[s] /\ AskingInv(asking[s])
      BY <2>2 DEF OnboardingInv, OnboardingTypes
    <3> QED BY <3>1 DEF AskingInv
  <2> QED BY <2>1, <2>2
<1> QED BY <1>1, <1>2

LEMMA AskingType ==
    ASSUME NEW pc \in AskingAt, NEW id \in 0..MaxAccounts,
           NEW complete \in BOOLEAN, NEW doomed \in BOOLEAN
    PROVE  LET q == [pc |-> pc, id |-> id, complete |-> complete,
                     doomed |-> doomed]
           IN  /\ q \in Asking /\ q.pc = pc /\ q.id = id
               /\ q.complete = complete
  BY DEF Asking

\* Steps that leave the row and what Stripe says as they were.
LEMMA QuestionsKeep ==
    ASSUME OnboardingInv, NEW r \in StripeRequests,
           NEW q \in Asking \cup {NotAsking},
           asking' = [asking EXCEPT ![r] = q], AskingInv(q)',
           customers' \in 0..MaxAccounts, rolledBack' \in Nat,
           redirected' \in BOOLEAN, redirected = TRUE => redirected' = TRUE,
           UNCHANGED <<sellerRow, account, updates, enabledOnce, replaced, checks>>
    PROVE  OnboardingInv'
<1>1. /\ asking' \in [StripeRequests -> Asking \cup {NotAsking}]
      /\ \A s \in StripeRequests : AskingInv(asking[s])'
  BY AskingStays
<1>2. OnboardingTypes'
  BY <1>1 DEF OnboardingInv, OnboardingTypes, AccountsAt
<1>3. RowInv' /\ StripeInv' /\ FlagInv'
  BY DEF OnboardingInv, RowInv, StripeInv, FlagInv
<1>4. ActiveInv'
  BY DEF OnboardingInv, ActiveInv
<1> QED BY <1>1, <1>2, <1>3, <1>4 DEF OnboardingInv

LEMMA StartsKeep ==
    ASSUME OnboardingInv, NEW r \in StripeRequests,
           \/ StartLink(r) \/ StartComplete(r) \/ StartCheck(r)
           \/ \E doomed \in BOOLEAN : StartCustomer(r, doomed)
    PROVE  OnboardingInv'
<1>1. /\ sellerRow.account \in 0..MaxAccounts /\ sellerRow.complete \in BOOLEAN
      /\ customers \in 0..MaxAccounts /\ rolledBack \in Nat
      /\ redirected \in BOOLEAN /\ 0 \in 0..MaxAccounts
  BY OnboardingAssumption DEF OnboardingInv, OnboardingTypes, RowInv, SellerRow
<1>6. sellerRow.account # 0 => sellerRow.account \in DOMAIN account
  BY DEF OnboardingInv, RowInv
<1>2. CASE StartLink(r)
  <2>0. PICK q : q = [pc |-> "create account", id |-> 0, complete |-> FALSE,
                      doomed |-> FALSE]
    OBVIOUS
  <2>1. q \in Asking /\ q.pc = "create account"
    BY <1>1, <2>0, AskingType DEF AskingAt
  <2>2. /\ asking' = [asking EXCEPT ![r] = q]
        /\ UNCHANGED <<sellerRow, account, customers, updates, rolledBack,
                       enabledOnce, redirected, replaced, checks>>
    BY <1>2, <2>0 DEF StartLink, Asks, OnStripe
  <2>3. AskingInv(q)'
    BY <2>1 DEF AskingInv
  <2> QED BY <1>1, <2>1, <2>2, <2>3, QuestionsKeep
<1>3. CASE StartComplete(r)
  <2>0. PICK q : q = [pc |-> "complete", id |-> sellerRow.account,
                      complete |-> FALSE, doomed |-> FALSE]
    OBVIOUS
  <2>1. q \in Asking /\ q.pc = "complete" /\ q.id = sellerRow.account
    BY <1>1, <2>0, AskingType DEF AskingAt
  <2>2. /\ asking' = [asking EXCEPT ![r] = q] /\ sellerRow.account # 0
        /\ redirected' = TRUE
        /\ UNCHANGED <<sellerRow, account, customers, updates, rolledBack,
                       enabledOnce, replaced, checks>>
    BY <1>3, <2>0 DEF StartComplete, Asks, OnStripe
  <2>3. AskingInv(q)'
    BY <1>6, <2>1, <2>2 DEF AskingInv
  <2> QED BY <1>1, <2>1, <2>2, <2>3, QuestionsKeep
<1>4. CASE StartCheck(r)
  <2>0. PICK q : q = [pc |-> "retrieve", id |-> sellerRow.account,
                      complete |-> sellerRow.complete, doomed |-> FALSE]
    OBVIOUS
  <2>1. q \in Asking /\ q.pc = "retrieve" /\ q.id = sellerRow.account
    BY <1>1, <2>0, AskingType DEF AskingAt
  <2>2. /\ asking' = [asking EXCEPT ![r] = q] /\ sellerRow.account # 0
        /\ UNCHANGED <<sellerRow, account, customers, updates, rolledBack,
                       enabledOnce, redirected, replaced, checks>>
    BY <1>4, <2>0 DEF StartCheck, Asks, OnStripe
  <2>3. AskingInv(q)'
    BY <1>6, <2>1, <2>2 DEF AskingInv
  <2> QED BY <1>1, <2>1, <2>2, <2>3, QuestionsKeep
<1>5. ASSUME NEW doomed \in BOOLEAN, StartCustomer(r, doomed)
      PROVE  OnboardingInv'
  <2>0. PICK q : q = [pc |-> "create customer", id |-> 0, complete |-> FALSE,
                      doomed |-> doomed]
    OBVIOUS
  <2>1. q \in Asking /\ q.pc = "create customer"
    BY <1>1, <2>0, AskingType DEF AskingAt
  <2>2. /\ asking' = [asking EXCEPT ![r] = q]
        /\ UNCHANGED <<sellerRow, account, customers, updates, rolledBack,
                       enabledOnce, redirected, replaced, checks>>
    BY <1>5, <2>0 DEF StartCustomer, Asks, OnStripe
  <2>3. AskingInv(q)'
    BY <2>1 DEF AskingInv
  <2> QED BY <1>1, <2>1, <2>2, <2>3, QuestionsKeep
<1> QED BY <1>2, <1>3, <1>4, <1>5

\* What a request is at, it is a question.
LEMMA AskedType ==
    ASSUME OnboardingInv, NEW r \in StripeRequests, asking[r].pc # "idle"
    PROVE  /\ asking[r] \in Asking /\ asking[r].id \in 0..MaxAccounts
           /\ asking[r].complete \in BOOLEAN /\ asking[r].doomed \in BOOLEAN
           /\ AskingInv(asking[r])
<1>1. asking[r] \in Asking /\ AskingInv(asking[r])
  BY DEF OnboardingInv, OnboardingTypes, NotAsking
<1> QED BY <1>1 DEF Asking

LEMMA AnswersKeep ==
    ASSUME OnboardingInv, NEW r \in StripeRequests,
           Retrieve(r) \/ CreateCustomer(r)
    PROVE  OnboardingInv'
<1>1. /\ customers \in 0..MaxAccounts /\ rolledBack \in Nat
      /\ redirected \in BOOLEAN
  BY DEF OnboardingInv, OnboardingTypes
<1>2. AskingInv(NotAsking)'
  BY DEF AskingInv, NotAsking
<1>3. CASE Retrieve(r)
  <2>1. /\ asking[r].pc = "retrieve" /\ asking[r].id \in 0..MaxAccounts
        /\ AskingInv(asking[r])
        /\ UNCHANGED <<sellerRow, account, customers, updates, rolledBack,
                       enabledOnce, redirected, replaced, checks>>
    BY <1>3, AskedType DEF Retrieve, OnStripe
  <2>6. PICK done : done = isOnboarded(account[asking[r].id])
    OBVIOUS
  <2>7. PICK q : q = [pc |-> "update status", id |-> asking[r].id,
                      complete |-> done, doomed |-> FALSE]
    OBVIOUS
  <2>2. done \in BOOLEAN /\ (done = TRUE => enabledOnce # {})
    BY <2>1, <2>6 DEF isOnboarded, AskingInv, OnboardingInv, StripeInv
  <2>3. \/ asking' = [asking EXCEPT ![r] = q]
        \/ asking' = [asking EXCEPT ![r] = NotAsking]
    BY <1>3, <2>6, <2>7 DEF Retrieve, Asks, Answered
  <2>4. /\ q \in Asking /\ q.pc = "update status" /\ q.id = asking[r].id
        /\ q.complete = done
    BY <2>1, <2>2, <2>7, AskingType DEF AskingAt
  <2>5. AskingInv(q)'
    BY <2>1, <2>2, <2>4 DEF AskingInv
  <2> QED BY <1>1, <1>2, <2>1, <2>3, <2>4, <2>5, QuestionsKeep
<1>4. CASE CreateCustomer(r)
  <2>0. PICK q : q = [pc |-> "name customer", id |-> customers + 1,
                      complete |-> FALSE, doomed |-> asking[r].doomed]
    OBVIOUS
  <2>1. /\ asking' = [asking EXCEPT ![r] = q]
        /\ customers' = customers + 1 /\ customers < MaxAccounts
        /\ UNCHANGED <<sellerRow, account, updates, rolledBack, enabledOnce,
                       redirected, replaced, checks>>
    BY <1>4, <2>0 DEF CreateCustomer, Asks, OnStripe
  <2>2. customers + 1 \in 0..MaxAccounts /\ customers + 1 # 0
    BY <1>1, <2>1, OnboardingAssumption
  <2>3. asking[r].doomed \in BOOLEAN
    BY <1>4, AskedType DEF CreateCustomer
  <2>4. q \in Asking /\ q.pc = "name customer" /\ q.id = customers + 1
    BY <2>0, <2>2, <2>3, AskingType DEF AskingAt
  <2>5. AskingInv(q)'
    BY <2>2, <2>4 DEF AskingInv
  <2> QED BY <1>1, <2>1, <2>2, <2>4, <2>5, QuestionsKeep
<1> QED BY <1>3, <1>4

LEMMA NewAccountKeeps ==
    ASSUME OnboardingInv, NEW r \in StripeRequests, CreateAccount(r)
    PROVE  OnboardingInv'
<1>1. PICK n \in Nat : AccountsAt(n)
  BY DEF OnboardingInv, OnboardingTypes
<1>2. DOMAIN account = 1..n /\ created = n
  BY <1>1, CreatedIs
<1>12. PICK q : q = [pc |-> "name account", id |-> n + 1, complete |-> FALSE,
                     doomed |-> FALSE]
  OBVIOUS
<1>3. /\ n < MaxAccounts
      /\ account' = [a \in 1..(n + 1) |-> IF a = n + 1 THEN "new" ELSE account[a]]
      /\ asking' = [asking EXCEPT ![r] = q]
      /\ UNCHANGED <<sellerRow, customers, updates, rolledBack, enabledOnce,
                     redirected, replaced, checks>>
  BY <1>2, <1>12 DEF CreateAccount, Asks
<1>4. AccountsAt(n + 1)' /\ n + 1 \in Nat /\ n + 1 \in 0..MaxAccounts
  BY <1>1, <1>3, OnboardingAssumption DEF AccountsAt, StripeView
<1>5. DOMAIN account' = 1..(n + 1) /\ DOMAIN account \subseteq DOMAIN account'
  BY <1>2, <1>3
<1>6. q \in Asking /\ q.pc = "name account" /\ q.id = n + 1
  BY <1>4, <1>12, AskingType DEF AskingAt
<1>7. AskingInv(q)'
  <2>1. n + 1 \in 1..(n + 1)
    BY <1>4
  <2>2. q.id \in DOMAIN account'
    BY <1>5, <1>6, <2>1
  <2> QED BY <1>6, <2>2 DEF AskingInv
<1>8. /\ asking' \in [StripeRequests -> Asking \cup {NotAsking}]
      /\ \A s \in StripeRequests : AskingInv(asking[s])'
  BY <1>3, <1>5, <1>6, <1>7, AskingStays
<1>9. OnboardingTypes'
  BY <1>3, <1>4, <1>8 DEF OnboardingInv, OnboardingTypes
<1>10. RowInv' /\ FlagInv' /\ ActiveInv'
  BY <1>3, <1>5 DEF OnboardingInv, RowInv, FlagInv, ActiveInv
<1>11. StripeInv'
  <2>1. ASSUME NEW a \in DOMAIN account', account'[a] = "enabled"
        PROVE  enabledOnce # {}
    BY <1>2, <1>3, <1>5, <2>1 DEF OnboardingInv, StripeInv
  <2> QED BY <1>3, <2>1 DEF OnboardingInv, StripeInv
<1> QED BY <1>8, <1>9, <1>10, <1>11 DEF OnboardingInv

\* A step that writes the row, whatever it writes there.
LEMMA RowWritesKeep ==
    ASSUME OnboardingInv,
           \/ UNCHANGED asking
           \/ \E r \in StripeRequests : asking' = [asking EXCEPT ![r] = NotAsking],
           sellerRow' \in SellerRow, RowInv', ActiveInv', FlagInv',
           sellerRow.account # 0 => sellerRow'.account # 0,
           updates' \subseteq updates, rolledBack' \in Nat,
           replaced' \in BOOLEAN,
           UNCHANGED <<account, customers, enabledOnce, redirected, checks>>
    PROVE  OnboardingInv'
<1>1. AskingInv(NotAsking)'
  BY DEF AskingInv, NotAsking
<1>2. /\ asking' \in [StripeRequests -> Asking \cup {NotAsking}]
      /\ \A s \in StripeRequests : AskingInv(asking[s])'
  <2>1. CASE UNCHANGED asking
    BY <2>1 DEF OnboardingInv, OnboardingTypes, AskingInv
  <2>2. CASE \E r \in StripeRequests : asking' = [asking EXCEPT ![r] = NotAsking]
    BY <1>1, <2>2, AskingStays
  <2> QED BY <2>1, <2>2
<1>3. OnboardingTypes'
  BY <1>2 DEF OnboardingInv, OnboardingTypes, AccountsAt
<1>4. StripeInv'
  BY DEF OnboardingInv, StripeInv
<1> QED BY <1>2, <1>3, <1>4 DEF OnboardingInv

\* What Stripe said of the account, done, goes into the row.
LEMMA RowSaysWhatStripeSaid ==
    ASSUME OnboardingInv, NEW done \in BOOLEAN, done = TRUE => enabledOnce # {},
           sellerRow.account # 0,
           sellerRow' = [sellerRow EXCEPT !.complete = done,
                                          !.status = StatusOf(done)],
           UNCHANGED <<account, enabledOnce, redirected, replaced>>
    PROVE  /\ sellerRow' \in SellerRow /\ RowInv' /\ ActiveInv' /\ FlagInv'
           /\ sellerRow'.account = sellerRow.account
           /\ sellerRow'.customer = sellerRow.customer
<1>1. sellerRow \in SellerRow
  BY DEF OnboardingInv, OnboardingTypes
<1>2. /\ sellerRow' \in SellerRow
      /\ sellerRow'.account = sellerRow.account
      /\ sellerRow'.customer = sellerRow.customer
      /\ sellerRow'.complete = done
      /\ sellerRow'.status = StatusOf(done)
  BY <1>1 DEF SellerRow, StatusOf
<1>3. /\ sellerRow'.status = "active" => done = TRUE
      /\ sellerRow'.complete = TRUE <=>
            sellerRow'.status \in {"onboarded", "active"}
  BY <1>2 DEF StatusOf
<1>4. RowInv'
  BY <1>2 DEF OnboardingInv, RowInv
<1>5. ActiveInv' /\ FlagInv'
  BY <1>2, <1>3 DEF ActiveInv, FlagInv
<1> QED BY <1>2, <1>4, <1>5

LEMMA LinkKeeps ==
    ASSUME OnboardingInv, NEW r \in StripeRequests, createHostOnboardingLink(r)
    PROVE  OnboardingInv'
<1>1. /\ sellerRow \in SellerRow /\ rolledBack \in Nat /\ replaced \in BOOLEAN
      /\ asking[r].id \in 0..MaxAccounts /\ asking[r].id \in DOMAIN account
  BY AskedType
     DEF OnboardingInv, OnboardingTypes, createHostOnboardingLink, AskingInv
<1>2. 0 \notin DOMAIN account
  BY DEF OnboardingInv, OnboardingTypes, AccountsAt
<1>3. /\ asking' = [asking EXCEPT ![r] = NotAsking]
      /\ UNCHANGED <<account, customers, updates, enabledOnce, redirected, checks>>
  BY DEF createHostOnboardingLink, Answered, OnStripe
<1>4. CASE /\ sellerRow' = [sellerRow EXCEPT !.account = asking[r].id,
                                             !.status = "pending"]
           /\ replaced' = (replaced \/ sellerRow.account # 0)
           /\ UNCHANGED rolledBack
  <2>1. /\ sellerRow' \in SellerRow
        /\ sellerRow'.account = asking[r].id
        /\ sellerRow'.status = "pending"
        /\ sellerRow'.complete = sellerRow.complete
    BY <1>1, <1>4 DEF SellerRow
  <2>2. RowInv' /\ sellerRow'.account # 0
    BY <1>1, <1>2, <1>3, <2>1 DEF RowInv
  <2>3. ActiveInv'
    BY <1>3, <2>1 DEF OnboardingInv, ActiveInv
  <2>4. replaced' \in BOOLEAN
    BY <1>4
  <2>5. FlagInv'
    <3>1. CASE sellerRow.account # 0
      BY <1>4, <3>1 DEF FlagInv
    <3>2. CASE sellerRow.account = 0
      <4>1. sellerRow.complete = FALSE
        BY <3>2 DEF OnboardingInv, RowInv
      <4> QED BY <2>1, <4>1 DEF FlagInv
    <3> QED BY <3>1, <3>2
  <2> QED BY <1>1, <1>3, <1>4, <2>1, <2>2, <2>3, <2>4, <2>5, RowWritesKeep
<1>5. CASE rolledBack' = rolledBack + 1 /\ UNCHANGED <<sellerRow, replaced>>
  <2>1. RowInv' /\ ActiveInv' /\ FlagInv'
    BY <1>3, <1>5 DEF OnboardingInv, RowInv, ActiveInv, FlagInv
  <2>2. rolledBack' \in Nat /\ sellerRow' = sellerRow /\ replaced' = replaced
    BY <1>1, <1>5
  <2> QED BY <1>1, <1>3, <2>1, <2>2, RowWritesKeep
<1> QED BY <1>4, <1>5 DEF createHostOnboardingLink

LEMMA CompleteKeeps ==
    ASSUME OnboardingInv, NEW r \in StripeRequests, onBoardComplete(r)
    PROVE  OnboardingInv'
<1>1. /\ sellerRow \in SellerRow /\ rolledBack \in Nat /\ replaced \in BOOLEAN
      /\ asking[r].id \in 0..MaxAccounts /\ asking[r].id \in DOMAIN account
      /\ redirected = TRUE
  BY AskedType DEF OnboardingInv, OnboardingTypes, onBoardComplete, AskingInv
<1>2. 0 \notin DOMAIN account
  BY DEF OnboardingInv, OnboardingTypes, AccountsAt
<1>3. /\ asking' = [asking EXCEPT ![r] = NotAsking]
      /\ UNCHANGED <<account, customers, updates, rolledBack, enabledOnce,
                     redirected, replaced, checks>>
  BY DEF onBoardComplete, Answered, OnStripe
<1>4. /\ sellerRow' \in SellerRow
      /\ sellerRow'.account = asking[r].id
      /\ sellerRow'.status = "onboarded"
      /\ sellerRow'.complete = TRUE
  BY <1>1 DEF onBoardComplete, SellerRow
<1>5. RowInv' /\ sellerRow'.account # 0
  BY <1>1, <1>2, <1>3, <1>4 DEF RowInv
<1>6. ActiveInv' /\ FlagInv'
  BY <1>1, <1>3, <1>4 DEF ActiveInv, FlagInv
<1> QED BY <1>1, <1>3, <1>4, <1>5, <1>6, RowWritesKeep

LEMMA StatusKeeps ==
    ASSUME OnboardingInv, NEW r \in StripeRequests, checkHostOnboardingStatus(r)
    PROVE  OnboardingInv'
<1>1. /\ rolledBack \in Nat /\ replaced \in BOOLEAN
      /\ asking[r].complete \in BOOLEAN /\ sellerRow.account # 0
      /\ asking[r].complete = TRUE => enabledOnce # {}
  BY AskedType
     DEF OnboardingInv, OnboardingTypes, checkHostOnboardingStatus, AskingInv
<1>2. /\ asking' = [asking EXCEPT ![r] = NotAsking]
      /\ UNCHANGED <<account, customers, updates, rolledBack, enabledOnce,
                     redirected, replaced, checks>>
  BY DEF checkHostOnboardingStatus, Answered, OnStripe
<1>3. sellerRow' = [sellerRow EXCEPT !.complete = asking[r].complete,
                                     !.status = StatusOf(asking[r].complete)]
  BY DEF checkHostOnboardingStatus
<1>4. /\ sellerRow' \in SellerRow /\ RowInv' /\ ActiveInv' /\ FlagInv'
      /\ sellerRow'.account = sellerRow.account
  BY <1>1, <1>2, <1>3, RowSaysWhatStripeSaid
<1> QED BY <1>1, <1>2, <1>4, RowWritesKeep

LEMMA EventKeeps ==
    ASSUME OnboardingInv, NEW u \in updates, handleAccountUpdated(u)
    PROVE  OnboardingInv'
<1>1. /\ sellerRow \in SellerRow /\ rolledBack \in Nat /\ replaced \in BOOLEAN
      /\ u \in [account : AccountIds, view : StripeView]
  BY DEF OnboardingInv, OnboardingTypes
<1>2. u.account # 0
  BY <1>1 DEF AccountIds
<1>3. /\ updates' \subseteq updates
      /\ UNCHANGED <<account, customers, asking, rolledBack, enabledOnce,
                     redirected, replaced, checks>>
  BY DEF handleAccountUpdated, OnStripe
<1>4. PICK done : done = isOnboarded(u.view)
  OBVIOUS
<1>5. done \in BOOLEAN /\ (done = TRUE => enabledOnce # {})
  BY <1>4 DEF isOnboarded, OnboardingInv, StripeInv
<1>6. CASE sellerRow.account = u.account
  <2>1. sellerRow' = [sellerRow EXCEPT !.complete = done,
                                       !.status = StatusOf(done)]
    BY <1>4, <1>6 DEF handleAccountUpdated
  <2>2. sellerRow.account # 0
    BY <1>2, <1>6
  <2>3. /\ sellerRow' \in SellerRow /\ RowInv' /\ ActiveInv' /\ FlagInv'
        /\ sellerRow'.account = sellerRow.account
    BY <1>3, <1>5, <2>1, <2>2, RowSaysWhatStripeSaid
  <2> QED BY <1>1, <1>3, <2>3, RowWritesKeep
<1>7. CASE sellerRow.account # u.account
  <2>1. sellerRow' = sellerRow
    BY <1>7 DEF handleAccountUpdated
  <2>2. RowInv' /\ ActiveInv' /\ FlagInv'
    BY <1>3, <2>1 DEF OnboardingInv, RowInv, ActiveInv, FlagInv
  <2> QED BY <1>1, <1>3, <2>1, <2>2, RowWritesKeep
<1> QED BY <1>6, <1>7

LEMMA CustomerKeeps ==
    ASSUME OnboardingInv, NEW r \in StripeRequests, getOrCreateCustomer(r)
    PROVE  OnboardingInv'
<1>1. /\ sellerRow \in SellerRow /\ rolledBack \in Nat /\ replaced \in BOOLEAN
      /\ asking[r].id \in 0..MaxAccounts
  BY AskedType DEF OnboardingInv, OnboardingTypes, getOrCreateCustomer
<1>2. /\ asking' = [asking EXCEPT ![r] = NotAsking]
      /\ UNCHANGED <<account, customers, updates, enabledOnce, redirected,
                     replaced, checks>>
  BY DEF getOrCreateCustomer, Answered, OnStripe
<1>3. /\ sellerRow' \in SellerRow /\ sellerRow'.account = sellerRow.account
      /\ sellerRow'.status = sellerRow.status
      /\ sellerRow'.complete = sellerRow.complete
  <2>1. \/ sellerRow' = sellerRow
        \/ sellerRow' = [sellerRow EXCEPT !.customer = asking[r].id]
    BY DEF getOrCreateCustomer
  <2> QED BY <1>1, <2>1 DEF SellerRow
<1>4. rolledBack' \in Nat
  <2>1. rolledBack' = rolledBack \/ rolledBack' = rolledBack + 1
    BY DEF getOrCreateCustomer
  <2> QED BY <1>1, <2>1
<1>5. RowInv' /\ ActiveInv' /\ FlagInv'
  BY <1>2, <1>3 DEF OnboardingInv, RowInv, ActiveInv, FlagInv
<1> QED BY <1>1, <1>2, <1>3, <1>4, <1>5, RowWritesKeep

LEMMA ReviewKeeps ==
    ASSUME OnboardingInv, NEW a \in DOMAIN account, StripeReviews(a)
    PROVE  OnboardingInv'
<1>1. PICK n \in Nat : AccountsAt(n)
  BY DEF OnboardingInv, OnboardingTypes
<1>2. PICK view \in StripeView :
         /\ account' = [account EXCEPT ![a] = view]
         /\ updates' = updates \cup {[account |-> a, view |-> view]}
         /\ enabledOnce' = IF view = "enabled" THEN enabledOnce \cup {a}
                           ELSE enabledOnce
  BY DEF StripeReviews
<1>3. UNCHANGED <<sellerRow, customers, asking, rolledBack, redirected, replaced>>
  BY DEF StripeReviews
<1>4. a \in AccountIds /\ DOMAIN account' = DOMAIN account
  BY <1>1, <1>2, OnboardingAssumption DEF AccountsAt, AccountIds
<1>5. AccountsAt(n)'
  BY <1>1, <1>2 DEF AccountsAt
<1>6. checks' \in 0..MaxChecks
  BY OnboardingAssumption DEF StripeReviews, OnboardingInv, OnboardingTypes
<1>7. /\ enabledOnce' \subseteq AccountIds /\ enabledOnce \subseteq enabledOnce'
      /\ view = "enabled" => enabledOnce' # {}
  BY <1>2, <1>4 DEF OnboardingInv, OnboardingTypes
<1>8. updates' \subseteq [account : AccountIds, view : StripeView]
  BY <1>2, <1>4 DEF OnboardingInv, OnboardingTypes
<1>9. OnboardingTypes'
  BY <1>1, <1>3, <1>5, <1>6, <1>7, <1>8 DEF OnboardingInv, OnboardingTypes
<1>10. \A s \in StripeRequests : AskingInv(asking[s])'
  BY <1>3, <1>4, <1>7 DEF OnboardingInv, AskingInv
<1>11. RowInv' /\ FlagInv' /\ ActiveInv'
  BY <1>3, <1>4, <1>7 DEF OnboardingInv, RowInv, FlagInv, ActiveInv
<1>12. StripeInv'
  BY <1>1, <1>2, <1>4, <1>7 DEF OnboardingInv, StripeInv, AccountsAt
<1> QED BY <1>9, <1>10, <1>11, <1>12 DEF OnboardingInv

LEMMA OnboardingInvNext ==
    OnboardingInv /\ [OnboardingNext]_onboardingVars => OnboardingInv'
<1> SUFFICES ASSUME OnboardingInv, [OnboardingNext]_onboardingVars
             PROVE  OnboardingInv'
  OBVIOUS
<1>1. CASE OnboardingNext
  BY <1>1, StartsKeep, AnswersKeep, NewAccountKeeps, LinkKeeps, CompleteKeeps,
     StatusKeeps, EventKeeps, CustomerKeeps, ReviewKeeps DEF OnboardingNext
<1>2. CASE UNCHANGED onboardingVars
  BY <1>2 DEF onboardingVars, OnboardingInv, OnboardingTypes, AccountsAt,
              AskingInv, RowInv, StripeInv, ActiveInv, FlagInv
<1> QED BY <1>1, <1>2

-----------------------------------------------------------------------------
(* Onboarding: how many accounts and customers                             *)

Standing(pc) == {r \in StripeRequests : asking[r].pc = pc}
Count(pc) == Cardinality(Standing(pc))
Requests0 == Cardinality(StripeRequests)

\* What Stripe holds beyond what the rolled back transactions left there.  As
\* long as the row names none, whoever goes to name one finds that the row was
\* empty; from then on each of the requests at once may have found it so.
OpenAccounts ==
    IF sellerRow.account = 0 THEN created - Count("name account")
    ELSE created + Count("create account") - Requests0
OpenCustomers ==
    IF sellerRow.customer = 0 THEN customers - Count("name customer")
    ELSE customers + Count("create customer") - Requests0

CountInv ==
    /\ OpenAccounts + OpenCustomers <= rolledBack
    /\ rolledBack + Count("name account") + Count("name customer") <=
          created + customers

LEMMA AtIsFinite ==
    ASSUME NEW pc
    PROVE  /\ IsFiniteSet(Standing(pc)) /\ Count(pc) \in Nat
           /\ Requests0 \in Nat /\ Count(pc) <= Requests0
<1>1. Standing(pc) \subseteq StripeRequests
  BY DEF Standing
<1> QED BY <1>1, FS_Subset, FS_CardinalityType, OnboardingAssumption
        DEF Count, Requests0

\* Two different places are never held by the same request.
LEMMA ApartFits ==
    ASSUME NEW pc1, NEW pc2, pc1 # pc2
    PROVE  Count(pc1) + Count(pc2) <= Requests0
<1>1. IsFiniteSet(Standing(pc1)) /\ IsFiniteSet(Standing(pc2))
  BY AtIsFinite
<1>2. Standing(pc1) \cap Standing(pc2) = {}
  BY DEF Standing
<1>3. Cardinality(Standing(pc1) \cap Standing(pc2)) = 0
  BY <1>2, FS_EmptySet
<1>4. Cardinality(Standing(pc1) \cup Standing(pc2)) = Count(pc1) + Count(pc2)
  <2>1. Cardinality(Standing(pc1) \cup Standing(pc2)) =
           Count(pc1) + Count(pc2) - Cardinality(Standing(pc1) \cap Standing(pc2))
    BY <1>1, FS_Union DEF Count
  <2>2. Count(pc1) \in Nat /\ Count(pc2) \in Nat
    BY AtIsFinite
  <2> QED BY <1>3, <2>1, <2>2
<1>5. Standing(pc1) \cup Standing(pc2) \in SUBSET StripeRequests
  BY DEF Standing
<1>6. Cardinality(Standing(pc1) \cup Standing(pc2)) <= Requests0
  BY <1>5, FS_Subset, OnboardingAssumption DEF Requests0
<1> QED BY <1>4, <1>6

\* One request moves: the place it leaves loses one, the one it takes gains one.
LEMMA CountMoves ==
    ASSUME asking \in [StripeRequests -> Asking \cup {NotAsking}],
           NEW r \in StripeRequests, NEW q,
           asking' = [asking EXCEPT ![r] = q], NEW pc
    PROVE  /\ (q.pc = pc <=> asking[r].pc = pc) => Count(pc)' = Count(pc)
           /\ q.pc = pc /\ asking[r].pc # pc => Count(pc)' = Count(pc) + 1
           /\ q.pc # pc /\ asking[r].pc = pc => Count(pc)' = Count(pc) - 1
<1>1. \A s \in StripeRequests : asking'[s] = IF s = r THEN q ELSE asking[s]
  OBVIOUS
<1>2. IsFiniteSet(Standing(pc))
  BY AtIsFinite
<1>3. ASSUME q.pc = pc <=> asking[r].pc = pc
      PROVE  Count(pc)' = Count(pc)
  <2>1. Standing(pc)' = Standing(pc)
    BY <1>1, <1>3 DEF Standing
  <2> QED BY <2>1 DEF Count
<1>4. ASSUME q.pc = pc, asking[r].pc # pc
      PROVE  Count(pc)' = Count(pc) + 1
  <2>1. Standing(pc)' = Standing(pc) \cup {r} /\ r \notin Standing(pc)
    BY <1>1, <1>4 DEF Standing
  <2> QED BY <1>2, <2>1, FS_AddElement DEF Count
<1>5. ASSUME q.pc # pc, asking[r].pc = pc
      PROVE  Count(pc)' = Count(pc) - 1
  <2>1. Standing(pc)' = Standing(pc) \ {r} /\ r \in Standing(pc)
    BY <1>1, <1>5 DEF Standing
  <2> QED BY <1>2, <2>1, FS_RemoveElement DEF Count
<1> QED BY <1>3, <1>4, <1>5

\* The four places that count, and the rest.
Counted == {"create account", "name account", "create customer", "name customer"}

LEMMA MovesElsewhere ==
    ASSUME OnboardingInv, NEW r \in StripeRequests, NEW q,
           asking' = [asking EXCEPT ![r] = q],
           q.pc \notin Counted, asking[r].pc \notin Counted,
           sellerRow'.account = 0 <=> sellerRow.account = 0,
           sellerRow'.customer = 0 <=> sellerRow.customer = 0,
           UNCHANGED <<account, customers, rolledBack>>, CountInv
    PROVE  CountInv'
<1>1. asking \in [StripeRequests -> Asking \cup {NotAsking}]
  BY DEF OnboardingInv, OnboardingTypes
<1>2. ASSUME NEW pc \in Counted
      PROVE  Count(pc)' = Count(pc)
  <2>1. q.pc = pc <=> asking[r].pc = pc
    OBVIOUS
  <2> QED BY <1>1, <2>1, CountMoves
<1>3. /\ Count("create account")' = Count("create account")
      /\ Count("name account")' = Count("name account")
      /\ Count("create customer")' = Count("create customer")
      /\ Count("name customer")' = Count("name customer")
  BY <1>2 DEF Counted
<1>4. created' = created
  BY DEF created
<1>5. OpenAccounts' = OpenAccounts /\ OpenCustomers' = OpenCustomers
  BY <1>3, <1>4 DEF OpenAccounts, OpenCustomers, Requests0
<1> QED BY <1>3, <1>4, <1>5 DEF CountInv

LEMMA CountTypes ==
    ASSUME OnboardingInv
    PROVE  /\ asking \in [StripeRequests -> Asking \cup {NotAsking}]
           /\ created \in Nat /\ customers \in Nat /\ rolledBack \in Nat
           /\ \A pc : Count(pc) \in Nat /\ Count(pc) <= Requests0
           /\ Requests0 \in Nat
           /\ OpenAccounts \in Int /\ OpenCustomers \in Int
<1>1. created \in Nat
  BY CreatedIs DEF OnboardingInv, OnboardingTypes
<1>2. /\ asking \in [StripeRequests -> Asking \cup {NotAsking}]
      /\ customers \in Nat /\ rolledBack \in Nat
  BY OnboardingAssumption DEF OnboardingInv, OnboardingTypes
<1>3. \A pc : Count(pc) \in Nat /\ Count(pc) <= Requests0
  BY AtIsFinite
<1>4. Requests0 \in Nat
  BY AtIsFinite
<1>5. OpenAccounts \in Int /\ OpenCustomers \in Int
  <2>1. /\ Count("name account") \in Nat /\ Count("create account") \in Nat
        /\ Count("name customer") \in Nat /\ Count("create customer") \in Nat
    BY <1>3
  <2>2. customers \in Nat
    BY <1>2
  <2>5. \A a, b, c \in Nat : a - b \in Int /\ a + b - c \in Int
    OBVIOUS
  <2>3. OpenAccounts \in Int
    BY <1>1, <1>4, <2>1, <2>5, Zenon DEF OpenAccounts
  <2>4. OpenCustomers \in Int
    BY <1>4, <2>1, <2>2, <2>5, Zenon DEF OpenCustomers
  <2> QED BY <2>3, <2>4
<1> QED BY <1>1, <1>2, <1>3, <1>4, <1>5

\* What a request that leaves goes to.
LEMMA IdleIs == NotAsking.pc = "idle" /\ NotAsking.pc \notin Counted
  BY DEF NotAsking, Counted

LEMMA BothMove ==
    ASSUME NEW a \in Int, NEW b \in Int, NEW c \in Nat, NEW d \in Nat
    PROVE  /\ b <= a /\ d = c => b + c <= a + d
           /\ b = a /\ d = c => b + c <= a + d
           /\ b <= a + 1 /\ d = c + 1 => b + c <= a + d
  OBVIOUS

\* The accounts: a step of a link.
LEMMA LinkCounts ==
    ASSUME OnboardingInv, NEW r \in StripeRequests,
           StartLink(r) \/ CreateAccount(r) \/ createHostOnboardingLink(r)
    PROVE  /\ OpenCustomers' = OpenCustomers /\ customers' = customers
           /\ Count("name customer")' = Count("name customer")
           /\ OpenAccounts' + rolledBack <= OpenAccounts + rolledBack'
           /\ rolledBack' + Count("name account")' + created <=
                 rolledBack + Count("name account") + created'
<1> DEFINE CA == Count("create account") NA == Count("name account")
           CC == Count("create customer") NC == Count("name customer")
<1>1. /\ created \in Nat /\ rolledBack \in Nat
      /\ CA \in Nat /\ NA \in Nat /\ Requests0 \in Nat
      /\ OpenAccounts \in Int
  BY CountTypes
<1>6. asking \in [StripeRequests -> Asking \cup {NotAsking}]
  BY CountTypes
<1>7. Requests0' = Requests0
  BY DEF Requests0
<1>2. CA + NA <= Requests0
  BY ApartFits
<1>3. CASE StartLink(r)
  <2>0. PICK q : q = [pc |-> "create account", id |-> 0, complete |-> FALSE,
                      doomed |-> FALSE]
    OBVIOUS
  <2>1. q.pc = "create account"
    BY <2>0
  <2>7. asking[r].pc = "idle"
    <3>1. asking[r] = NotAsking
      BY <1>3 DEF StartLink
    <3> QED BY <3>1 DEF NotAsking
  <2>2. asking' = [asking EXCEPT ![r] = q]
    BY <1>3, <2>0 DEF StartLink, Asks
  <2>3. NA' = NA /\ CC' = CC /\ NC' = NC
    BY <1>6, <2>1, <2>2, <2>7, CountMoves
  <2>4. /\ sellerRow.account = 0
        /\ UNCHANGED <<sellerRow, created, customers, rolledBack>>
    BY <1>3 DEF StartLink, NeedsAccount, OnStripe, created
  <2> HIDE DEF CA, NA, CC, NC
  <2>5. OpenAccounts' = OpenAccounts
    BY <2>3, <2>4 DEF OpenAccounts, NA
  <2>6. OpenCustomers' = OpenCustomers
    BY <1>7, <2>3, <2>4 DEF OpenCustomers, CC, NC
  <2>8. rolledBack' + NA' + created <= rolledBack + NA + created'
    BY <1>1, <2>3, <2>4
  <2>9. OpenAccounts' + rolledBack <= OpenAccounts + rolledBack'
    BY <1>1, <2>4, <2>5, BothMove
  <2> QED BY <2>3, <2>4, <2>6, <2>8, <2>9 DEF NA, NC
<1>4. CASE CreateAccount(r)
  <2>8. PICK n \in Nat : AccountsAt(n)
    BY DEF OnboardingInv, OnboardingTypes
  <2>9. created = n
    BY <2>8, CreatedIs
  <2>10. created' = created + 1
    <3>1. DOMAIN account' = 1..(n + 1)
      BY <1>4, <2>9 DEF CreateAccount
    <3>2. Cardinality(1..(n + 1)) = n + 1
      BY FS_Interval
    <3> QED BY <2>9, <3>1, <3>2 DEF created
  <2>0. PICK q : q = [pc |-> "name account", id |-> created + 1,
                      complete |-> FALSE, doomed |-> FALSE]
    OBVIOUS
  <2>1. q.pc = "name account"
    BY <2>0
  <2>7. asking[r].pc = "create account"
    BY <1>4 DEF CreateAccount
  <2>2. asking' = [asking EXCEPT ![r] = q]
    BY <1>4, <2>0 DEF CreateAccount, Asks
  <2>3. CC' = CC /\ NC' = NC /\ NA' = NA + 1 /\ CA' = CA - 1
    BY <1>6, <2>1, <2>2, <2>7, CountMoves
  <2>4. UNCHANGED <<sellerRow, customers, rolledBack>>
    BY <1>4 DEF CreateAccount
  <2> HIDE DEF CA, NA, CC, NC
  <2>5. OpenAccounts' = OpenAccounts
    <3>1. CASE sellerRow.account = 0
      <4>1. OpenAccounts = created - NA /\ OpenAccounts' = created' - NA'
        BY <2>4, <3>1 DEF OpenAccounts, NA
      <4> QED BY <1>1, <2>3, <2>10, <4>1
    <3>2. CASE sellerRow.account # 0
      <4>1. /\ OpenAccounts = created + CA - Requests0
            /\ OpenAccounts' = created' + CA' - Requests0
        BY <1>7, <2>4, <3>2 DEF OpenAccounts, CA
      <4> QED BY <1>1, <2>3, <2>10, <4>1
    <3> QED BY <3>1, <3>2
  <2>6. OpenCustomers' = OpenCustomers
    BY <1>7, <2>3, <2>4 DEF OpenCustomers, CC, NC
  <2>11. rolledBack' + NA' + created <= rolledBack + NA + created'
    BY <1>1, <2>3, <2>4, <2>10
  <2>12. OpenAccounts' + rolledBack <= OpenAccounts + rolledBack'
    BY <1>1, <2>4, <2>5, BothMove
  <2> QED BY <2>3, <2>4, <2>6, <2>11, <2>12 DEF NA, NC
<1>5. CASE createHostOnboardingLink(r)
  <2>1. NotAsking.pc = "idle"
    BY IdleIs
  <2>7. asking[r].pc = "name account"
    BY <1>5 DEF createHostOnboardingLink
  <2>2. asking' = [asking EXCEPT ![r] = NotAsking]
    BY <1>5 DEF createHostOnboardingLink, Answered
  <2>3. CC' = CC /\ NC' = NC /\ NA' = NA - 1 /\ CA' = CA
    BY <1>6, <2>1, <2>2, <2>7, CountMoves
  <2>4. customers' = customers /\ created' = created
    BY <1>5 DEF createHostOnboardingLink, OnStripe, created
  <2>8. NA' \in Nat
    <3>1. r \in Standing("name account")
      BY <2>7 DEF Standing
    <3>2. NA # 0
      BY <3>1, FS_EmptySet, AtIsFinite DEF Count
    <3>3. \A k \in Nat : k # 0 => k - 1 \in Nat
      OBVIOUS
    <3>4. NA \in Nat
      BY <1>1
    <3> QED BY <2>3, <3>2, <3>3, <3>4, Zenon
  <2> HIDE DEF CA, NA, CC, NC
  <2>9. CASE /\ sellerRow' = [sellerRow EXCEPT !.account = asking[r].id,
                                               !.status = "pending"]
             /\ UNCHANGED rolledBack
    <3>1. asking[r].id # 0
      <4>1. asking[r].id \in DOMAIN account
        BY <2>7, AskedType DEF AskingInv
      <4>2. 0 \notin DOMAIN account
        BY DEF OnboardingInv, OnboardingTypes, AccountsAt
      <4> QED BY <4>1, <4>2
    <3>2. /\ sellerRow'.account # 0
          /\ sellerRow'.customer = sellerRow.customer
      BY <2>9, <3>1 DEF OnboardingInv, OnboardingTypes, SellerRow
    <3>3. OpenAccounts' = created' + CA' - Requests0
      BY <1>7, <3>2 DEF OpenAccounts, CA
    <3>4. OpenAccounts' <= OpenAccounts
      <4>1. CASE sellerRow.account = 0
        <5>1. OpenAccounts = created - NA
          BY <4>1 DEF OpenAccounts, NA
        <5>2. CA + NA <= Requests0
          BY <1>2 DEF CA, NA
        <5> QED BY <1>1, <2>3, <2>4, <3>3, <5>1, <5>2
      <4>2. CASE sellerRow.account # 0
        <5>1. OpenAccounts = created + CA - Requests0
          BY <4>2 DEF OpenAccounts, CA
        <5> QED BY <1>1, <2>3, <2>4, <3>3, <5>1
      <4> QED BY <4>1, <4>2
    <3>5. OpenCustomers' = OpenCustomers
      BY <1>7, <2>3, <2>4, <3>2 DEF OpenCustomers, CC, NC
    <3>6. OpenAccounts' \in Int
      BY <1>1, <2>3, <2>4, <3>3
    <3>7. rolledBack' = rolledBack
      BY <2>9
    <3>8. rolledBack' + NA' + created <= rolledBack + NA + created'
      BY <1>1, <2>3, <2>4, <3>7
    <3>9. OpenAccounts' + rolledBack <= OpenAccounts + rolledBack'
      BY <1>1, <3>4, <3>6, <3>7, BothMove
    <3> QED BY <2>3, <2>4, <3>5, <3>8, <3>9 DEF NA, NC
  <2>10. CASE rolledBack' = rolledBack + 1 /\ UNCHANGED sellerRow
    <3>1. OpenAccounts' <= OpenAccounts + 1 /\ OpenAccounts' \in Int
      <4>1. CASE sellerRow.account = 0
        <5>1. OpenAccounts = created - NA /\ OpenAccounts' = created' - NA'
          BY <2>10, <4>1 DEF OpenAccounts, NA
        <5> QED BY <1>1, <2>3, <2>4, <5>1
      <4>2. CASE sellerRow.account # 0
        <5>1. /\ OpenAccounts = created + CA - Requests0
              /\ OpenAccounts' = created' + CA' - Requests0
          BY <1>7, <2>10, <4>2 DEF OpenAccounts, CA
        <5> QED BY <1>1, <2>3, <2>4, <5>1
      <4> QED BY <4>1, <4>2
    <3>2. OpenCustomers' = OpenCustomers
      BY <1>7, <2>3, <2>4, <2>10 DEF OpenCustomers, CC, NC
    <3>3. rolledBack' + NA' + created <= rolledBack + NA + created'
      BY <1>1, <2>3, <2>4, <2>10
    <3>4. OpenAccounts' + rolledBack <= OpenAccounts + rolledBack'
      <4>1. rolledBack' = rolledBack + 1 /\ rolledBack' \in Nat
        BY <1>1, <2>10
      <4> QED BY <1>1, <3>1, <4>1, BothMove
    <3> QED BY <2>3, <2>4, <3>2, <3>3, <3>4 DEF NA, NC
  <2> QED BY <1>5, <2>9, <2>10 DEF createHostOnboardingLink
<1> QED BY <1>3, <1>4, <1>5

\* The same for the customers.
LEMMA CustomerCounts ==
    ASSUME OnboardingInv, NEW r \in StripeRequests,
           \/ \E doomed \in BOOLEAN : StartCustomer(r, doomed)
           \/ CreateCustomer(r) \/ getOrCreateCustomer(r)
    PROVE  /\ OpenAccounts' = OpenAccounts /\ created' = created
           /\ Count("name account")' = Count("name account")
           /\ OpenCustomers' + rolledBack <= OpenCustomers + rolledBack'
           /\ rolledBack' + Count("name customer")' + customers <=
                 rolledBack + Count("name customer") + customers'
<1> DEFINE CA == Count("create account") NA == Count("name account")
           CC == Count("create customer") NC == Count("name customer")
<1>1. /\ customers \in Nat /\ rolledBack \in Nat
      /\ CC \in Nat /\ NC \in Nat /\ Requests0 \in Nat
      /\ OpenCustomers \in Int
  BY CountTypes
<1>6. asking \in [StripeRequests -> Asking \cup {NotAsking}]
  BY CountTypes
<1>7. Requests0' = Requests0 /\ created' = created
  BY DEF Requests0, StartCustomer, CreateCustomer, getOrCreateCustomer, OnStripe,
         created
<1>2. CC + NC <= Requests0
  BY ApartFits
<1>3. ASSUME NEW doomed \in BOOLEAN, StartCustomer(r, doomed)
      PROVE  /\ OpenAccounts' = OpenAccounts /\ created' = created
             /\ Count("name account")' = Count("name account")
             /\ OpenCustomers' + rolledBack <= OpenCustomers + rolledBack'
             /\ rolledBack' + Count("name customer")' + customers <=
                   rolledBack + Count("name customer") + customers'
  <2>0. PICK q : q = [pc |-> "create customer", id |-> 0, complete |-> FALSE,
                      doomed |-> doomed]
    OBVIOUS
  <2>1. q.pc = "create customer"
    BY <2>0
  <2>7. asking[r].pc = "idle"
    <3>1. asking[r] = NotAsking
      BY <1>3 DEF StartCustomer
    <3> QED BY <3>1 DEF NotAsking
  <2>2. asking' = [asking EXCEPT ![r] = q]
    BY <1>3, <2>0 DEF StartCustomer, Asks
  <2>3. NA' = NA /\ CA' = CA /\ NC' = NC
    BY <1>6, <2>1, <2>2, <2>7, CountMoves
  <2>4. /\ sellerRow.customer = 0
        /\ UNCHANGED <<sellerRow, customers, rolledBack>>
    BY <1>3 DEF StartCustomer, OnStripe
  <2> HIDE DEF CA, NA, CC, NC
  <2>5. OpenCustomers' = OpenCustomers
    BY <2>3, <2>4 DEF OpenCustomers, NC
  <2>6. OpenAccounts' = OpenAccounts
    BY <1>7, <2>3, <2>4 DEF OpenAccounts, CA, NA
  <2>8. rolledBack' + NC' + customers <= rolledBack + NC + customers'
    BY <1>1, <2>3, <2>4
  <2>9. OpenCustomers' + rolledBack <= OpenCustomers + rolledBack'
    BY <1>1, <2>4, <2>5, BothMove
  <2> QED BY <1>7, <2>3, <2>6, <2>8, <2>9 DEF NA, NC
<1>4. CASE CreateCustomer(r)
  <2>0. PICK q : q = [pc |-> "name customer", id |-> customers + 1,
                      complete |-> FALSE, doomed |-> asking[r].doomed]
    OBVIOUS
  <2>1. q.pc = "name customer"
    BY <2>0
  <2>7. asking[r].pc = "create customer"
    BY <1>4 DEF CreateCustomer
  <2>2. asking' = [asking EXCEPT ![r] = q]
    BY <1>4, <2>0 DEF CreateCustomer, Asks
  <2>3. CA' = CA /\ NA' = NA /\ NC' = NC + 1 /\ CC' = CC - 1
    BY <1>6, <2>1, <2>2, <2>7, CountMoves
  <2>4. UNCHANGED <<sellerRow, rolledBack>> /\ customers' = customers + 1
    BY <1>4 DEF CreateCustomer
  <2> HIDE DEF CA, NA, CC, NC
  <2>5. OpenCustomers' = OpenCustomers
    <3>1. CASE sellerRow.customer = 0
      <4>1. /\ OpenCustomers = customers - NC
            /\ OpenCustomers' = customers' - NC'
        BY <2>4, <3>1 DEF OpenCustomers, NC
      <4> QED BY <1>1, <2>3, <2>4, <4>1
    <3>2. CASE sellerRow.customer # 0
      <4>1. /\ OpenCustomers = customers + CC - Requests0
            /\ OpenCustomers' = customers' + CC' - Requests0
        BY <1>7, <2>4, <3>2 DEF OpenCustomers, CC
      <4> QED BY <1>1, <2>3, <2>4, <4>1
    <3> QED BY <3>1, <3>2
  <2>6. OpenAccounts' = OpenAccounts
    BY <1>7, <2>3, <2>4 DEF OpenAccounts, CA, NA
  <2>8. rolledBack' + NC' + customers <= rolledBack + NC + customers'
    BY <1>1, <2>3, <2>4
  <2>9. OpenCustomers' + rolledBack <= OpenCustomers + rolledBack'
    BY <1>1, <2>4, <2>5, BothMove
  <2> QED BY <1>7, <2>3, <2>6, <2>8, <2>9 DEF NA, NC
<1>5. CASE getOrCreateCustomer(r)
  <2>1. NotAsking.pc = "idle"
    BY IdleIs
  <2>7. asking[r].pc = "name customer"
    BY <1>5 DEF getOrCreateCustomer
  <2>2. asking' = [asking EXCEPT ![r] = NotAsking]
    BY <1>5 DEF getOrCreateCustomer, Answered
  <2>3. CA' = CA /\ NA' = NA /\ NC' = NC - 1 /\ CC' = CC
    BY <1>6, <2>1, <2>2, <2>7, CountMoves
  <2>4. customers' = customers
    BY <1>5 DEF getOrCreateCustomer
  <2>8. NC' \in Nat
    <3>1. r \in Standing("name customer")
      BY <2>7 DEF Standing
    <3>2. NC # 0
      BY <3>1, FS_EmptySet, AtIsFinite DEF Count
    <3>3. \A k \in Nat : k # 0 => k - 1 \in Nat
      OBVIOUS
    <3>4. NC \in Nat
      BY <1>1
    <3> QED BY <2>3, <3>2, <3>3, <3>4, Zenon
  <2> HIDE DEF CA, NA, CC, NC
  <2>9. CASE /\ sellerRow' = [sellerRow EXCEPT !.customer = asking[r].id]
             /\ UNCHANGED rolledBack
    <3>1. asking[r].id # 0
      BY <2>7, AskedType DEF AskingInv
    <3>2. /\ sellerRow'.customer # 0
          /\ sellerRow'.account = sellerRow.account
      BY <2>9, <3>1 DEF OnboardingInv, OnboardingTypes, SellerRow
    <3>3. OpenCustomers' = customers' + CC' - Requests0
      BY <1>7, <3>2 DEF OpenCustomers, CC
    <3>4. OpenCustomers' <= OpenCustomers
      <4>1. CASE sellerRow.customer = 0
        <5>1. OpenCustomers = customers - NC
          BY <4>1 DEF OpenCustomers, NC
        <5>2. CC + NC <= Requests0
          BY <1>2 DEF CC, NC
        <5> QED BY <1>1, <2>3, <2>4, <3>3, <5>1, <5>2
      <4>2. CASE sellerRow.customer # 0
        <5>1. OpenCustomers = customers + CC - Requests0
          BY <4>2 DEF OpenCustomers, CC
        <5> QED BY <1>1, <2>3, <2>4, <3>3, <5>1
      <4> QED BY <4>1, <4>2
    <3>5. OpenAccounts' = OpenAccounts
      BY <1>7, <2>3, <3>2 DEF OpenAccounts, CA, NA
    <3>6. OpenCustomers' \in Int
      BY <1>1, <2>3, <2>4, <3>3
    <3>7. rolledBack' = rolledBack
      BY <2>9
    <3>8. rolledBack' + NC' + customers <= rolledBack + NC + customers'
      BY <1>1, <2>3, <2>4, <3>7
    <3>9. OpenCustomers' + rolledBack <= OpenCustomers + rolledBack'
      BY <1>1, <3>4, <3>6, <3>7, BothMove
    <3> QED BY <1>7, <2>3, <3>5, <3>8, <3>9 DEF NA, NC
  <2>10. CASE rolledBack' = rolledBack + 1 /\ UNCHANGED sellerRow
    <3>1. OpenCustomers' <= OpenCustomers + 1 /\ OpenCustomers' \in Int
      <4>1. CASE sellerRow.customer = 0
        <5>1. /\ OpenCustomers = customers - NC
              /\ OpenCustomers' = customers' - NC'
          BY <2>10, <4>1 DEF OpenCustomers, NC
        <5> QED BY <1>1, <2>3, <2>4, <5>1
      <4>2. CASE sellerRow.customer # 0
        <5>1. /\ OpenCustomers = customers + CC - Requests0
              /\ OpenCustomers' = customers' + CC' - Requests0
          BY <1>7, <2>10, <4>2 DEF OpenCustomers, CC
        <5> QED BY <1>1, <2>3, <2>4, <5>1
      <4> QED BY <4>1, <4>2
    <3>2. OpenAccounts' = OpenAccounts
      BY <1>7, <2>3, <2>10 DEF OpenAccounts, CA, NA
    <3>3. rolledBack' + NC' + customers <= rolledBack + NC + customers'
      BY <1>1, <2>3, <2>4, <2>10
    <3>4. OpenCustomers' + rolledBack <= OpenCustomers + rolledBack'
      <4>1. rolledBack' = rolledBack + 1 /\ rolledBack' \in Nat
        BY <1>1, <2>10
      <4> QED BY <1>1, <3>1, <4>1, BothMove
    <3> QED BY <1>7, <2>3, <3>2, <3>3, <3>4 DEF NA, NC
  <2> QED BY <1>5, <2>9, <2>10 DEF getOrCreateCustomer
<1> QED BY <1>3, <1>4, <1>5

CountNumbers ==
    /\ created \in Nat /\ customers \in Nat /\ rolledBack \in Nat
    /\ Count("name account") \in Nat /\ Count("name customer") \in Nat
    /\ OpenAccounts \in Int /\ OpenCustomers \in Int

LEMMA NumbersHold == OnboardingInv => CountNumbers
  BY CountTypes DEF CountNumbers

LEMMA NumbersHoldNext == OnboardingInv' => CountNumbers'
  BY NumbersHold, PTL

\* The arithmetic of it, for accounts a, customers c and what was rolled back r.
LEMMA SumStays ==
    ASSUME NEW a \in Int, NEW c \in Int, NEW r \in Nat,
           NEW a1 \in Int, NEW c1 \in Int, NEW r1 \in Nat,
           a + c <= r
    PROVE  /\ a1 + r <= a + r1 /\ c1 = c => a1 + c1 <= r1
           /\ a1 = a /\ c1 + r <= c + r1 => a1 + c1 <= r1
  OBVIOUS

LEMMA Swapped ==
    ASSUME NEW r \in Nat, NEW n \in Nat, NEW m \in Nat, NEW a \in Nat,
           NEW c \in Nat, r + n + m <= a + c
    PROVE  r + m + n <= c + a
  OBVIOUS

LEMMA SumBounds ==
    ASSUME NEW a \in Int, NEW c \in Int, NEW r \in Nat, NEW n \in Nat,
           NEW A \in Nat, NEW C \in Nat,
           a + c <= r, A - n <= a, C - n <= c
    PROVE  A + C <= 2 * n + r
  OBVIOUS

LEMMA OpenBounds ==
    ASSUME NEW A \in Nat, NEW n \in Nat, NEW k \in Nat, k <= n
    PROVE  A - n <= A - k /\ A - n <= A + k - n
  OBVIOUS

LEMMA RolledBound ==
    ASSUME NEW r \in Nat, NEW n \in Nat, NEW m \in Nat, NEW a \in Nat,
           NEW c \in Nat, r + n + m <= a + c
    PROVE  r <= a + c
  OBVIOUS

\* One side of the count moves and the other stays.
AccountsMove ==
    /\ OpenCustomers' = OpenCustomers /\ customers' = customers
    /\ Count("name customer")' = Count("name customer")
    /\ OpenAccounts' + rolledBack <= OpenAccounts + rolledBack'
    /\ rolledBack' + Count("name account")' + created <=
          rolledBack + Count("name account") + created'
CustomersMove ==
    /\ OpenAccounts' = OpenAccounts /\ created' = created
    /\ Count("name account")' = Count("name account")
    /\ OpenCustomers' + rolledBack <= OpenCustomers + rolledBack'
    /\ rolledBack' + Count("name customer")' + customers <=
          rolledBack + Count("name customer") + customers'

LEMMA CountInvMoves ==
    ASSUME OnboardingInv, OnboardingInv', CountInv,
           AccountsMove \/ CustomersMove
    PROVE  CountInv'
<1>1. CountNumbers /\ CountNumbers'
  BY NumbersHold, NumbersHoldNext
<1>2. OpenAccounts + OpenCustomers <= rolledBack
  BY DEF CountInv
<1>3. rolledBack + Count("name account") + Count("name customer") <=
         created + customers
  BY DEF CountInv
<1>4. OpenAccounts' + OpenCustomers' <= rolledBack'
  BY <1>1, <1>2, SumStays, Zenon DEF CountNumbers, AccountsMove, CustomersMove
<1>5. rolledBack' + Count("name account")' + Count("name customer")' <=
         created' + customers'
  <2>1. CASE AccountsMove
    <3>1. /\ rolledBack' \in Nat /\ Count("name account")' \in Nat
          /\ created' \in Nat
      BY <1>1 DEF CountNumbers
    <3>2. rolledBack' + Count("name account")' + Count("name customer") <=
             created' + customers
      <4>1. PICK r, n, m, a, c, r1, n1, a1 :
               /\ r = rolledBack /\ n = Count("name account") /\ m = Count("name customer")
               /\ a = created /\ c = customers /\ r1 = rolledBack'
               /\ n1 = Count("name account")' /\ a1 = created'
        OBVIOUS
      <4>2. /\ r \in Nat /\ n \in Nat /\ m \in Nat /\ a \in Nat /\ c \in Nat
            /\ r1 \in Nat /\ n1 \in Nat /\ a1 \in Nat
        BY <1>1, <3>1, <4>1, Zenon DEF CountNumbers
      <4>3. r + n + m <= a + c /\ r1 + n1 + a <= r + n + a1
        BY <1>3, <2>1, <4>1, Zenon DEF AccountsMove
      <4>4. r1 + n1 + m <= a1 + c
        BY <4>2, <4>3
      <4> QED BY <4>1, <4>4, Zenon
    <3> QED BY <2>1, <3>2, Zenon DEF AccountsMove
  <2>2. CASE CustomersMove
    <3>1. /\ rolledBack' \in Nat /\ Count("name customer")' \in Nat
          /\ customers' \in Nat
      BY <1>1 DEF CountNumbers
    <3>2. rolledBack + Count("name customer") + Count("name account") <=
             customers + created
      BY <1>1, <1>3, Swapped, Zenon DEF CountNumbers
    <3>3. rolledBack' + Count("name customer")' + Count("name account") <=
             customers' + created
      <4>1. PICK r, n, m, a, c, r1, n1, a1 :
               /\ r = rolledBack /\ n = Count("name customer") /\ m = Count("name account")
               /\ a = customers /\ c = created /\ r1 = rolledBack'
               /\ n1 = Count("name customer")' /\ a1 = customers'
        OBVIOUS
      <4>2. /\ r \in Nat /\ n \in Nat /\ m \in Nat /\ a \in Nat /\ c \in Nat
            /\ r1 \in Nat /\ n1 \in Nat /\ a1 \in Nat
        BY <1>1, <3>1, <4>1, Zenon DEF CountNumbers
      <4>3. r + n + m <= a + c /\ r1 + n1 + a <= r + n + a1
        BY <3>2, <2>2, <4>1, Zenon DEF CustomersMove
      <4>4. r1 + n1 + m <= a1 + c
        BY <4>2, <4>3
      <4> QED BY <4>1, <4>4, Zenon
    <3>4. rolledBack' + Count("name account") + Count("name customer")' <=
             created + customers'
      BY <1>1, <3>1, <3>3, Swapped, Zenon DEF CountNumbers
    <3> QED BY <2>2, <3>4, Zenon DEF CustomersMove
  <2> QED BY <2>1, <2>2
<1> QED BY <1>4, <1>5 DEF CountInv

LEMMA CountInvInit == OnboardingInit => CountInv
<1> SUFFICES ASSUME OnboardingInit PROVE CountInv
  OBVIOUS
<1>1. OnboardingInv
  BY OnboardingInvInit
<1>2. \A pc : pc # "idle" => Count(pc) = 0
  <2>1. \A pc : pc # "idle" => Standing(pc) = {}
    BY DEF OnboardingInit, Standing, NotAsking
  <2> QED BY <2>1, FS_EmptySet DEF Count
<1>3. Count("name account") = 0 /\ Count("name customer") = 0
  BY <1>2
<1>4. created = 0 /\ customers = 0 /\ rolledBack = 0
  <2>1. DOMAIN account = {}
    BY DEF OnboardingInit
  <2> QED BY <2>1, FS_EmptySet DEF created, OnboardingInit
<1>5. sellerRow.account = 0 /\ sellerRow.customer = 0
  BY DEF OnboardingInit
<1>6. OpenAccounts = 0 /\ OpenCustomers = 0
  <2>1. 0 - 0 = 0
    OBVIOUS
  <2> QED BY <1>3, <1>4, <1>5, <2>1, Zenon DEF OpenAccounts, OpenCustomers
<1>7. 0 + 0 <= 0 /\ 0 + 0 + 0 <= 0 + 0
  OBVIOUS
<1> QED BY <1>3, <1>4, <1>6, <1>7, Zenon DEF CountInv

LEMMA CountInvNext ==
    OnboardingInv /\ CountInv /\ [OnboardingNext]_onboardingVars => CountInv'
<1> SUFFICES ASSUME OnboardingInv, CountInv, [OnboardingNext]_onboardingVars
             PROVE  CountInv'
  OBVIOUS
<1>1. OnboardingInv' /\ CountNumbers /\ CountNumbers'
  BY OnboardingInvNext, NumbersHold, NumbersHoldNext
<1>2. sellerRow \in SellerRow
  BY DEF OnboardingInv, OnboardingTypes
<1>3. ASSUME NEW r \in StripeRequests,
             StartLink(r) \/ CreateAccount(r) \/ createHostOnboardingLink(r)
      PROVE  CountInv'
  BY <1>1, <1>3, LinkCounts, CountInvMoves, Zenon DEF AccountsMove
<1>4. ASSUME NEW r \in StripeRequests,
             \/ \E doomed \in BOOLEAN : StartCustomer(r, doomed)
             \/ CreateCustomer(r) \/ getOrCreateCustomer(r)
      PROVE  CountInv'
  BY <1>1, <1>4, CustomerCounts, CountInvMoves, Zenon DEF CustomersMove
<1>5. ASSUME NEW r \in StripeRequests,
             StartComplete(r) \/ StartCheck(r) \/ Retrieve(r)
      PROVE  CountInv'
  <2>1. UNCHANGED <<sellerRow, account, customers, rolledBack>>
    BY <1>5 DEF StartComplete, StartCheck, Retrieve, OnStripe
  <2>2. asking[r].pc \notin Counted
    <3>1. asking[r] = NotAsking \/ asking[r].pc = "retrieve"
      BY <1>5 DEF StartComplete, StartCheck, Retrieve
    <3>2. CASE asking[r] = NotAsking
      BY <3>2, IdleIs
    <3>3. CASE asking[r].pc = "retrieve"
      BY <3>3 DEF Counted
    <3> QED BY <3>1, <3>2, <3>3
  <2>3. \E q : q.pc \notin Counted /\ asking' = [asking EXCEPT ![r] = q]
    BY <1>5, IdleIs
       DEF StartComplete, StartCheck, Retrieve, Asks, Answered, Counted
  <2> QED BY <2>1, <2>2, <2>3, MovesElsewhere
<1>6. ASSUME NEW r \in StripeRequests,
             onBoardComplete(r) \/ checkHostOnboardingStatus(r)
      PROVE  CountInv'
  <2>1. UNCHANGED <<account, customers, rolledBack>>
    BY <1>6 DEF onBoardComplete, checkHostOnboardingStatus, OnStripe
  <2>2. asking[r].pc \notin Counted
    BY <1>6 DEF onBoardComplete, checkHostOnboardingStatus, Counted
  <2>3. asking' = [asking EXCEPT ![r] = NotAsking]
    BY <1>6 DEF onBoardComplete, checkHostOnboardingStatus, Answered
  <2>4. sellerRow'.customer = sellerRow.customer
    BY <1>2, <1>6 DEF onBoardComplete, checkHostOnboardingStatus, SellerRow
  <2>5. sellerRow.account # 0 /\ sellerRow'.account # 0
    <3>1. AskingInv(asking[r])
      BY DEF OnboardingInv
    <3>2. sellerRow.account # 0
      BY <1>6, <3>1 DEF onBoardComplete, checkHostOnboardingStatus, AskingInv
    <3>3. CASE onBoardComplete(r)
      <4>1. asking[r].id \in DOMAIN account /\ 0 \notin DOMAIN account
        <5>1. asking[r].id \in DOMAIN account
          BY <3>1, <3>3 DEF onBoardComplete, AskingInv
        <5>2. 0 \notin DOMAIN account
          BY DEF OnboardingInv, OnboardingTypes, AccountsAt
        <5> QED BY <5>1, <5>2
      <4>2. sellerRow'.account = asking[r].id
        BY <1>2, <3>3 DEF onBoardComplete, SellerRow
      <4> QED BY <3>2, <4>1, <4>2
    <3>4. CASE checkHostOnboardingStatus(r)
      BY <1>2, <3>2, <3>4 DEF checkHostOnboardingStatus, SellerRow
    <3> QED BY <1>6, <3>3, <3>4
  <2> QED BY <2>1, <2>2, <2>3, <2>4, <2>5, IdleIs, MovesElsewhere
<1>7. ASSUME UNCHANGED <<asking, customers, rolledBack>>, created' = created,
             sellerRow'.account = sellerRow.account,
             sellerRow'.customer = sellerRow.customer
      PROVE  CountInv'
  BY <1>7 DEF CountInv, OpenAccounts, OpenCustomers, Count, Standing, Requests0
<1>8. ASSUME NEW u \in updates, handleAccountUpdated(u)
      PROVE  CountInv'
  <2>1. UNCHANGED <<asking, customers, rolledBack>> /\ created' = created
    BY <1>8 DEF handleAccountUpdated, OnStripe, created
  <2>2. /\ sellerRow'.account = sellerRow.account
        /\ sellerRow'.customer = sellerRow.customer
    BY <1>2, <1>8 DEF handleAccountUpdated, SellerRow
  <2> QED BY <1>7, <2>1, <2>2
<1>9. ASSUME NEW a \in DOMAIN account, StripeReviews(a)
      PROVE  CountInv'
  <2>1. DOMAIN account' = DOMAIN account
    BY <1>9 DEF StripeReviews
  <2>2. UNCHANGED <<asking, customers, rolledBack, sellerRow>>
    BY <1>9 DEF StripeReviews
  <2>3. created' = created
    BY <2>1 DEF created
  <2> QED BY <1>7, <2>2, <2>3
<1>10. CASE UNCHANGED onboardingVars
  <2>1. UNCHANGED <<asking, customers, rolledBack, sellerRow>> /\ created' = created
    BY <1>10 DEF onboardingVars, created
  <2> QED BY <1>7, <2>1
<1> QED BY <1>3, <1>4, <1>5, <1>6, <1>8, <1>9, <1>10 DEF OnboardingNext

LEMMA OnboardingInvariant == OnboardingSpec => [](OnboardingInv /\ CountInv)
<1>1. OnboardingInit => OnboardingInv /\ CountInv
  BY OnboardingInvInit, CountInvInit
<1>2. OnboardingInv /\ CountInv /\ [OnboardingNext]_onboardingVars =>
         (OnboardingInv /\ CountInv)'
  BY OnboardingInvNext, CountInvNext
<1> QED BY <1>1, <1>2, PTL DEF OnboardingSpec

(* Whatever the seller's requests, Stripe's reviews and its late events do,  *)
(* the rows and the requests keep their types; in particular no more is      *)
(* rolled back than was created at Stripe (Onboarding).                      *)
THEOREM OnboardingTypeCorrect == OnboardingSpec => []OnboardingTypeOK
<1>1. OnboardingInv /\ CountInv => OnboardingTypeOK
  <2> SUFFICES ASSUME OnboardingInv, CountInv PROVE OnboardingTypeOK
    OBVIOUS
  <2>1. PICK n \in Nat : AccountsAt(n)
    BY DEF OnboardingInv, OnboardingTypes
  <2>2. n \in 0..MaxAccounts /\ account \in [1..n -> StripeView] /\ created = n
    BY <2>1, CreatedIs DEF AccountsAt
  <2>3. account \in UNION {[1..k -> StripeView] : k \in 0..MaxAccounts}
    BY <2>2
  <2>4. rolledBack \in 0..(2 * MaxAccounts)
    <3>1. rolledBack <= created + customers
      <4>1. CountNumbers
        BY NumbersHold
      <4> QED BY <4>1, RolledBound, Zenon DEF CountInv, CountNumbers
    <3>2. customers \in 0..MaxAccounts /\ rolledBack \in Nat
      BY DEF OnboardingInv, OnboardingTypes
    <3> QED BY <2>2, <3>1, <3>2, OnboardingAssumption
  <2> QED BY <2>3, <2>4
          DEF OnboardingInv, OnboardingTypes, OnboardingTypeOK, SellerRow
<1> QED BY <1>1, OnboardingInvariant, PTL

(* Accounts and customers do not pile up at Stripe, a seller shown as active *)
(* was enabled there, and the flag agrees with the status                    *)
(* (createHostOnboardingLink, onBoardComplete, checkHostOnboardingStatus,    *)
(* handleAccountUpdated, getOrCreateCustomer).                               *)
THEOREM OnboardingHeld == OnboardingSpec => []OnboardingHolds
<1>1. OnboardingInv /\ CountInv => AccountsAreBounded
  <2> SUFFICES ASSUME OnboardingInv, CountInv PROVE AccountsAreBounded
    OBVIOUS
  <2> DEFINE CA == Count("create account") NA == Count("name account")
             CC == Count("create customer") NC == Count("name customer")
  <2>1. /\ CA \in Nat /\ NA \in Nat /\ CC \in Nat /\ NC \in Nat
        /\ NA <= Requests0 /\ NC <= Requests0
        /\ CA <= Requests0 /\ CC <= Requests0
    BY CountTypes
  <2>2. CountNumbers /\ Requests0 \in Nat
    BY NumbersHold, CountTypes
  <2>3. OpenAccounts + OpenCustomers <= rolledBack
    BY DEF CountInv
  <2> HIDE DEF CA, NA, CC, NC
  <2>4. created - Requests0 <= OpenAccounts
    <3>1. \/ OpenAccounts = created - NA
          \/ OpenAccounts = created + CA - Requests0
      BY DEF OpenAccounts, NA, CA
    <3> QED BY <2>1, <2>2, <3>1, OpenBounds, Zenon DEF CountNumbers
  <2>5. customers - Requests0 <= OpenCustomers
    <3>1. \/ OpenCustomers = customers - NC
          \/ OpenCustomers = customers + CC - Requests0
      BY DEF OpenCustomers, NC, CC
    <3> QED BY <2>1, <2>2, <3>1, OpenBounds, Zenon DEF CountNumbers
  <2>6. created + customers <= 2 * Requests0 + rolledBack
    BY <2>2, <2>3, <2>4, <2>5, SumBounds, Zenon DEF CountNumbers
  <2> QED BY <2>6 DEF AccountsAreBounded, Requests0
<1>2. OnboardingInv => ActiveWasEnabled /\ FlagAgreesWithStatus
  <2> SUFFICES ASSUME OnboardingInv
               PROVE  ActiveWasEnabled /\ FlagAgreesWithStatus
    OBVIOUS
  <2>1. sellerRow.complete \in BOOLEAN
    BY DEF OnboardingInv, OnboardingTypes, SellerRow
  <2>2. redirected \in BOOLEAN /\ replaced \in BOOLEAN
    BY DEF OnboardingInv, OnboardingTypes
  <2>3. ActiveInv /\ FlagInv
    BY DEF OnboardingInv
  <2> QED BY <2>1, <2>2, <2>3
          DEF ActiveInv, FlagInv, ActiveWasEnabled, FlagAgreesWithStatus
<1>3. OnboardingInv /\ CountInv => OnboardingHolds
  BY <1>1, <1>2 DEF OnboardingHolds
<1> QED BY <1>3, OnboardingInvariant, PTL

-----------------------------------------------------------------------------
(* The second webhook endpoint                                             *)

Row == [status : RowStatus, key : {"session", "intent"},
        charge : BOOLEAN, payout : BOOLEAN]
Event == [kind : DirectEvents, payment : Payments, tries : 0..MaxTries]

\* An event, however late and however often it is delivered, tells of a fact.
EventsTell == \A e \in incoming : TellsOf[e.kind] \in fact[e.payment]

Caused(status, happened) ==
    status = "PENDING" \/ Causes(status) \cap happened # {}

EndpointInv ==
    /\ txn \in [Payments -> Row]
    /\ fact \in [Payments -> SUBSET Fact]
    /\ incoming \subseteq Event
    /\ confirming \subseteq Payments
    /\ EventsTell
    /\ \A p \in Payments : Caused(txn[p].status, fact[p])

LEMMA EndpointInvInit == EndpointInit => EndpointInv
<1> SUFFICES ASSUME EndpointInit PROVE EndpointInv
  OBVIOUS
<1>1. PICK row : row = [status |-> "PENDING", key |-> "session",
                        charge |-> FALSE, payout |-> FALSE]
  OBVIOUS
<1>2. row \in Row /\ row.status = "PENDING"
  BY <1>1 DEF Row, RowStatus
<1>3. txn = [p \in Payments |-> row]
  BY <1>1 DEF EndpointInit
<1>4. txn \in [Payments -> Row] /\ \A p \in Payments : txn[p].status = "PENDING"
  BY <1>2, <1>3
<1>5. /\ fact \in [Payments -> SUBSET Fact] /\ incoming = {} /\ confirming = {}
  BY DEF EndpointInit
<1> QED BY <1>4, <1>5 DEF EndpointInv, EventsTell, Caused

\* What happens at Stripe is one fact more, and the events that tell of it.
LEMMA FactsGrow ==
    ASSUME EndpointInv, NEW p \in Payments, NEW f \in Fact, Happens(p, f)
    PROVE  /\ fact' \in [Payments -> SUBSET Fact]
           /\ \A q \in Payments : fact[q] \subseteq fact'[q]
           /\ f \in fact'[p]
           /\ incoming' \subseteq Event /\ EventsTell'
<1>1. fact' = [fact EXCEPT ![p] = @ \cup {f}] /\ fact \in [Payments -> SUBSET Fact]
  BY DEF Happens, EndpointInv
<1>2. /\ fact' \in [Payments -> SUBSET Fact]
      /\ \A q \in Payments : fact[q] \subseteq fact'[q]
      /\ f \in fact'[p]
  BY <1>1
<1> DEFINE new == EventsOf(p, {k \in DirectEvents : TellsOf[k] = f})
<1>3. incoming' = incoming \cup new
  BY DEF Happens
<1>4. ASSUME NEW e \in new
      PROVE  e \in Event /\ e.payment = p /\ TellsOf[e.kind] = f
  <2>1. PICK k \in DirectEvents :
           TellsOf[k] = f /\ e = [kind |-> k, payment |-> p, tries |-> 0]
    BY DEF EventsOf
  <2>2. 0 \in 0..MaxTries
    BY EndpointAssumption
  <2> QED BY <2>1, <2>2 DEF Event
<1> HIDE DEF new
<1>5. incoming' \subseteq Event
  BY <1>3, <1>4 DEF EndpointInv
<1>6. ASSUME NEW e \in incoming'
      PROVE  TellsOf[e.kind] \in fact'[e.payment]
  <2>1. CASE e \in incoming
    <3>1. e.payment \in Payments
      BY <2>1 DEF EndpointInv, Event
    <3> QED BY <1>2, <2>1, <3>1 DEF EndpointInv, EventsTell
  <2>2. CASE e \in new
    BY <1>2, <1>4, <2>2
  <2> QED BY <1>3, <2>1, <2>2
<1> QED BY <1>2, <1>5, <1>6 DEF EventsTell

\* A row is written: what it says now has happened by now.
LEMMA RowIsWritten ==
    ASSUME EndpointInv, NEW p \in Payments, NEW row \in Row,
           txn' = [txn EXCEPT ![p] = row],
           fact' \in [Payments -> SUBSET Fact],
           \A q \in Payments : fact[q] \subseteq fact'[q],
           Caused(row.status, fact'[p])
    PROVE  /\ txn' \in [Payments -> Row]
           /\ \A q \in Payments : Caused(txn[q].status, fact[q])'
<1>1. txn' \in [Payments -> Row]
  BY DEF EndpointInv
<1>2. ASSUME NEW q \in Payments
      PROVE  Caused(txn[q].status, fact[q])'
  <2>1. CASE q = p
    BY <2>1 DEF EndpointInv, Caused
  <2>2. CASE q # p
    <3>1. txn'[q] = txn[q] /\ Caused(txn[q].status, fact[q])
      BY <2>2 DEF EndpointInv
    <3> QED BY <3>1 DEF Caused
  <2> QED BY <2>1, <2>2
<1> QED BY <1>1, <1>2

\* The rows as they are, while something happened.
LEMMA RowsStay ==
    ASSUME EndpointInv, UNCHANGED txn,
           \A q \in Payments : fact[q] \subseteq fact'[q]
    PROVE  /\ txn' \in [Payments -> Row]
           /\ \A q \in Payments : Caused(txn[q].status, fact[q])'
  BY DEF EndpointInv, Caused

\* One status is written, through the id a row is found by.
LEMMA StatusIsWritten ==
    ASSUME EndpointInv, NEW p \in Payments, NEW id, NEW status \in RowStatus,
           updateTransactionStatus(p, id, status),
           fact' \in [Payments -> SUBSET Fact],
           \A q \in Payments : fact[q] \subseteq fact'[q],
           Caused(status, fact'[p])
    PROVE  /\ txn' \in [Payments -> Row]
           /\ \A q \in Payments : Caused(txn[q].status, fact[q])'
<1>1. txn' = [txn EXCEPT ![p].status = status]
  BY DEF updateTransactionStatus, Find
<1>2. PICK row : row = [txn[p] EXCEPT !.status = status]
  OBVIOUS
<1>3. row \in Row /\ row.status = status
  BY <1>2 DEF EndpointInv, Row
<1>4. txn' = [txn EXCEPT ![p] = row]
  BY <1>1, <1>2
<1> QED BY <1>3, <1>4, RowIsWritten

LEMMA RefuseKeeps ==
    ASSUME EndpointInv, NEW e \in incoming, UNCHANGED <<fact, confirming>>,
           Refuse(e) \/ (Answer(e) /\ UNCHANGED txn)
    PROVE  EndpointInv'
<1>1. e \in Event
  BY DEF EndpointInv
<1>2. /\ UNCHANGED txn
      /\ \A x \in incoming' : x \in Event /\ TellsOf[x.kind] \in fact[x.payment]
  <2>1. CASE Answer(e) /\ UNCHANGED txn
    BY <2>1 DEF Answer, EndpointInv, EventsTell
  <2>2. CASE Refuse(e)
    <3>1. PICK again : again = [e EXCEPT !.tries = @ + 1]
      OBVIOUS
    <3>2. /\ UNCHANGED txn
          /\ \A x \in incoming' : \/ x \in incoming
                                  \/ x = again /\ e.tries + 1 < MaxTries
      BY <2>2, <3>1 DEF Refuse
    <3>3. again.kind = e.kind /\ again.payment = e.payment
      BY <1>1, <3>1 DEF Event
    <3>4. ASSUME e.tries + 1 < MaxTries PROVE again \in Event
      <4>1. e.tries \in 0..MaxTries
        BY <1>1 DEF Event
      <4>2. e.tries + 1 \in 0..MaxTries
        BY <3>4, <4>1, EndpointAssumption
      <4> QED BY <1>1, <3>1, <4>2 DEF Event
    <3> QED BY <3>2, <3>3, <3>4 DEF EndpointInv, EventsTell
  <2> QED BY <2>1, <2>2
<1> QED BY <1>2 DEF EndpointInv, EventsTell

LEMMA WebhookKeeps ==
    ASSUME EndpointInv, NEW e \in incoming, handleWebhook(e)
    PROVE  EndpointInv'
<1>1. e.kind \in DirectEvents /\ e.payment \in Payments
  BY DEF EndpointInv, Event
<1>2. CASE handlePayment(e)
  <2>1. UNCHANGED <<fact, confirming>>
    BY <1>2 DEF handlePayment
  <2>2. CASE Find(e.payment, IdOf(e.kind)) = {}
    BY <1>2, <2>1, <2>2, RefuseKeeps DEF handlePayment
  <2>3. CASE Find(e.payment, IdOf(e.kind)) # {}
    <3>1. /\ e.kind \in {"session completed", "intent succeeded", "intent failed"}
          /\ updateTransactionStatus(e.payment, IdOf(e.kind), StatusFor(e.kind))
          /\ Answer(e)
      BY <1>2, <2>3 DEF handlePayment
    <3>2. TellsOf[e.kind] \in fact[e.payment]
      BY DEF EndpointInv, EventsTell
    <3>3. StatusFor(e.kind) \in RowStatus /\ TellsOf[e.kind] \in Causes(StatusFor(e.kind))
      BY <3>1 DEF StatusFor, RowStatus, TellsOf, DirectEvents, Causes
    <3>4. Caused(StatusFor(e.kind), fact'[e.payment])
      BY <2>1, <3>2, <3>3 DEF Caused
    <3>5. /\ txn' \in [Payments -> Row]
          /\ \A q \in Payments : Caused(txn[q].status, fact[q])'
      BY <1>1, <2>1, <3>1, <3>3, <3>4, StatusIsWritten DEF EndpointInv
    <3> QED BY <2>1, <3>1, <3>5 DEF EndpointInv, EventsTell, Answer
  <2> QED BY <2>2, <2>3
<1>3. CASE handleTransferCreated(e)
  BY <1>3, RefuseKeeps DEF handleTransferCreated
<1>4. CASE handleChargeDisputeCreated(e)
  BY <1>4, RefuseKeeps DEF handleChargeDisputeCreated
<1> QED BY <1>2, <1>3, <1>4 DEF handleWebhook

LEMMA ConfirmKeeps ==
    ASSUME EndpointInv, NEW p \in Payments, confirmPaymentIntent(p)
    PROVE  EndpointInv'
<1>1. PICK f \in ConfirmsAs(p) :
         /\ IF f \in fact[p] THEN UNCHANGED <<fact, incoming>> ELSE Happens(p, f)
         /\ IF Find(p, "intent") = {}
            THEN UNCHANGED txn
            ELSE updateTransactionStatus(p, "intent", ConfirmedStatus(f))
  BY DEF confirmPaymentIntent
<1>2. f \in {"refused", "processing", "paid"} /\ f \in Fact
  BY DEF ConfirmsAs, Fact
<1>3. /\ fact' \in [Payments -> SUBSET Fact]
      /\ \A q \in Payments : fact[q] \subseteq fact'[q]
      /\ f \in fact'[p]
      /\ incoming' \subseteq Event /\ EventsTell'
  <2>1. CASE f \in fact[p]
    BY <1>1, <2>1 DEF EndpointInv, EventsTell
  <2>2. CASE f \notin fact[p]
    BY <1>1, <1>2, <2>2, FactsGrow
  <2> QED BY <2>1, <2>2
<1>4. ConfirmedStatus(f) \in RowStatus /\ f \in Causes(ConfirmedStatus(f))
  BY <1>2 DEF ConfirmedStatus, Causes, RowStatus
<1>5. Caused(ConfirmedStatus(f), fact'[p])
  BY <1>3, <1>4 DEF Caused
<1>6. /\ txn' \in [Payments -> Row]
      /\ \A q \in Payments : Caused(txn[q].status, fact[q])'
  <2>1. CASE Find(p, "intent") = {}
    BY <1>1, <1>3, <2>1, RowsStay
  <2>2. CASE Find(p, "intent") # {}
    BY <1>1, <1>3, <1>4, <1>5, <2>2, StatusIsWritten
  <2> QED BY <2>1, <2>2
<1>7. confirming' \subseteq Payments
  BY DEF confirmPaymentIntent, EndpointInv
<1> QED BY <1>3, <1>6, <1>7 DEF EndpointInv

\* A writer that knows the fact its status stands for, or leaves the status.
LEMMA QueueKeeps ==
    ASSUME EndpointInv, NEW p \in Payments, NEW row \in Row,
           QueueWrites(p, row), Caused(row.status, fact[p])
    PROVE  EndpointInv'
<1>1. txn' = [txn EXCEPT ![p] = row] /\ UNCHANGED <<fact, incoming, confirming>>
  BY DEF QueueWrites
<1>2. /\ txn' \in [Payments -> Row]
      /\ \A q \in Payments : Caused(txn[q].status, fact[q])'
  BY <1>1, RowIsWritten DEF EndpointInv
<1> QED BY <1>1, <1>2 DEF EndpointInv, EventsTell

LEMMA OtherWritersKeep ==
    ASSUME EndpointInv, NEW p \in Payments,
           \/ QueueCompleted(p) \/ QueueExpired(p) \/ QueueSucceeded(p)
           \/ QueueDeclined(p) \/ QueueRefunded(p) \/ PayoutRecorded(p)
    PROVE  EndpointInv'
<1>1. txn[p] \in Row /\ Caused(txn[p].status, fact[p])
  BY DEF EndpointInv
<1>2. CASE QueueCompleted(p)
  <2>1. PICK row : row = [txn[p] EXCEPT !.status = "SUCCESS", !.key = "intent"]
    OBVIOUS
  <2>2. row \in Row /\ row.status = "SUCCESS"
    BY <1>1, <2>1 DEF Row, RowStatus
  <2>3. QueueWrites(p, row) /\ "paid" \in fact[p]
    BY <1>2, <2>1 DEF QueueCompleted
  <2>4. Caused(row.status, fact[p])
    BY <2>2, <2>3 DEF Caused, Causes
  <2> QED BY <2>2, <2>3, <2>4, QueueKeeps
<1>3. CASE QueueExpired(p)
  <2>1. PICK row : row = [txn[p] EXCEPT !.status = "FAILED"]
    OBVIOUS
  <2>2. row \in Row /\ row.status = "FAILED"
    BY <1>1, <2>1 DEF Row, RowStatus
  <2>3. QueueWrites(p, row) /\ "expired" \in fact[p]
    BY <1>3, <2>1 DEF QueueExpired
  <2>4. Caused(row.status, fact[p])
    BY <2>2, <2>3 DEF Caused, Causes
  <2> QED BY <2>2, <2>3, <2>4, QueueKeeps
<1>4. CASE QueueSucceeded(p)
  <2>1. PICK row : row = [txn[p] EXCEPT !.status = "SUCCESS", !.charge = TRUE]
    OBVIOUS
  <2>2. row \in Row /\ row.status = "SUCCESS"
    BY <1>1, <2>1 DEF Row, RowStatus
  <2>3. QueueWrites(p, row) /\ "paid" \in fact[p]
    BY <1>4, <2>1 DEF QueueSucceeded
  <2>4. Caused(row.status, fact[p])
    BY <2>2, <2>3 DEF Caused, Causes
  <2> QED BY <2>2, <2>3, <2>4, QueueKeeps
<1>5. CASE QueueDeclined(p)
  <2>1. PICK row : row = [txn[p] EXCEPT !.status = "FAILED"]
    OBVIOUS
  <2>2. row \in Row /\ row.status = "FAILED"
    BY <1>1, <2>1 DEF Row, RowStatus
  <2>3. QueueWrites(p, row) /\ "declined" \in fact[p]
    BY <1>5, <2>1 DEF QueueDeclined
  <2>4. Caused(row.status, fact[p])
    BY <2>2, <2>3 DEF Caused, Causes
  <2> QED BY <2>2, <2>3, <2>4, QueueKeeps
<1>6. CASE QueueRefunded(p)
  <2>1. PICK row : row = [txn[p] EXCEPT !.status = "REFUNDED"]
    OBVIOUS
  <2>2. row \in Row /\ row.status = "REFUNDED"
    BY <1>1, <2>1 DEF Row, RowStatus
  <2>3. QueueWrites(p, row) /\ "refunded" \in fact[p]
    BY <1>6, <2>1 DEF QueueRefunded
  <2>4. Caused(row.status, fact[p])
    BY <2>2, <2>3 DEF Caused, Causes
  <2> QED BY <2>2, <2>3, <2>4, QueueKeeps
<1>7. CASE PayoutRecorded(p)
  <2>1. PICK row : row = [txn[p] EXCEPT !.payout = TRUE]
    OBVIOUS
  <2>2. row \in Row /\ row.status = txn[p].status
    BY <1>1, <2>1 DEF Row
  <2>3. QueueWrites(p, row)
    BY <1>7, <2>1 DEF PayoutRecorded
  <2> QED BY <1>1, <2>2, <2>3, QueueKeeps
<1> QED BY <1>2, <1>3, <1>4, <1>5, <1>6, <1>7

LEMMA StripeKeeps ==
    ASSUME EndpointInv, NEW p \in Payments, StripeMoves(p) \/ RetrieveIntent(p)
    PROVE  EndpointInv'
<1>1. CASE StripeMoves(p)
  <2>1. PICK f \in Fact : Happens(p, f)
    BY <1>1 DEF StripeMoves
  <2>2. UNCHANGED <<txn, confirming>>
    BY <1>1 DEF StripeMoves
  <2>3. /\ fact' \in [Payments -> SUBSET Fact]
        /\ \A q \in Payments : fact[q] \subseteq fact'[q]
        /\ incoming' \subseteq Event /\ EventsTell'
    BY <2>1, FactsGrow
  <2>4. /\ txn' \in [Payments -> Row]
        /\ \A q \in Payments : Caused(txn[q].status, fact[q])'
    BY <2>2, <2>3, RowsStay
  <2> QED BY <2>2, <2>3, <2>4 DEF EndpointInv
<1>2. CASE RetrieveIntent(p)
  BY <1>2 DEF RetrieveIntent, EndpointInv, EventsTell
<1> QED BY <1>1, <1>2

LEMMA EndpointInvariant == EndpointSpec => []EndpointInv
<1>1. ASSUME EndpointInv, [EndpointNext]_endpointVars
      PROVE  EndpointInv'
  <2>1. CASE EndpointNext
    BY <1>1, <2>1, WebhookKeeps, StripeKeeps, ConfirmKeeps, OtherWritersKeep
       DEF EndpointNext
  <2>2. CASE UNCHANGED endpointVars
    BY <1>1, <2>2 DEF endpointVars, EndpointInv, EventsTell
  <2> QED BY <1>1, <2>1, <2>2
<1> QED BY <1>1, EndpointInvInit, PTL DEF EndpointSpec

(* The rows, the facts and the events on their way keep their types under    *)
(* both endpoints, confirmPaymentIntent and repeated deliveries              *)
(* (stripe.service.ts).                                                      *)
THEOREM EndpointTypeCorrect == EndpointSpec => []EndpointTypeOK
<1>1. EndpointInv => EndpointTypeOK
  BY DEF EndpointInv, EndpointTypeOK, Row, Event
<1> QED BY <1>1, EndpointInvariant, PTL

(* A row says only what has happened to its own payment, whichever endpoint  *)
(* or confirmation wrote it and however late (updateTransactionStatus).      *)
THEOREM StatusCaused == EndpointSpec => []StatusHasCause
<1>1. EndpointInv => StatusHasCause
  BY DEF EndpointInv, StatusHasCause, Caused
<1> QED BY <1>1, EndpointInvariant, PTL

-----------------------------------------------------------------------------
(* Accounts: requests, codes and the lockout                               *)

RequestPcs == {"create user", "unblock", "next", "compare", "check",
               "block", "delete codes", "delete 2fa", "create code",
               "mail", "tokens", "read user", "accept", "write"}
Checking == {"check", "block"}

\* A request lifts only a block it has read, answers with a code that was
\* issued, and does nothing else before there is a user.
ServedInv(q) ==
    /\ q.pc = "unblock" => q.saw.status = "BLOCKED"
    /\ q.pc \in {"read user", "accept"} => q.code \in 1..issued
    /\ user = NoUser => q.pc \in {"idle", "create user"}

CodesInv ==
    /\ \A t \in OtpType : code[t].id \in 0..issued
    /\ used \subseteq 1..issued
    /\ UsedCodesAreGone

\* Once the history ends in MaxAttempts FAILED rows, somebody is still to
\* look at it or the account is BLOCKED: leaving that status is what lifts.
LockoutInv ==
    /\ user # NoUser /\ user.kind = "credentials"
    /\ failed = MaxAttempts /\ lifted = FALSE
    /\ \A r \in Requests : request[r].pc \notin Checking
    => user.status = "BLOCKED"

Unregistered ==
    user = NoUser => failed = 0 /\ \A t \in OtpType : code[t] = NoCode

AccountInv ==
    /\ AccountTypeOK /\ CodesInv
    /\ \A r \in Requests : ServedInv(request[r])
    /\ Unregistered
    /\ LockoutInv

LEMMA RecordsOfARequest ==
    /\ Unread \in Copy /\ Idle.pc = "idle" /\ NoCode \in Otp /\ NoCode.id = 0
    /\ 0 \in Codes \cup {0} /\ "VERIFY_EMAIL" \in OtpType
    /\ "TWO_FACTOR" \in OtpType
<1>1. Unread \in Copy
  BY DEF Unread, Copy, UserStatus
<1>2. NoCode \in Otp /\ NoCode.id = 0
  BY DEF NoCode, Otp
<1>3. Idle.pc = "idle"
  BY DEF Idle
<1> QED BY <1>1, <1>2, <1>3, AccountsAssumption

LEMMA AccountInvInit == AccountsInit => AccountInv
<1> SUFFICES ASSUME AccountsInit PROVE AccountInv
  OBVIOUS
<1>1. failed = 0 /\ issued = 0 /\ 0 \in 0..MaxAttempts /\ 0 \in 0..MaxCodes
      /\ 0 # MaxAttempts /\ 0 \in 0..0
  BY AccountsAssumption DEF AccountsInit
<1>2. /\ \A t \in OtpType : code[t] = NoCode
      /\ code \in [OtpType -> Otp]
  BY RecordsOfARequest DEF AccountsInit
<1>3. /\ \A r \in Requests : request[r] = Idle
      /\ request \in [Requests -> Request \cup {Idle}]
  BY DEF AccountsInit
<1>4. user = NoUser /\ used = {} /\ lifted = FALSE
  BY DEF AccountsInit
<1>5. AccountTypeOK
  BY <1>1, <1>2, <1>3, <1>4 DEF AccountTypeOK
<1>6. CodesInv
  BY <1>1, <1>2, <1>4, RecordsOfARequest DEF CodesInv, UsedCodesAreGone
<1>7. \A r \in Requests : ServedInv(request[r])
  BY <1>3, RecordsOfARequest DEF ServedInv
<1> QED BY <1>1, <1>2, <1>4, <1>5, <1>6, <1>7
        DEF AccountInv, LockoutInv, Unregistered

\* What the sub-actions do to a request, as the state it goes to.
LEMMA RequestIs ==
    ASSUME NEW op \in AllOps, NEW pc \in RequestPcs, NEW saw \in Copy,
           NEW id \in Codes \cup {0}
    PROVE  LET q == [op |-> op, pc |-> pc, saw |-> saw, code |-> id,
                     type |-> "VERIFY_EMAIL"]
           IN  q \in Request /\ q.pc = pc /\ q.saw = saw /\ q.code = id
  BY RecordsOfARequest DEF Request, RequestPcs

LEMMA GoesTo ==
    ASSUME AccountInv, NEW r \in Requests, request[r].pc # "idle",
           NEW pc \in RequestPcs, GoTo(r, pc)
    PROVE  \E q \in Request : /\ request' = [request EXCEPT ![r] = q]
                              /\ q.pc = pc /\ q.saw = request[r].saw
                              /\ q.code = request[r].code
<1>1. PICK q : q = [request[r] EXCEPT !.pc = pc]
  OBVIOUS
<1>2. request[r] \in Request
  BY RecordsOfARequest DEF AccountInv, AccountTypeOK
<1>3. /\ q \in Request /\ q.pc = pc /\ q.saw = request[r].saw
      /\ q.code = request[r].code
  BY <1>1, <1>2 DEF Request, RequestPcs
<1>4. request' = [request EXCEPT ![r] = q]
  BY <1>1 DEF GoTo
<1> QED BY <1>3, <1>4

LEMMA GoesToLast ==
    ASSUME AccountInv, NEW r \in Requests, NEW pc \in RequestPcs, GoToLast(r, pc)
    PROVE  \E q \in Request : /\ request' = [request EXCEPT ![r] = q]
                              /\ q.pc = pc
<1>1. PICK q : q = [op |-> "signIn", pc |-> pc, saw |-> Unread, code |-> 0,
                    type |-> "VERIFY_EMAIL"]
  OBVIOUS
<1>2. q \in Request /\ q.pc = pc
  BY <1>1, RecordsOfARequest DEF Request, RequestPcs, AllOps
<1> QED BY <1>1, <1>2 DEF GoToLast

LEMMA GoesToIssue ==
    ASSUME AccountInv, NEW r \in Requests, request[r].pc # "idle",
           NEW pc \in RequestPcs, NEW t \in OtpType, GoToIssue(r, pc, t)
    PROVE  \E q \in Request : /\ request' = [request EXCEPT ![r] = q]
                              /\ q.pc = pc
<1>1. request[r] \in Request
  BY RecordsOfARequest DEF AccountInv, AccountTypeOK
<1>2. CASE request[r].op = "signIn"
  <2>1. PICK saw : saw = IF t = "TWO_FACTOR" THEN Unread ELSE request[r].saw
    OBVIOUS
  <2>2. saw \in Copy
    BY <1>1, <2>1, RecordsOfARequest DEF Request
  <2>3. PICK q : q = [request[r] EXCEPT !.pc = pc, !.type = t, !.saw = saw]
    OBVIOUS
  <2>4. q \in Request /\ q.pc = pc
    BY <1>1, <2>2, <2>3 DEF Request, RequestPcs
  <2>5. request' = [request EXCEPT ![r] = q]
    BY <1>2, <2>1, <2>3 DEF GoToIssue
  <2> QED BY <2>4, <2>5
<1>3. CASE request[r].op # "signIn"
  <2>1. PICK q : q = [op |-> "resendOtp", pc |-> pc, saw |-> Unread,
                      code |-> 0, type |-> t]
    OBVIOUS
  <2>2. q \in Request /\ q.pc = pc
    BY <2>1, RecordsOfARequest DEF Request, RequestPcs, AllOps
  <2>3. request' = [request EXCEPT ![r] = q]
    BY <1>3, <2>1 DEF GoToIssue
  <2> QED BY <2>2, <2>3
<1> QED BY <1>2, <1>3

\* A request moves; what the others know stays true.
LEMMA ServedStays ==
    ASSUME AccountInv, NEW r \in Requests, NEW q \in Request \cup {Idle},
           request' = [request EXCEPT ![r] = q], ServedInv(q)',
           1..issued \subseteq 1..issued', user' = NoUser => user = NoUser
    PROVE  /\ request' \in [Requests -> Request \cup {Idle}]
           /\ \A s \in Requests : ServedInv(request[s])'
<1>1. request' \in [Requests -> Request \cup {Idle}]
  BY DEF AccountInv, AccountTypeOK
<1>2. ASSUME NEW s \in Requests
      PROVE  ServedInv(request[s])'
  <2>1. CASE s = r
    <3>1. request'[s] = q
      BY <2>1 DEF AccountInv, AccountTypeOK
    <3> QED BY <3>1 DEF ServedInv
  <2>2. CASE s # r
    <3>1. request'[s] = request[s] /\ ServedInv(request[s])
      BY <2>2 DEF AccountInv, AccountTypeOK
    <3> QED BY <3>1 DEF ServedInv
  <2> QED BY <2>1, <2>2
<1> QED BY <1>1, <1>2

LEMMA LockoutStays ==
    ASSUME AccountInv, NEW r \in Requests, NEW q,
           request' = [request EXCEPT ![r] = q], request[r].pc \notin Checking,
           UNCHANGED <<user, failed, lifted>>
    PROVE  LockoutInv'
<1>1. \A s \in Requests : request[s].pc \in Checking => request'[s] = request[s]
  BY DEF AccountInv, AccountTypeOK
<1>2. (\A s \in Requests : request'[s].pc \notin Checking) =>
         \A s \in Requests : request[s].pc \notin Checking
  BY <1>1
<1> QED BY <1>2 DEF AccountInv, LockoutInv

\* Steps that write nothing but where their request stands.
LEMMA RequestsKeep ==
    ASSUME AccountInv, NEW r \in Requests, NEW q \in Request \cup {Idle},
           request' = [request EXCEPT ![r] = q], ServedInv(q)',
           request[r].pc \notin Checking,
           UNCHANGED <<user, failed, code, issued, used, lifted>>
    PROVE  AccountInv'
<1>1. /\ request' \in [Requests -> Request \cup {Idle}]
      /\ \A s \in Requests : ServedInv(request[s])'
  BY ServedStays
<1>2. LockoutInv'
  BY LockoutStays
<1>3. AccountTypeOK'
  BY <1>1 DEF AccountInv, AccountTypeOK
<1>4. CodesInv' /\ Unregistered'
  BY DEF AccountInv, CodesInv, UsedCodesAreGone, Unregistered
<1> QED BY <1>1, <1>2, <1>3, <1>4 DEF AccountInv

\* Steps that write the codes.
LEMMA CodesKeep ==
    ASSUME AccountInv, NEW r \in Requests, NEW q \in Request \cup {Idle},
           request' = [request EXCEPT ![r] = q], ServedInv(q)',
           request[r].pc \notin Checking,
           code' \in [OtpType -> Otp], issued' \in 0..MaxCodes,
           1..issued \subseteq 1..issued', CodesInv', Unregistered',
           UNCHANGED <<user, failed, used, lifted>>
    PROVE  AccountInv'
<1>1. /\ request' \in [Requests -> Request \cup {Idle}]
      /\ \A s \in Requests : ServedInv(request[s])'
  BY ServedStays
<1>2. LockoutInv'
  BY LockoutStays
<1>3. AccountTypeOK'
  BY <1>1 DEF AccountInv, AccountTypeOK
<1> QED BY <1>1, <1>2, <1>3 DEF AccountInv

LEMMA ServedFreely ==
    ASSUME NEW q, q.pc \notin {"unblock", "read user", "accept"},
           user' # NoUser \/ q.pc \in {"idle", "create user"}
    PROVE  ServedInv(q)'
  BY DEF ServedInv

\* Whoever is past the registration has a user, and is a request.
LEMMA ServedNow ==
    ASSUME AccountInv, NEW r \in Requests, request[r].pc # "idle"
    PROVE  /\ request[r] \in Request /\ ServedInv(request[r])
           /\ request[r].saw \in Copy /\ request[r].code \in Codes \cup {0}
           /\ request[r].type \in OtpType /\ request[r].op \in AllOps
           /\ request[r].pc # "create user" => user # NoUser
<1>1. request[r] \in Request /\ ServedInv(request[r])
  BY RecordsOfARequest DEF AccountInv, AccountTypeOK
<1> QED BY <1>1 DEF Request, ServedInv

LEMMA CopyIsTyped ==
    ASSUME AccountInv, user # NoUser, NEW op
    PROVE  /\ CopyOf(user, op) \in Copy
           /\ user.status = "BLOCKED" => CopyOf(user, op).status = "BLOCKED"
<1>1. user \in User
  BY DEF AccountInv, AccountTypeOK
<1>2. user.status \in UserStatus
  BY <1>1 DEF User
<1>3. PICK s : s = IF user.status = "BLOCKED" \/ op = "forgotPassword"
                   THEN user.status ELSE "ACTIVE"
  OBVIOUS
<1>4. PICK e : e = (op \in SignInOps /\ user.isEmailVerified)
  OBVIOUS
<1>5. PICK f : f = (op \in SignInOps \cup {"toggleTwoFactor"}
                    /\ user.isTwoFactorEnabled)
  OBVIOUS
<1>6. s \in UserStatus /\ (user.status = "BLOCKED" => s = "BLOCKED")
  BY <1>2, <1>3 DEF UserStatus
<1>7. e \in BOOLEAN /\ f \in BOOLEAN
  BY <1>4, <1>5
<1>8. PICK c : c = [status |-> s, isEmailVerified |-> e, isTwoFactorEnabled |-> f]
  OBVIOUS
<1>9. c \in Copy /\ c.status = s
  BY <1>6, <1>7, <1>8 DEF Copy
<1>10. CopyOf(user, op) = c
  BY <1>3, <1>4, <1>5, <1>8 DEF CopyOf
<1> QED BY <1>6, <1>9, <1>10

LEMMA SignUpStarts ==
    ASSUME AccountInv, NEW r \in Requests, StartSignUp(r)
    PROVE  AccountInv'
<1>1. PICK q : q = [op |-> "signUp", pc |-> "create user", saw |-> Unread,
                    code |-> 0, type |-> "VERIFY_EMAIL"]
  OBVIOUS
<1>2. q \in Request /\ q.pc = "create user"
  <2>1. "signUp" \in AllOps /\ "create user" \in RequestPcs
    BY DEF AllOps, RequestPcs
  <2> QED BY <1>1, <2>1, RequestIs, RecordsOfARequest
<1>3. /\ request' = [request EXCEPT ![r] = q] /\ request[r].pc = "idle"
      /\ UNCHANGED <<user, failed, code, issued, used, lifted>>
  BY <1>1 DEF StartSignUp, Begin, At
<1>4. ServedInv(q)'
  BY <1>2, ServedFreely
<1> QED BY <1>2, <1>3, <1>4, RequestsKeep DEF Checking

Finds(r) == \E op \in {"verifyEmail", "verifyOtp", "verify2fa"}, c \in Codes :
               FindCode(r, op, c)

\* What is found is the code of somebody, and was issued.
LEMMA FoundWasIssued ==
    ASSUME AccountInv, NEW c \in Codes, NEW t \in OtpType, code[t].id = c
    PROVE  c \in 1..issued /\ user # NoUser
<1>1. issued \in Nat /\ c \in Nat /\ c # 0 /\ c \in 0..issued
  BY AccountsAssumption DEF AccountInv, AccountTypeOK, Codes, CodesInv
<1>2. code[t] # NoCode
  BY <1>1, RecordsOfARequest
<1> QED BY <1>1, <1>2 DEF AccountInv, Unregistered

LEMMA AnswerStarts ==
    ASSUME AccountInv, NEW r \in Requests, Finds(r)
    PROVE  AccountInv'
<1>0. PICK op \in {"verifyEmail", "verifyOtp", "verify2fa"}, c \in Codes :
         FindCode(r, op, c)
  BY DEF Finds
<1>1. PICK pc : pc = IF op = "verifyEmail" THEN "accept" ELSE "read user"
  OBVIOUS
<1>2. PICK q : q = [op |-> op, pc |-> pc, saw |-> Unread, code |-> c,
                    type |-> "VERIFY_EMAIL"]
  OBVIOUS
<1>3. pc \in {"accept", "read user"}
  BY <1>1
<1>4. op \in AllOps /\ pc \in RequestPcs /\ c \in Codes \cup {0}
  BY <1>3 DEF AllOps, RequestPcs
<1>5. q \in Request /\ q.pc = pc /\ q.code = c
  BY <1>2, <1>4, RequestIs, RecordsOfARequest
<1>6. /\ request' = [request EXCEPT ![r] = q] /\ request[r].pc = "idle"
      /\ UNCHANGED <<user, failed, code, issued, used, lifted>>
  BY <1>0, <1>1, <1>2 DEF FindCode, Begin, At
<1>7. c \in 1..issued /\ user # NoUser
  <2>1. PICK o : o = [id |-> c, mailed |-> TRUE]
    OBVIOUS
  <2>2. o.id = c
    BY <2>1
  <2>3. PICK t \in OtpType : code[t] = o
    BY <1>0, <2>1 DEF FindCode, Valid
  <2> QED BY <2>2, <2>3, FoundWasIssued
<1>8. ServedInv(q)'
  BY <1>3, <1>5, <1>6, <1>7 DEF ServedInv
<1> QED BY <1>5, <1>6, <1>8, RequestsKeep DEF Checking

StartsSigned(r) == \E op \in AllOps : StartSigned(r, op)

LEMMA SignedStarts ==
    ASSUME AccountInv, NEW r \in Requests, StartsSigned(r)
    PROVE  AccountInv'
<1>0. PICK op \in AllOps : StartSigned(r, op)
  BY DEF StartsSigned
<1>1. PICK saw : saw = CopyOf(user, op)
  OBVIOUS
<1>2. PICK q : q = [op |-> op, pc |-> "write", saw |-> saw, code |-> 0,
                    type |-> "VERIFY_EMAIL"]
  OBVIOUS
<1>3. /\ request' = [request EXCEPT ![r] = q] /\ request[r].pc = "idle"
      /\ UNCHANGED <<user, failed, code, issued, used, lifted>>
      /\ user # NoUser
  BY <1>0, <1>1, <1>2 DEF StartSigned, Begin, At, Registered
<1>4. saw \in Copy /\ "write" \in RequestPcs
  BY <1>1, <1>3, CopyIsTyped DEF RequestPcs
<1>5. q \in Request /\ q.pc = "write"
  BY <1>2, <1>4, RequestIs, RecordsOfARequest
<1>6. ServedInv(q)'
  BY <1>3, <1>5, ServedFreely
<1> QED BY <1>3, <1>5, <1>6, RequestsKeep DEF Checking

\* A request that was begun and ends.
LEMMA EndKeeps ==
    ASSUME AccountInv, NEW r \in Requests, Done(r), request[r].pc \notin Checking,
           UNCHANGED <<user, failed, code, issued, used, lifted>>
    PROVE  AccountInv'
<1>1. request' = [request EXCEPT ![r] = Idle]
  BY DEF Done
<1>2. ServedInv(Idle)'
  BY RecordsOfARequest, ServedFreely
<1> QED BY <1>1, <1>2, RequestsKeep

\* A request of somebody goes on to a step that needs nothing but a user.
LEMMA GoingOnKeeps ==
    ASSUME AccountInv, NEW r \in Requests, user # NoUser,
           request[r].pc \notin Checking,
           NEW q \in Request, request' = [request EXCEPT ![r] = q],
           q.pc \notin {"unblock", "read user", "accept"},
           UNCHANGED <<user, failed, code, issued, used, lifted>>
    PROVE  AccountInv'
<1>1. ServedInv(q)'
  BY ServedFreely
<1> QED BY <1>1, RequestsKeep

LEMMA SocialStarts ==
    ASSUME AccountInv, NEW r \in Requests, request[r].pc = "idle",
           IF user # NoUser THEN GoToLast(r, "tokens")
           ELSE Begin(r, "socialLogin", "create user", Unread, 0),
           UNCHANGED <<user, failed, code, issued, used, lifted>>
    PROVE  AccountInv'
<1>1. CASE user # NoUser
  <2>1. PICK q \in Request : request' = [request EXCEPT ![r] = q]
                             /\ q.pc = "tokens"
    BY <1>1, GoesToLast DEF RequestPcs
  <2> QED BY <1>1, <2>1, GoingOnKeeps DEF Checking
<1>2. CASE user = NoUser
  <2>1. PICK q : q = [op |-> "socialLogin", pc |-> "create user", saw |-> Unread,
                      code |-> 0, type |-> "VERIFY_EMAIL"]
    OBVIOUS
  <2>2. q \in Request /\ q.pc = "create user"
    <3>1. "socialLogin" \in AllOps /\ "create user" \in RequestPcs
      BY DEF AllOps, RequestPcs
    <3> QED BY <2>1, <3>1, RequestIs, RecordsOfARequest
  <2>3. request' = [request EXCEPT ![r] = q]
    BY <1>2, <2>1 DEF Begin
  <2>4. ServedInv(q)'
    BY <2>2, ServedFreely
  <2> QED BY <2>2, <2>3, <2>4, RequestsKeep DEF Checking
<1> QED BY <1>1, <1>2

\* A gated operation that is let in.
LetIn(r, op) ==
    /\ user # NoUser
    /\ Begin(r, op, IF RunOut(user) THEN "unblock" ELSE AfterGate(op),
             CopyOf(user, op), 0)
    /\ UNCHANGED <<user, failed, code, issued, used, lifted>>
LetsIn(r) == \E op \in GatedOps : LetIn(r, op)

LEMMA GateKeeps ==
    ASSUME AccountInv, NEW r \in Requests, LetsIn(r)
    PROVE  AccountInv'
<1>0. PICK op \in GatedOps : LetIn(r, op)
  BY DEF LetsIn
<1>1. PICK saw : saw = CopyOf(user, op)
  OBVIOUS
<1>2. PICK pc : pc = IF RunOut(user) THEN "unblock" ELSE AfterGate(op)
  OBVIOUS
<1>3. PICK q : q = [op |-> op, pc |-> pc, saw |-> saw, code |-> 0,
                    type |-> "VERIFY_EMAIL"]
  OBVIOUS
<1>4. /\ user # NoUser
      /\ UNCHANGED <<user, failed, code, issued, used, lifted>>
      /\ request' = [request EXCEPT ![r] = q] /\ request[r].pc = "idle"
  BY <1>0, <1>1, <1>2, <1>3 DEF LetIn, Begin, At
<1>5. /\ saw \in Copy
      /\ pc = "unblock" => saw.status = "BLOCKED"
  BY <1>1, <1>2, <1>4, CopyIsTyped DEF RunOut, AfterGate
<1>6. pc \in {"unblock", "compare", "next"}
  BY <1>2 DEF AfterGate
<1>7. op \in AllOps /\ pc \in RequestPcs
  BY <1>6 DEF GatedOps, AllOps, RequestPcs
<1>8. q \in Request /\ q.pc = pc /\ q.saw = saw
  BY <1>3, <1>5, <1>7, RequestIs, RecordsOfARequest
<1>9. ServedInv(q)'
  BY <1>4, <1>5, <1>6, <1>8 DEF ServedInv
<1> QED BY <1>4, <1>8, <1>9, RequestsKeep DEF Checking

LEMMA PastGateKeeps ==
    ASSUME AccountInv, NEW r \in Requests, PastGate(r)
    PROVE  AccountInv'
<1>1. request[r].pc = "next"
  BY DEF PastGate, At
<1>2. user # NoUser
  BY <1>1, ServedNow
<1>3. UNCHANGED <<user, failed, code, issued, used, lifted>>
  BY DEF PastGate
<1>4. CASE Done(r)
  BY <1>1, <1>3, <1>4, EndKeeps DEF Checking
<1>5. ASSUME NEW t \in OtpType, GoToIssue(r, "delete codes", t)
      PROVE  AccountInv'
  <2>1. PICK q \in Request : request' = [request EXCEPT ![r] = q]
                             /\ q.pc = "delete codes"
    BY <1>1, <1>5, GoesToIssue DEF RequestPcs
  <2> QED BY <1>1, <1>2, <1>3, <2>1, GoingOnKeeps DEF Checking
<1>6. Done(r) \/ \E t \in OtpType : GoToIssue(r, "delete codes", t)
  BY DEF PastGate
<1> QED BY <1>4, <1>5, <1>6

\* The right password, and the mail of a verification code, lead on.
LEMMA FactorLeadsOn ==
    ASSUME AccountInv, NEW r \in Requests, request[r].pc # "idle", NextFactor(r)
    PROVE  \E q \in Request : /\ request' = [request EXCEPT ![r] = q]
                              /\ q.pc \in {"delete 2fa", "tokens"}
<1>0. PICK t \in OtpType : t = "TWO_FACTOR"
  BY RecordsOfARequest
<1>1. GoToIssue(r, "delete 2fa", t) \/ GoToLast(r, "tokens")
  BY <1>0 DEF NextFactor
<1>2. CASE GoToIssue(r, "delete 2fa", t)
  <2>1. "delete 2fa" \in RequestPcs
    BY DEF RequestPcs
  <2>2. PICK q \in Request : request' = [request EXCEPT ![r] = q]
                             /\ q.pc = "delete 2fa"
    BY <1>2, <2>1, GoesToIssue, Zenon
  <2> QED BY <2>2
<1>3. CASE GoToLast(r, "tokens")
  <2>1. "tokens" \in RequestPcs
    BY DEF RequestPcs
  <2>2. PICK q \in Request : request' = [request EXCEPT ![r] = q]
                             /\ q.pc = "tokens"
    BY <1>3, <2>1, GoesToLast, Zenon
  <2> QED BY <2>2
<1> QED BY <1>1, <1>2, <1>3

RightPassword(r) ==
    NextFactor(r) \/ GoToIssue(r, "delete codes", "VERIFY_EMAIL")

LEMMA RightPasswordKeeps ==
    ASSUME AccountInv, NEW r \in Requests, request[r].pc = "compare",
           RightPassword(r),
           UNCHANGED <<user, failed, code, issued, used, lifted>>
    PROVE  AccountInv'
<1>1. user # NoUser
  BY ServedNow
<1>2. \E q \in Request : /\ request' = [request EXCEPT ![r] = q]
                         /\ q.pc \in {"delete 2fa", "tokens", "delete codes"}
  <2>1. CASE NextFactor(r)
    BY <2>1, FactorLeadsOn
  <2>2. CASE GoToIssue(r, "delete codes", "VERIFY_EMAIL")
    <3>1. PICK t \in OtpType : t = "VERIFY_EMAIL"
      BY RecordsOfARequest
    <3>2. GoToIssue(r, "delete codes", t) /\ "delete codes" \in RequestPcs
      BY <2>2, <3>1 DEF RequestPcs
    <3>3. request[r].pc # "idle"
      OBVIOUS
    <3>4. PICK q \in Request : request' = [request EXCEPT ![r] = q]
                               /\ q.pc = "delete codes"
      BY <3>2, <3>3, GoesToIssue, Zenon
    <3> QED BY <3>4
  <2> QED BY <2>1, <2>2, Zenon DEF RightPassword
<1> QED BY <1>1, <1>2, GoingOnKeeps DEF Checking

LEMMA OwnerKeeps ==
    ASSUME AccountInv, NEW r \in Requests, ReadOwner(r)
    PROVE  AccountInv'
<1>1. /\ GoTo(r, "accept") \/ Done(r)
      /\ request[r].pc = "read user"
      /\ UNCHANGED <<user, failed, code, issued, used, lifted>>
  BY DEF ReadOwner, At
<1>2. user # NoUser /\ ServedInv(request[r])
  BY <1>1, ServedNow
<1>3. CASE GoTo(r, "accept")
  <2>1. PICK q \in Request : /\ request' = [request EXCEPT ![r] = q]
                             /\ q.pc = "accept" /\ q.saw = request[r].saw
                             /\ q.code = request[r].code
    <3>1. request[r].pc # "idle" /\ "accept" \in RequestPcs
      BY <1>1 DEF RequestPcs
    <3> QED BY <1>3, <3>1, GoesTo, Zenon
  <2>2. q.code \in 1..issued
    BY <1>1, <1>2, <2>1 DEF ServedInv
  <2>3. ServedInv(q)'
    BY <1>1, <1>2, <2>1, <2>2 DEF ServedInv
  <2> QED BY <1>1, <2>1, <2>3, RequestsKeep DEF Checking
<1>4. CASE Done(r)
  BY <1>1, <1>4, EndKeeps DEF Checking
<1> QED BY <1>1, <1>3, <1>4

-----------------------------------------------------------------------------
(* Accounts: the steps that write the codes, the history or the user.      *)

LEMMA UserIsSomebody ==
    ASSUME NEW u \in User
    PROVE  u # NoUser /\ u.kind \in Kinds /\ u.status \in UserStatus
<1>1. u.kind \in Kinds /\ u.status \in UserStatus
  BY DEF User
<1>2. u.kind # "none"
  BY <1>1, AccountsAssumption
<1>3. NoUser.kind = "none"
  BY DEF NoUser
<1> QED BY <1>1, <1>2, <1>3

LEMMA SomebodyIsUser ==
    ASSUME AccountInv, user # NoUser
    PROVE  user \in User
  BY DEF AccountInv, AccountTypeOK

\* What any step of request r has to show.
LEMMA StepKeeps ==
    ASSUME AccountInv, NEW r \in Requests, NEW q \in Request \cup {Idle},
           request' = [request EXCEPT ![r] = q], ServedInv(q)',
           user' \in User \cup {NoUser}, user' = NoUser => user = NoUser,
           failed' \in 0..MaxAttempts, code' \in [OtpType -> Otp],
           issued' \in 0..MaxCodes, 1..issued \subseteq 1..issued',
           used' \subseteq Codes, lifted' \in BOOLEAN,
           CodesInv', Unregistered', LockoutInv'
    PROVE  AccountInv'
<1>1. /\ request' \in [Requests -> Request \cup {Idle}]
      /\ \A s \in Requests : ServedInv(request[s])'
  BY ServedStays
<1>2. AccountTypeOK'
  BY <1>1 DEF AccountTypeOK
<1> QED BY <1>1, <1>2 DEF AccountInv

\* What any other step has to show.
LEMMA StayKeeps ==
    ASSUME AccountInv, UNCHANGED <<request, issued, used>>,
           user' \in User \cup {NoUser}, user' = NoUser => user = NoUser,
           failed' \in 0..MaxAttempts, code' \in [OtpType -> Otp],
           lifted' \in BOOLEAN, CodesInv', Unregistered', LockoutInv'
    PROVE  AccountInv'
<1>1. AccountTypeOK'
  BY DEF AccountInv, AccountTypeOK
<1>2. ASSUME NEW s \in Requests
      PROVE  ServedInv(request[s])'
  <2>1. ServedInv(request[s])
    BY DEF AccountInv
  <2> QED BY <2>1 DEF ServedInv
<1> QED BY <1>1, <1>2 DEF AccountInv

\* Codes that only go.
LEMMA CodesGone ==
    ASSUME AccountInv, \A t \in OtpType : code'[t].id \in {code[t].id, 0},
           UNCHANGED <<issued, used>>
    PROVE  CodesInv'
<1>1. issued \in Nat /\ 0 \in 0..issued /\ 0 \notin 1..issued
  BY AccountsAssumption DEF AccountInv, AccountTypeOK
<1>2. 0 \notin used
  BY <1>1 DEF AccountInv, CodesInv
<1>3. ASSUME NEW t \in OtpType
      PROVE  code'[t].id \in 0..issued /\ code'[t].id \notin used
  <2>1. code[t].id \in 0..issued /\ code[t].id \notin used
    BY DEF AccountInv, CodesInv, UsedCodesAreGone
  <2> QED BY <1>1, <1>2, <2>1
<1> QED BY <1>3 DEF AccountInv, CodesInv, UsedCodesAreGone

LEMMA OnlyCodesGo ==
    ASSUME AccountInv, NEW r \in Requests, NEW q \in Request,
           request' = [request EXCEPT ![r] = q], user # NoUser,
           q.pc \notin {"unblock", "read user", "accept"},
           request[r].pc \notin Checking, code' \in [OtpType -> Otp],
           \A t \in OtpType : code'[t].id \in {code[t].id, 0},
           UNCHANGED <<user, failed, issued, used, lifted>>
    PROVE  AccountInv'
<1>1. CodesInv'
  BY CodesGone
<1>2. Unregistered'
  BY DEF Unregistered
<1>3. ServedInv(q)'
  BY ServedFreely
<1>4. issued' \in 0..MaxCodes /\ 1..issued \subseteq 1..issued'
  BY DEF AccountInv, AccountTypeOK
<1> QED BY <1>1, <1>2, <1>3, <1>4, CodesKeep

LEMMA DeleteKeeps ==
    ASSUME AccountInv, NEW r \in Requests, DeleteCodes(r) \/ DeleteTwoFactor(r)
    PROVE  AccountInv'
<1>1. /\ request[r].pc \in {"delete codes", "delete 2fa"}
      /\ GoTo(r, "create code")
      /\ UNCHANGED <<user, failed, issued, used, lifted>>
      /\ \/ code' = [t \in OtpType |-> NoCode]
         \/ code' = [code EXCEPT !["TWO_FACTOR"] = NoCode]
  BY DEF DeleteCodes, DeleteTwoFactor, DeleteAllCodes, At
<1>2. code \in [OtpType -> Otp]
  BY DEF AccountInv, AccountTypeOK
<1>3. /\ code' \in [OtpType -> Otp]
      /\ \A t \in OtpType : code'[t].id \in {code[t].id, 0}
  BY <1>1, <1>2, RecordsOfARequest
<1>4. user # NoUser
  BY <1>1, ServedNow
<1>5. request[r].pc # "idle" /\ "create code" \in RequestPcs
  BY <1>1 DEF RequestPcs
<1>6. GoTo(r, "create code")
  BY <1>1
<1>7. PICK q \in Request : /\ request' = [request EXCEPT ![r] = q]
                           /\ q.pc = "create code" /\ q.saw = request[r].saw
                           /\ q.code = request[r].code
  BY <1>5, <1>6, GoesTo, Zenon
<1> QED BY <1>1, <1>3, <1>4, <1>7, OnlyCodesGo DEF Checking

LEMMA ExpiryKeeps ==
    ASSUME AccountInv, NEW t \in OtpType, CodeExpires(t)
    PROVE  AccountInv'
<1>1. /\ code[t] # NoCode /\ code' = [code EXCEPT ![t] = NoCode]
      /\ UNCHANGED <<user, failed, issued, request, used, lifted>>
  BY DEF CodeExpires
<1>2. code \in [OtpType -> Otp]
  BY DEF AccountInv, AccountTypeOK
<1>3. /\ code' \in [OtpType -> Otp]
      /\ \A s \in OtpType : code'[s].id \in {code[s].id, 0}
  BY <1>1, <1>2, RecordsOfARequest
<1>4. user # NoUser
  BY <1>1 DEF AccountInv, Unregistered
<1>5. CodesInv'
  BY <1>1, <1>3, CodesGone
<1>6. Unregistered'
  BY <1>1, <1>4 DEF Unregistered
<1>7. LockoutInv'
  BY <1>1 DEF AccountInv, LockoutInv
<1>8. /\ user' \in User \cup {NoUser} /\ failed' \in 0..MaxAttempts
      /\ lifted' \in BOOLEAN
  BY <1>1 DEF AccountInv, AccountTypeOK
<1> QED BY <1>1, <1>3, <1>4, <1>5, <1>6, <1>7, <1>8, StayKeeps

\* A new code has a value nobody has used.
LEMMA IssuedCode ==
    ASSUME AccountInv, issued < MaxCodes, issued' = issued + 1,
           NEW o \in Otp, o.id = issued + 1,
           code' \in [OtpType -> Otp],
           \A t \in OtpType : code'[t] \in {code[t], o, NoCode},
           UNCHANGED used
    PROVE  CodesInv'
<1>1. issued \in Nat /\ MaxCodes \in Nat
  BY AccountsAssumption DEF AccountInv, AccountTypeOK
<1>2. /\ issued + 1 \in 0..(issued + 1) /\ issued + 1 \notin 1..issued
      /\ 1..issued \subseteq 1..(issued + 1) /\ 0..issued \subseteq 0..(issued + 1)
      /\ 0 \in 0..(issued + 1) /\ 0 \notin 1..issued
  BY <1>1
<1>3. used \subseteq 1..issued
  BY DEF AccountInv, CodesInv
<1>4. ASSUME NEW t \in OtpType
      PROVE  code'[t].id \in 0..(issued + 1) /\ code'[t].id \notin used
  <2>1. code[t].id \in 0..issued /\ code[t].id \notin used
    BY DEF AccountInv, CodesInv, UsedCodesAreGone
  <2>2. code'[t].id \in {code[t].id, issued + 1, 0}
    BY RecordsOfARequest
  <2> QED BY <1>2, <1>3, <2>1, <2>2
<1> QED BY <1>2, <1>3, <1>4 DEF CodesInv, UsedCodesAreGone

LEMMA CreateKeeps ==
    ASSUME AccountInv, NEW r \in Requests, CreateCode(r)
    PROVE  AccountInv'
<1>1. /\ request[r].pc = "create code"
      /\ UNCHANGED <<user, failed, used, lifted>>
  BY DEF CreateCode, At
<1>2. PICK t \in OtpType : t = request[r].type
  BY <1>1, ServedNow
<1>3. user # NoUser /\ request[r] \in Request
  BY <1>1, ServedNow
<1>4. CASE Done(r) /\ UNCHANGED <<code, issued>>
  BY <1>1, <1>4, EndKeeps DEF Checking
<1>5. PICK n : n = issued + 1
  OBVIOUS
<1>6. PICK o : o = [id |-> n, mailed |-> FALSE]
  OBVIOUS
<1>7. PICK q : q = [request[r] EXCEPT !.pc = "mail", !.code = n]
  OBVIOUS
<1>8. CASE /\ issued < MaxCodes /\ issued' = n
           /\ code' = [code EXCEPT ![t] = o]
           /\ request' = [request EXCEPT ![r] = q]
  <2>1. issued \in Nat /\ MaxCodes \in Nat
    BY AccountsAssumption DEF AccountInv, AccountTypeOK
  <2>2. /\ n \in Codes \cup {0} /\ n \in 0..MaxCodes
        /\ 1..issued \subseteq 1..n
    BY <1>5, <1>8, <2>1 DEF Codes
  <2>3. o \in Otp /\ o.id = n
    BY <1>6, <2>2 DEF Otp
  <2>4. q \in Request /\ q.pc = "mail"
    BY <1>3, <1>7, <2>2 DEF Request
  <2>5. code' \in [OtpType -> Otp]
    BY <1>8, <2>3 DEF AccountInv, AccountTypeOK
  <2>6. \A s \in OtpType : code'[s] \in {code[s], o, NoCode}
    BY <1>8 DEF AccountInv, AccountTypeOK
  <2>7. CodesInv'
    BY <1>1, <1>5, <1>8, <2>3, <2>5, <2>6, IssuedCode
  <2>8. ServedInv(q)'
    BY <1>1, <1>3, <2>4, ServedFreely
  <2>9. Unregistered'
    BY <1>1, <1>3 DEF Unregistered
  <2> QED BY <1>1, <1>8, <2>2, <2>4, <2>5, <2>7, <2>8, <2>9, CodesKeep
          DEF Checking
<1>9. \/ Done(r) /\ UNCHANGED <<code, issued>>
      \/ /\ issued < MaxCodes /\ issued' = n
         /\ code' = [code EXCEPT ![t] = o]
         /\ request' = [request EXCEPT ![r] = q]
  BY <1>2, <1>5, <1>6, <1>7 DEF CreateCode
<1> QED BY <1>4, <1>8, <1>9

LEMMA MailKeeps ==
    ASSUME AccountInv, NEW r \in Requests, Mail(r)
    PROVE  AccountInv'
<1>1. /\ request[r].pc = "mail"
      /\ UNCHANGED <<user, failed, issued, used, lifted>>
  BY DEF Mail, At
<1>2. code' = [t \in OtpType |-> IF code[t].id = request[r].code
                                 THEN [code[t] EXCEPT !.mailed = TRUE]
                                 ELSE code[t]]
      \/ UNCHANGED code
  BY DEF Mail
<1>3. NextFactor(r) \/ GoToLast(r, "tokens") \/ Done(r)
  BY DEF Mail, AfterMail
<1>4. user # NoUser
  BY <1>1, ServedNow
<1>5. code \in [OtpType -> Otp]
  BY DEF AccountInv, AccountTypeOK
<1>6. /\ code' \in [OtpType -> Otp]
      /\ \A t \in OtpType : code'[t].id \in {code[t].id, 0}
  <2>1. ASSUME NEW t \in OtpType, NEW o, o = [code[t] EXCEPT !.mailed = TRUE]
        PROVE  o \in Otp /\ o.id = code[t].id
    BY <1>5, <2>1 DEF Otp
  <2> QED BY <1>2, <1>5, <2>1
<1>7. ASSUME NEW q \in Request, request' = [request EXCEPT ![r] = q],
             q.pc \in {"delete 2fa", "tokens"}
      PROVE  AccountInv'
  BY <1>1, <1>4, <1>6, <1>7, OnlyCodesGo DEF Checking
<1>8. CASE NextFactor(r)
  <2>1. request[r].pc # "idle"
    BY <1>1
  <2>2. \E q \in Request : /\ request' = [request EXCEPT ![r] = q]
                           /\ q.pc \in {"delete 2fa", "tokens"}
    BY <1>8, <2>1, FactorLeadsOn, Zenon
  <2> QED BY <1>7, <2>2
<1>9. CASE GoToLast(r, "tokens")
  <2>1. "tokens" \in RequestPcs
    BY DEF RequestPcs
  <2>2. PICK q \in Request : request' = [request EXCEPT ![r] = q]
                             /\ q.pc = "tokens"
    BY <1>9, <2>1, GoesToLast, Zenon
  <2> QED BY <1>7, <2>2
<1>10. CASE Done(r)
  <2>1. request' = [request EXCEPT ![r] = Idle]
    BY <1>10 DEF Done
  <2>2. ServedInv(Idle)'
    BY RecordsOfARequest, ServedFreely
  <2>3. CodesInv'
    BY <1>1, <1>6, CodesGone
  <2>4. Unregistered'
    BY <1>1, <1>4 DEF Unregistered
  <2>5. issued' \in 0..MaxCodes /\ 1..issued \subseteq 1..issued'
    BY <1>1 DEF AccountInv, AccountTypeOK
  <2> QED BY <1>1, <1>6, <2>1, <2>2, <2>3, <2>4, <2>5, CodesKeep DEF Checking
<1> QED BY <1>3, <1>8, <1>9, <1>10

\* The history: how many FAILED rows end it.
LEMMA Logged ==
    ASSUME AccountInv, NEW attempt, logLoginAttempt(attempt)
    PROVE  /\ failed' \in 0..MaxAttempts
           /\ attempt # "FAILED" => failed' = 0 /\ failed' # MaxAttempts
<1>1. MaxAttempts \in Nat \ {0} /\ failed \in 0..MaxAttempts
  BY AccountsAssumption DEF AccountInv, AccountTypeOK
<1>2. PICK f : f = failed
  OBVIOUS
<1>3. PICK g : g = failed'
  OBVIOUS
<1>4. g = 0 \/ (f < MaxAttempts /\ g = f + 1) \/ g = f
  BY <1>2, <1>3 DEF logLoginAttempt
<1>5. attempt # "FAILED" => g = 0
  BY <1>3 DEF logLoginAttempt
<1>6. g \in 0..MaxAttempts /\ 0 # MaxAttempts
  BY <1>1, <1>2, <1>4
<1> QED BY <1>3, <1>5, <1>6

\* Steps that write the history, and where their request stands.
LEMMA HistoryKeeps ==
    ASSUME AccountInv, NEW r \in Requests, NEW q \in Request \cup {Idle},
           request' = [request EXCEPT ![r] = q], user # NoUser,
           q.pc \notin {"unblock", "read user", "accept"},
           failed' \in 0..MaxAttempts, lifted' \in BOOLEAN,
           UNCHANGED <<user, code, issued, used>>, LockoutInv'
    PROVE  AccountInv'
<1>1. ServedInv(q)'
  BY ServedFreely
<1>2. CodesInv' /\ Unregistered'
  BY DEF AccountInv, CodesInv, UsedCodesAreGone, Unregistered
<1>3. /\ user' \in User \cup {NoUser} /\ code' \in [OtpType -> Otp]
      /\ issued' \in 0..MaxCodes /\ 1..issued \subseteq 1..issued'
      /\ used' \subseteq Codes
  BY DEF AccountInv, AccountTypeOK
<1>4. user' = NoUser => user = NoUser
  OBVIOUS
<1> QED BY <1>1, <1>2, <1>3, <1>4, StepKeeps

LEMMA CompareKeeps ==
    ASSUME AccountInv, NEW r \in Requests, Compare(r)
    PROVE  AccountInv'
<1>1. request[r].pc = "compare" /\ UNCHANGED <<user, code, issued, used, lifted>>
  BY DEF Compare, At
<1>2. CASE logLoginAttempt("FAILED") /\ GoToLast(r, "check")
  <2>1. "check" \in RequestPcs
    BY DEF RequestPcs
  <2>2. PICK q \in Request : request' = [request EXCEPT ![r] = q]
                             /\ q.pc = "check"
    BY <1>2, <2>1, GoesToLast, Zenon
  <2>3. failed' \in 0..MaxAttempts
    BY <1>2, Logged
  <2>4. request'[r].pc = "check"
    BY <2>2 DEF AccountInv, AccountTypeOK
  <2>5. LockoutInv'
    BY <2>4 DEF LockoutInv, Checking
  <2>6. user # NoUser
    BY <1>1, ServedNow
  <2>7. lifted' \in BOOLEAN
    BY <1>1 DEF AccountInv, AccountTypeOK
  <2> QED BY <1>1, <2>2, <2>3, <2>5, <2>6, <2>7, HistoryKeeps
<1>3. CASE RightPassword(r) /\ UNCHANGED failed
  BY <1>1, <1>3, RightPasswordKeeps
<1>4. \/ logLoginAttempt("FAILED") /\ GoToLast(r, "check")
      \/ RightPassword(r) /\ UNCHANGED failed
  BY DEF Compare, RightPassword
<1> QED BY <1>2, <1>3, <1>4

LEMMA CheckKeeps ==
    ASSUME AccountInv, NEW r \in Requests, CheckAttempts(r)
    PROVE  AccountInv'
<1>1. /\ request[r].pc = "check" /\ lifted' = FALSE
      /\ UNCHANGED <<user, failed, code, issued, used>>
  BY DEF CheckAttempts, At
<1>2. user # NoUser
  BY <1>1, ServedNow
<1>3. failed' \in 0..MaxAttempts /\ lifted' \in BOOLEAN
  BY <1>1 DEF AccountInv, AccountTypeOK
<1>4. CASE failed = MaxAttempts /\ GoTo(r, "block")
  <2>1. request[r].pc # "idle" /\ "block" \in RequestPcs
    BY <1>1 DEF RequestPcs
  <2>2. PICK q \in Request : /\ request' = [request EXCEPT ![r] = q]
                             /\ q.pc = "block" /\ q.saw = request[r].saw
                             /\ q.code = request[r].code
    BY <1>4, <2>1, GoesTo, Zenon
  <2>3. request'[r].pc = "block"
    BY <2>2 DEF AccountInv, AccountTypeOK
  <2>4. LockoutInv'
    BY <2>3 DEF LockoutInv, Checking
  <2> QED BY <1>1, <1>2, <1>3, <2>2, <2>4, HistoryKeeps
<1>5. CASE failed # MaxAttempts /\ Done(r)
  <2>1. request' = [request EXCEPT ![r] = Idle]
    BY <1>5 DEF Done
  <2>2. LockoutInv'
    BY <1>1, <1>5 DEF LockoutInv
  <2> QED BY <1>1, <1>2, <1>3, <2>1, <2>2, RecordsOfARequest, HistoryKeeps
<1> QED BY <1>4, <1>5 DEF CheckAttempts, TooMany

\* A row of another outcome starts the count again.
LEMMA OtherRowKeeps ==
    ASSUME AccountInv, NEW r \in Requests, user # NoUser,
           NEW attempt, attempt # "FAILED", logLoginAttempt(attempt),
           lifted' = FALSE, Done(r), UNCHANGED <<user, code, issued, used>>
    PROVE  AccountInv'
<1>1. failed' \in 0..MaxAttempts /\ failed' # MaxAttempts
  BY Logged
<1>2. request' = [request EXCEPT ![r] = Idle]
  BY DEF Done
<1>3. LockoutInv'
  BY <1>1 DEF LockoutInv
<1> QED BY <1>1, <1>2, <1>3, RecordsOfARequest, HistoryKeeps

LEMMA SucceedKeeps ==
    ASSUME AccountInv, NEW r \in Requests, Succeed(r)
    PROVE  AccountInv'
<1>1. /\ request[r].pc = "tokens" /\ logLoginAttempt("SUCCESS")
      /\ lifted' = FALSE /\ Done(r) /\ UNCHANGED <<user, code, issued, used>>
  BY DEF Succeed, At
<1>2. user # NoUser
  BY <1>1, ServedNow
<1>3. PICK attempt : attempt = "SUCCESS"
  OBVIOUS
<1>4. attempt # "FAILED" /\ logLoginAttempt(attempt)
  BY <1>1, <1>3
<1> QED BY <1>1, <1>2, <1>4, OtherRowKeeps

\* Whoever dies about to look at the history counts as a lifted block.
LEMMA DyingKeeps ==
    ASSUME AccountInv, NEW r \in Requests, Dies(r)
    PROVE  AccountInv'
<1>1. /\ request[r].pc # "idle" /\ request' = [request EXCEPT ![r] = Idle]
      /\ UNCHANGED <<user, failed, code, issued, used>>
  BY DEF Dies, At, Done
<1>2. lifted' = (lifted \/ (request[r].pc \in Checking /\ failed = MaxAttempts))
  BY DEF Dies, Lift, Checking
<1>3. CASE request[r].pc \in Checking
  <2>1. user # NoUser
    BY <1>3, ServedNow DEF Checking
  <2>2. failed' \in 0..MaxAttempts /\ lifted' \in BOOLEAN
    BY <1>1, <1>2 DEF AccountInv, AccountTypeOK
  <2>3. failed' = MaxAttempts => lifted' # FALSE
    BY <1>1, <1>2, <1>3
  <2>4. LockoutInv'
    BY <2>3 DEF LockoutInv
  <2> QED BY <1>1, <2>1, <2>2, <2>4, RecordsOfARequest, HistoryKeeps
<1>4. CASE request[r].pc \notin Checking
  <2>1. lifted' = lifted
    BY <1>2, <1>4 DEF AccountInv, AccountTypeOK
  <2> QED BY <1>1, <1>4, <2>1, EndKeeps DEF Done
<1> QED BY <1>3, <1>4

LEMMA CleanupKeeps ==
    ASSUME AccountInv, projectCleanup
    PROVE  AccountInv'
<1>1. PICK n \in 0..failed : failed' = n /\ lifted' = (lifted /\ n = failed)
  BY DEF projectCleanup
<1>2. UNCHANGED <<user, code, issued, request, used>>
  BY DEF projectCleanup
<1>3. failed \in 0..MaxAttempts /\ MaxAttempts \in Nat
  BY AccountsAssumption DEF AccountInv, AccountTypeOK
<1>4. /\ failed' \in 0..MaxAttempts
      /\ failed' = MaxAttempts => n = failed
      /\ failed = 0 => failed' = 0
  BY <1>1, <1>3
<1>5. lifted' \in BOOLEAN
  BY <1>1
<1>6. CodesInv' /\ Unregistered'
  BY <1>2, <1>4 DEF AccountInv, CodesInv, UsedCodesAreGone, Unregistered
<1>7. LockoutInv'
  <2>1. CASE n = failed
    <3>1. failed' = failed /\ lifted' = lifted
      BY <1>1, <2>1 DEF AccountInv, AccountTypeOK
    <3> QED BY <1>2, <3>1 DEF AccountInv, LockoutInv
  <2>2. CASE n # failed
    BY <1>4, <2>2 DEF LockoutInv
  <2> QED BY <2>1, <2>2
<1>8. user' \in User \cup {NoUser} /\ code' \in [OtpType -> Otp]
  BY <1>2 DEF AccountInv, AccountTypeOK
<1>9. user' = NoUser => user = NoUser
  BY <1>2
<1> QED BY <1>2, <1>4, <1>5, <1>6, <1>7, <1>8, <1>9, StayKeeps

\* The FAILED row of an account without a password, which no block follows.
LEMMA RefusalKeeps ==
    ASSUME AccountInv, user # NoUser, user.kind = "social",
           logLoginAttempt("FAILED"),
           UNCHANGED <<user, code, issued, request, used, lifted>>
    PROVE  AccountInv'
<1>1. failed' \in 0..MaxAttempts
  BY Logged
<1>2. CodesInv' /\ Unregistered' /\ LockoutInv'
  BY DEF AccountInv, CodesInv, UsedCodesAreGone, Unregistered, LockoutInv
<1>3. /\ user' \in User \cup {NoUser} /\ code' \in [OtpType -> Otp]
      /\ lifted' \in BOOLEAN
  BY DEF AccountInv, AccountTypeOK
<1>4. user' = NoUser => user = NoUser
  OBVIOUS
<1> QED BY <1>1, <1>2, <1>3, <1>4, StayKeeps

\* The users that the steps write.
LEMMA WrittenUsers ==
    ASSUME NEW v \in User
    PROVE  /\ Unblocked(v) \in User /\ Unblocked(v).kind = v.kind
           /\ Locked(v) \in User /\ Locked(v).status = "BLOCKED"
           /\ \A w : w = [v EXCEPT !.status = "ACTIVE", !.blocked = FALSE,
                                   !.isEmailVerified = TRUE]
                     => w \in User /\ w.kind = v.kind
<1>1. Unblocked(v) \in User /\ Unblocked(v).kind = v.kind
  BY DEF Unblocked, User, UserStatus
<1>2. Locked(v) \in User /\ Locked(v).status = "BLOCKED"
  BY DEF Locked, User, UserStatus
<1>3. ASSUME NEW w, w = [v EXCEPT !.status = "ACTIVE", !.blocked = FALSE,
                                  !.isEmailVerified = TRUE]
      PROVE  w \in User /\ w.kind = v.kind
  BY <1>3 DEF User, UserStatus
<1> QED BY <1>1, <1>2, <1>3

LEMMA ToggledUser ==
    ASSUME NEW v \in User, NEW s \in UserStatus, NEW b \in BOOLEAN, NEW w,
           w = [v EXCEPT !.status = s, !.blocked = b]
    PROVE  w \in User /\ w.kind = v.kind
  BY DEF User, UserStatus

\* Writing u over the user leaves BLOCKED only with a lift.
LiftingTo(u) ==
    /\ lifted' \in BOOLEAN
    /\ lifted' = FALSE
       => /\ lifted = FALSE
          /\ failed = MaxAttempts /\ user.status = "BLOCKED"
             => u.status = "BLOCKED"

LEMMA LiftTells ==
    ASSUME AccountInv, NEW u, Lift(user.status = "BLOCKED")
    PROVE  LiftingTo(u)
<1>1. lifted \in BOOLEAN
  BY DEF AccountInv, AccountTypeOK
<1>2. PICK b : b = (user.status = "BLOCKED" /\ failed = MaxAttempts)
  OBVIOUS
<1>3. lifted' = (lifted \/ b)
  BY <1>2 DEF Lift
<1>4. lifted' \in BOOLEAN /\ (lifted' = FALSE => lifted = FALSE /\ ~b)
  BY <1>1, <1>3
<1> QED BY <1>2, <1>4 DEF LiftingTo

LEMMA KeptTells ==
    ASSUME AccountInv, NEW u, UNCHANGED lifted, u.status = user.status
    PROVE  LiftingTo(u)
  BY DEF AccountInv, AccountTypeOK, LiftingTo

LEMMA LockoutHolds ==
    ASSUME AccountInv, user # NoUser, NEW u, user' = u, u.kind = user.kind,
           LiftingTo(u), UNCHANGED failed,
           \A s \in Requests : request[s].pc \in Checking
                               => request'[s] = request[s]
    PROVE  LockoutInv'
<1> SUFFICES ASSUME u.kind = "credentials", failed = MaxAttempts, lifted' = FALSE,
                    \A s \in Requests : request'[s].pc \notin Checking
             PROVE  u.status = "BLOCKED"
  BY DEF LockoutInv
<1>1. \A s \in Requests : request[s].pc \notin Checking
  OBVIOUS
<1>2. user.status = "BLOCKED"
  BY <1>1 DEF AccountInv, LockoutInv, LiftingTo
<1> QED BY <1>2 DEF LiftingTo

\* What a step of a request that writes the user has to show.
LEMMA UserKeeps ==
    ASSUME AccountInv, NEW r \in Requests, NEW q \in Request \cup {Idle},
           request' = [request EXCEPT ![r] = q],
           q.pc \notin {"unblock", "read user", "accept"},
           request[r].pc \notin Checking, user # NoUser,
           NEW u \in User, user' = u, u.kind = user.kind, LiftingTo(u),
           UNCHANGED <<failed, issued>>, code' \in [OtpType -> Otp],
           CodesInv', used' \subseteq Codes
    PROVE  AccountInv'
<1>1. user' # NoUser
  BY UserIsSomebody
<1>2. ServedInv(q)' /\ Unregistered'
  BY <1>1, ServedFreely DEF Unregistered
<1>3. \A s \in Requests : request[s].pc \in Checking => request'[s] = request[s]
  BY DEF AccountInv, AccountTypeOK
<1>4. LockoutInv'
  BY <1>3, LockoutHolds
<1>5. /\ failed' \in 0..MaxAttempts /\ issued' \in 0..MaxCodes
      /\ 1..issued \subseteq 1..issued'
  BY DEF AccountInv, AccountTypeOK
<1>6. user' \in User \cup {NoUser} /\ lifted' \in BOOLEAN
  BY DEF LiftingTo
<1> QED BY <1>1, <1>2, <1>4, <1>5, <1>6, StepKeeps

LEMMA CodesStay ==
    ASSUME AccountInv, UNCHANGED <<code, issued, used>>
    PROVE  CodesInv' /\ code' \in [OtpType -> Otp] /\ used' \subseteq Codes
  BY DEF AccountInv, AccountTypeOK, CodesInv, UsedCodesAreGone

LEMMA UnblockKeeps ==
    ASSUME AccountInv, NEW r \in Requests, Unblock(r)
    PROVE  AccountInv'
<1>1. /\ request[r].pc = "unblock" /\ user' = Unblocked(user)
      /\ UNCHANGED <<failed, code, issued, used>>
  BY DEF Unblock, At
<1>2. user # NoUser
  BY <1>1, ServedNow
<1>3. PICK u : u = Unblocked(user)
  OBVIOUS
<1>4. u \in User /\ u.kind = user.kind /\ user' = u
  BY <1>1, <1>2, <1>3, SomebodyIsUser, WrittenUsers
<1>5. LiftingTo(u)
  BY LiftTells DEF Unblock
<1>6. PICK pc : pc = AfterGate(request[r].op)
  OBVIOUS
<1>7. GoTo(r, pc)
  BY <1>6 DEF Unblock
<1>8. pc \in {"compare", "next"} /\ pc \in RequestPcs /\ request[r].pc # "idle"
  BY <1>1, <1>6 DEF AfterGate, RequestPcs
<1>9. PICK q \in Request : /\ request' = [request EXCEPT ![r] = q]
                           /\ q.pc = pc /\ q.saw = request[r].saw
                           /\ q.code = request[r].code
  BY <1>7, <1>8, GoesTo, Zenon
<1>10. CodesInv' /\ code' \in [OtpType -> Otp] /\ used' \subseteq Codes
  BY <1>1, CodesStay
<1> QED BY <1>1, <1>2, <1>4, <1>5, <1>8, <1>9, <1>10, UserKeeps DEF Checking

LEMMA BlockKeeps ==
    ASSUME AccountInv, NEW r \in Requests, Block(r)
    PROVE  AccountInv'
<1>1. /\ request[r].pc = "block" /\ user' = Locked(user)
      /\ request' = [request EXCEPT ![r] = Idle]
      /\ UNCHANGED <<failed, code, issued, used, lifted>>
  BY DEF Block, At, Done
<1>2. user # NoUser
  BY <1>1, ServedNow
<1>3. user' \in User /\ user'.status = "BLOCKED"
  BY <1>1, <1>2, SomebodyIsUser, WrittenUsers
<1>4. user' # NoUser
  BY <1>3, UserIsSomebody
<1>5. LockoutInv' /\ Unregistered'
  BY <1>3, <1>4 DEF LockoutInv, Unregistered
<1>6. CodesInv' /\ code' \in [OtpType -> Otp] /\ used' \subseteq Codes
  BY <1>1, CodesStay
<1>7. ServedInv(Idle)'
  BY RecordsOfARequest, ServedFreely
<1>8. /\ failed' \in 0..MaxAttempts /\ issued' \in 0..MaxCodes
      /\ 1..issued \subseteq 1..issued' /\ lifted' \in BOOLEAN
  BY <1>1 DEF AccountInv, AccountTypeOK
<1> QED BY <1>1, <1>3, <1>4, <1>5, <1>6, <1>7, <1>8, StepKeeps

\* A code that is accepted was issued, and all codes go with it.
LEMMA AcceptKeeps ==
    ASSUME AccountInv, NEW r \in Requests, AcceptCode(r)
    PROVE  AccountInv'
<1>1. /\ request[r].pc = "accept"
      /\ code' = [t \in OtpType |-> NoCode]
      /\ used' = used \cup {request[r].code}
      /\ UNCHANGED <<failed, issued>>
  BY DEF AcceptCode, At, DropCodes, DeleteAllCodes
<1>2. user # NoUser /\ request[r].code \in 1..issued
  BY <1>1, ServedNow DEF ServedInv
<1>3. code' \in [OtpType -> Otp] /\ \A t \in OtpType : code'[t].id = 0
  BY <1>1, RecordsOfARequest
<1>4. issued \in 0..MaxCodes /\ MaxCodes \in Nat /\ used \subseteq 1..issued
  BY AccountsAssumption DEF AccountInv, AccountTypeOK, CodesInv
<1>5. used' \subseteq 1..issued
  BY <1>1, <1>2, <1>4
<1>6. used' \subseteq Codes /\ 0 \notin used' /\ 0 \in 0..issued
  BY <1>4, <1>5 DEF Codes
<1>7. CodesInv'
  BY <1>1, <1>3, <1>5, <1>6 DEF CodesInv, UsedCodesAreGone
<1>8. \E u \in User : user' = u /\ u.kind = user.kind /\ LiftingTo(u)
  <2>1. CASE /\ user' = [user EXCEPT !.status = "ACTIVE", !.blocked = FALSE,
                                     !.isEmailVerified = TRUE]
             /\ Lift(user.status = "BLOCKED")
    <3>1. user' \in User /\ user'.kind = user.kind
      BY <1>2, <2>1, SomebodyIsUser, WrittenUsers
    <3>2. PICK u : u = user'
      OBVIOUS
    <3>3. LiftingTo(u)
      BY <2>1, LiftTells
    <3> QED BY <3>1, <3>2, <3>3
  <2>2. CASE UNCHANGED <<user, lifted>>
    <3>1. user \in User
      BY <1>2, SomebodyIsUser
    <3>2. LiftingTo(user)
      BY <2>2, KeptTells
    <3> QED BY <2>2, <3>1, <3>2
  <2>3. \/ /\ user' = [user EXCEPT !.status = "ACTIVE", !.blocked = FALSE,
                                   !.isEmailVerified = TRUE]
           /\ Lift(user.status = "BLOCKED")
        \/ UNCHANGED <<user, lifted>>
    BY DEF AcceptCode
  <2> QED BY <2>1, <2>2, <2>3
<1>9. PICK u \in User : user' = u /\ u.kind = user.kind /\ LiftingTo(u)
  BY <1>8
<1>10. CASE GoToLast(r, "tokens")
  <2>1. "tokens" \in RequestPcs
    BY DEF RequestPcs
  <2>2. PICK q \in Request : request' = [request EXCEPT ![r] = q]
                             /\ q.pc = "tokens"
    BY <1>10, <2>1, GoesToLast, Zenon
  <2> QED BY <1>1, <1>2, <1>3, <1>6, <1>7, <1>9, <2>2, UserKeeps DEF Checking
<1>11. CASE Done(r)
  <2>1. request' = [request EXCEPT ![r] = Idle]
    BY <1>11 DEF Done
  <2> QED BY <1>1, <1>2, <1>3, <1>6, <1>7, <1>9, <2>1, RecordsOfARequest,
             UserKeeps DEF Checking
<1>12. GoToLast(r, "tokens") \/ Done(r)
  BY DEF AcceptCode
<1> QED BY <1>10, <1>11, <1>12

LEMMA WriteKeeps ==
    ASSUME AccountInv, NEW r \in Requests, WriteUser(r)
    PROVE  AccountInv'
<1>1. request[r].pc = "write" /\ Done(r) /\ UNCHANGED <<code, issued, used>>
  BY DEF WriteUser, At
<1>2. user # NoUser
  BY <1>1, ServedNow
<1>3. CASE /\ logLoginAttempt("RESET_PASSWORD") /\ lifted' = FALSE
           /\ UNCHANGED user
  <2>1. PICK attempt : attempt = "RESET_PASSWORD"
    OBVIOUS
  <2>2. attempt # "FAILED" /\ logLoginAttempt(attempt)
    BY <1>3, <2>1
  <2> QED BY <1>1, <1>2, <1>3, <2>2, OtherRowKeeps
<1>4. CASE /\ user' = [user EXCEPT !.isTwoFactorEnabled =
                         ~request[r].saw.isTwoFactorEnabled]
           /\ UNCHANGED <<failed, lifted>>
  <2>1. PICK b : b = ~request[r].saw.isTwoFactorEnabled
    OBVIOUS
  <2>2. b \in BOOLEAN
    BY <2>1
  <2>3. PICK u : u = [user EXCEPT !.isTwoFactorEnabled = b]
    OBVIOUS
  <2>4. /\ u \in User /\ u.kind = user.kind /\ u.status = user.status
        /\ user' = u
    <3>1. user \in User
      BY <1>2, SomebodyIsUser
    <3>2. user' = u
      BY <1>4, <2>1, <2>3
    <3>3. u \in User /\ u.kind = user.kind /\ u.status = user.status
      BY <2>2, <2>3, <3>1 DEF User
    <3> QED BY <3>2, <3>3
  <2>5. LiftingTo(u)
    BY <1>4, <2>4, KeptTells
  <2>6. request' = [request EXCEPT ![r] = Idle]
    BY <1>1 DEF Done
  <2>7. CodesInv' /\ code' \in [OtpType -> Otp] /\ used' \subseteq Codes
    BY <1>1, CodesStay
  <2> QED BY <1>1, <1>2, <1>4, <2>4, <2>5, <2>6, <2>7, RecordsOfARequest,
             UserKeeps DEF Checking
<1>5. \/ /\ logLoginAttempt("RESET_PASSWORD") /\ lifted' = FALSE
         /\ UNCHANGED user
      \/ /\ user' = [user EXCEPT !.isTwoFactorEnabled =
                       ~request[r].saw.isTwoFactorEnabled]
         /\ UNCHANGED <<failed, lifted>>
  BY DEF WriteUser
<1> QED BY <1>3, <1>4, <1>5

\* Writing the user beside the requests.
LEMMA AdminKeeps ==
    ASSUME AccountInv, user # NoUser, NEW u \in User, user' = u,
           u.kind = user.kind, LiftingTo(u),
           UNCHANGED <<failed, code, issued, request, used>>
    PROVE  AccountInv'
<1>1. user' # NoUser
  BY UserIsSomebody
<1>2. Unregistered'
  BY <1>1 DEF Unregistered
<1>3. LockoutInv'
  BY LockoutHolds
<1>4. CodesInv' /\ code' \in [OtpType -> Otp]
  BY CodesStay
<1>5. /\ user' \in User \cup {NoUser} /\ failed' \in 0..MaxAttempts
      /\ lifted' \in BOOLEAN
  BY DEF AccountInv, AccountTypeOK, LiftingTo
<1> QED BY <1>1, <1>2, <1>3, <1>4, <1>5, StayKeeps

LEMMA ToggleKeeps ==
    ASSUME AccountInv, NEW s \in UserStatus, NEW until \in BOOLEAN,
           ToggleStatus(s, until)
    PROVE  AccountInv'
<1>1. /\ user # NoUser
      /\ user' = [user EXCEPT !.status = s, !.blocked = until]
      /\ Lift(user.status = "BLOCKED")
      /\ UNCHANGED <<failed, code, issued, request, used>>
  BY DEF ToggleStatus, Registered
<1>2. PICK u : u = [user EXCEPT !.status = s, !.blocked = until]
  OBVIOUS
<1>3. user \in User
  BY <1>1, SomebodyIsUser
<1>4. user' = u
  BY <1>1, <1>2
<1>5. u \in User /\ u.kind = user.kind
  BY <1>2, <1>3, ToggledUser, Zenon
<1>6. Lift(user.status = "BLOCKED")
  BY <1>1
<1>7. LiftingTo(u)
  BY <1>6, LiftTells
<1> QED BY <1>1, <1>4, <1>5, <1>7, AdminKeeps

LEMMA RunOutKeeps ==
    ASSUME AccountInv, BlockRunsOut
    PROVE  AccountInv'
<1>1. /\ user # NoUser /\ user' = [user EXCEPT !.blocked = FALSE]
      /\ UNCHANGED <<failed, code, issued, request, used, lifted>>
  BY DEF BlockRunsOut, Registered
<1>2. PICK u : u = [user EXCEPT !.blocked = FALSE]
  OBVIOUS
<1>3. user \in User
  BY <1>1, SomebodyIsUser
<1>4. u \in User /\ u.kind = user.kind /\ u.status = user.status
  BY <1>2, <1>3 DEF User
<1>5. LiftingTo(u)
  BY <1>1, <1>4, KeptTells
<1> QED BY <1>1, <1>2, <1>4, <1>5, AdminKeeps

\* The account is created: no rows and no codes were there before.
LEMMA NewUserKeeps ==
    ASSUME AccountInv, user = NoUser, NEW u \in User, user' = u,
           NEW r \in Requests, NEW q \in Request,
           request' = [request EXCEPT ![r] = q], 
           q.pc \notin {"unblock", "read user", "accept"},
           code' \in [OtpType -> Otp], issued' \in 0..MaxCodes,
           1..issued \subseteq 1..issued', CodesInv',
           UNCHANGED <<failed, used, lifted>>
    PROVE  AccountInv'
<1>1. user' # NoUser
  BY UserIsSomebody
<1>2. ServedInv(q)' /\ Unregistered'
  BY <1>1, ServedFreely DEF Unregistered
<1>3. failed = 0 /\ 0 # MaxAttempts
  BY AccountsAssumption DEF AccountInv, Unregistered
<1>4. LockoutInv'
  BY <1>3 DEF LockoutInv
<1>5. /\ failed' \in 0..MaxAttempts /\ lifted' \in BOOLEAN
      /\ used' \subseteq Codes
  BY DEF AccountInv, AccountTypeOK
<1> QED BY <1>1, <1>2, <1>4, <1>5, StepKeeps

LEMMA SignUpKeeps ==
    ASSUME AccountInv, NEW r \in Requests, SignUp(r)
    PROVE  AccountInv'
<1>1. request[r].pc = "create user" /\ UNCHANGED <<failed, used, lifted>>
  BY DEF SignUp, At
<1>2. request[r] \in Request
  BY <1>1, ServedNow
<1>3. CASE Done(r) /\ UNCHANGED <<user, code, issued>>
  BY <1>1, <1>3, EndKeeps DEF Checking
<1>4. PICK n : n = issued + 1
  OBVIOUS
<1>5. PICK o : o = [id |-> n, mailed |-> FALSE]
  OBVIOUS
<1>6. PICK q : q = [request[r] EXCEPT !.pc = "mail", !.op = "resendOtp",
                                      !.code = n]
  OBVIOUS
<1>7. PICK u : u = [kind |-> "credentials", status |-> "ACTIVE",
                    blocked |-> FALSE, isEmailVerified |-> FALSE,
                    isTwoFactorEnabled |-> FALSE]
  OBVIOUS
<1>8. CASE /\ user = NoUser /\ issued < MaxCodes /\ "credentials" \in Kinds
           /\ user' = u /\ issued' = n
           /\ code' = [t \in OtpType |->
                         IF t = "VERIFY_EMAIL" THEN o ELSE NoCode]
           /\ request' = [request EXCEPT ![r] = q]
  <2>1. issued \in Nat /\ MaxCodes \in Nat
    BY AccountsAssumption DEF AccountInv, AccountTypeOK
  <2>2. /\ n \in Codes \cup {0} /\ n \in 0..MaxCodes
        /\ 1..issued \subseteq 1..n
    BY <1>4, <1>8, <2>1 DEF Codes
  <2>3. o \in Otp /\ o.id = n
    BY <1>5, <2>2 DEF Otp
  <2>4. q \in Request /\ q.pc = "mail"
    BY <1>2, <1>6, <2>2 DEF Request, AllOps
  <2>5. u \in User
    BY <1>7, <1>8 DEF User, UserStatus
  <2>6. code' \in [OtpType -> Otp]
    BY <1>8, <2>3, RecordsOfARequest
  <2>7. \A t \in OtpType : code'[t] \in {code[t], o, NoCode}
    BY <1>8
  <2>8. CodesInv'
    BY <1>1, <1>4, <1>8, <2>3, <2>6, <2>7, IssuedCode
  <2> QED BY <1>1, <1>8, <2>2, <2>4, <2>5, <2>6, <2>8, NewUserKeeps
<1>9. \/ Done(r) /\ UNCHANGED <<user, code, issued>>
      \/ /\ user = NoUser /\ issued < MaxCodes /\ "credentials" \in Kinds
         /\ user' = u /\ issued' = n
         /\ code' = [t \in OtpType |->
                       IF t = "VERIFY_EMAIL" THEN o ELSE NoCode]
         /\ request' = [request EXCEPT ![r] = q]
  BY <1>4, <1>5, <1>6, <1>7 DEF SignUp, Registered
<1> QED BY <1>3, <1>8, <1>9

LEMMA SocialKeeps ==
    ASSUME AccountInv, NEW r \in Requests, SocialLogin(r)
    PROVE  AccountInv'
<1>1. UNCHANGED <<failed, code, issued, used, lifted>>
  BY DEF SocialLogin
<1>2. CASE /\ request[r].pc = "idle" /\ UNCHANGED user
           /\ IF user # NoUser THEN GoToLast(r, "tokens")
              ELSE Begin(r, "socialLogin", "create user", Unread, 0)
  BY <1>1, <1>2, SocialStarts
<1>3. CASE request[r].pc = "create user" /\ Done(r) /\ UNCHANGED user
  BY <1>1, <1>3, EndKeeps DEF Checking
<1>4. PICK u : u = [kind |-> "social", status |-> "ACTIVE",
                    blocked |-> FALSE, isEmailVerified |-> TRUE,
                    isTwoFactorEnabled |-> FALSE]
  OBVIOUS
<1>5. CASE /\ user = NoUser /\ "social" \in Kinds /\ user' = u
           /\ GoToLast(r, "tokens")
  <2>1. "tokens" \in RequestPcs /\ GoToLast(r, "tokens")
    BY <1>5 DEF RequestPcs
  <2>2. PICK q \in Request : request' = [request EXCEPT ![r] = q]
                             /\ q.pc = "tokens"
    BY <2>1, GoesToLast, Zenon
  <2>3. u \in User
    BY <1>4, <1>5 DEF User, UserStatus
  <2>4. CodesInv' /\ code' \in [OtpType -> Otp]
    BY <1>1, CodesStay
  <2>5. issued' \in 0..MaxCodes /\ 1..issued \subseteq 1..issued'
    BY <1>1 DEF AccountInv, AccountTypeOK
  <2> QED BY <1>1, <1>5, <2>2, <2>3, <2>4, <2>5, NewUserKeeps
<1>6. \/ /\ request[r].pc = "idle" /\ UNCHANGED user
         /\ IF user # NoUser THEN GoToLast(r, "tokens")
            ELSE Begin(r, "socialLogin", "create user", Unread, 0)
      \/ request[r].pc = "create user" /\ Done(r) /\ UNCHANGED user
      \/ /\ user = NoUser /\ "social" \in Kinds /\ user' = u
         /\ GoToLast(r, "tokens")
  BY <1>4 DEF SocialLogin, Registered, At
<1> QED BY <1>2, <1>3, <1>5, <1>6

Reads(r) == \E op \in GatedOps : ReadUser(r, op)

LEMMA ReadKeeps ==
    ASSUME AccountInv, NEW r \in Requests, Reads(r)
    PROVE  AccountInv'
<1>1. PICK op \in GatedOps : ReadUser(r, op)
  BY DEF Reads
<1>2. CASE /\ user # NoUser /\ user.kind = "social"
           /\ logLoginAttempt("FAILED")
           /\ UNCHANGED <<user, code, issued, request, used, lifted>>
  BY <1>2, RefusalKeeps
<1>3. CASE LetIn(r, op)
  BY <1>3, GateKeeps DEF LetsIn
<1>4. \/ /\ user # NoUser /\ user.kind = "social"
         /\ logLoginAttempt("FAILED")
         /\ UNCHANGED <<user, code, issued, request, used, lifted>>
      \/ LetIn(r, op)
  BY <1>1 DEF ReadUser, LetIn, Registered
<1> QED BY <1>2, <1>3, <1>4

LEMMA AccountStepKeeps ==
    ASSUME AccountInv, NEW r \in Requests, Step(r)
    PROVE  AccountInv'
<1>1. \/ StartSignUp(r) \/ SignUp(r) \/ SocialLogin(r) \/ Reads(r)
      \/ Unblock(r) \/ PastGate(r)
      \/ Compare(r) \/ CheckAttempts(r) \/ Block(r) \/ Succeed(r)
      \/ DeleteCodes(r) \/ DeleteTwoFactor(r) \/ CreateCode(r) \/ Mail(r)
      \/ Finds(r) \/ ReadOwner(r) \/ AcceptCode(r) \/ StartsSigned(r)
      \/ WriteUser(r) \/ Dies(r)
  BY Zenon DEF Step, Reads, Finds, StartsSigned
<1>2. CASE StartSignUp(r) \/ SignUp(r) \/ SocialLogin(r) \/ Reads(r)
  BY <1>2, SignUpStarts, SignUpKeeps, SocialKeeps, ReadKeeps, Zenon
<1>3. CASE Unblock(r) \/ PastGate(r)
  BY <1>3, UnblockKeeps, PastGateKeeps, Zenon
<1>4. CASE Compare(r) \/ CheckAttempts(r) \/ Block(r) \/ Succeed(r)
  BY <1>4, CompareKeeps, CheckKeeps, BlockKeeps, SucceedKeeps, Zenon
<1>5. CASE DeleteCodes(r) \/ DeleteTwoFactor(r) \/ CreateCode(r) \/ Mail(r)
  BY <1>5, DeleteKeeps, CreateKeeps, MailKeeps, Zenon
<1>6. CASE Finds(r) \/ ReadOwner(r) \/ AcceptCode(r) \/ StartsSigned(r)
  BY <1>6, AnswerStarts, OwnerKeeps, AcceptKeeps, SignedStarts, Zenon
<1>7. CASE WriteUser(r) \/ Dies(r)
  BY <1>7, WriteKeeps, DyingKeeps, Zenon
<1> QED BY <1>1, <1>2, <1>3, <1>4, <1>5, <1>6, <1>7, Zenon

LEMMA AccountInvNext == AccountInv /\ [AccountsNext]_accountVars => AccountInv'
<1>1. ASSUME AccountInv, UNCHANGED accountVars
      PROVE  AccountInv'
  BY <1>1 DEF accountVars, AccountInv, AccountTypeOK, CodesInv,
              UsedCodesAreGone, ServedInv, Unregistered, LockoutInv
<1>2. ASSUME AccountInv, NEW r \in Requests, Step(r)
      PROVE  AccountInv'
  BY <1>2, AccountStepKeeps
<1>3. ASSUME AccountInv, NEW s \in UserStatus, NEW until \in BOOLEAN,
             ToggleStatus(s, until)
      PROVE  AccountInv'
  BY <1>3, ToggleKeeps
<1>4. ASSUME AccountInv, NEW t \in OtpType, CodeExpires(t)
      PROVE  AccountInv'
  BY <1>4, ExpiryKeeps
<1>5. ASSUME AccountInv, BlockRunsOut \/ projectCleanup
      PROVE  AccountInv'
  BY <1>5, RunOutKeeps, CleanupKeeps
<1> QED BY <1>1, <1>2, <1>3, <1>4, <1>5, Zenon DEF AccountsNext

LEMMA AccountInvariant == AccountsSpec => []AccountInv
  BY AccountInvInit, AccountInvNext, PTL DEF AccountsSpec

\* The rows, the requests and their copies have their types, whatever the
\* requests, the codes and the length of the history.
THEOREM AccountTypes == AccountsSpec => []AccountTypeOK
<1>1. AccountInv => AccountTypeOK
  BY DEF AccountInv
<1> QED BY <1>1, AccountInvariant, PTL

\* auth.service: a code that was accepted answers no later request.
THEOREM UsedCodesGone == AccountsSpec => []UsedCodesAreGone
<1>1. AccountInv => UsedCodesAreGone
  BY DEF AccountInv, CodesInv
<1> QED BY <1>1, AccountInvariant, PTL

\* auth.service: when the last rows of the login history are FAILED and no
\* request is about to look at them, the account is blocked, or a block was
\* lifted since or a check died.
THEOREM LockoutCame == AccountsSpec => []LockoutComes
<1>1. ASSUME AccountInv PROVE LockoutComes
  <2> SUFFICES ASSUME Registered, user.kind = "credentials",
                      failed = MaxAttempts, ~lifted,
                      \A r \in Requests : request[r].pc \notin {"check", "block"}
               PROVE  user.status # "ACTIVE"
    BY DEF LockoutComes
  <2>1. lifted = FALSE
    BY <1>1 DEF AccountInv, AccountTypeOK
  <2>2. user.status = "BLOCKED"
    BY <1>1, <2>1 DEF AccountInv, LockoutInv, Checking, Registered
  <2> QED BY <2>2
<1> QED BY <1>1, AccountInvariant, PTL

\* Who brings a suspended user back: an admin, a code, or a request that
\* read the user while it was blocked.
Returning ==
    \/ \E r \in Requests :
         /\ ~At(r, "idle")
         /\ request'[r] # request[r]
         /\ \/ Serves(r, {"verifyEmail"})
            \/ request[r].saw.status = "BLOCKED"
    \/ UNCHANGED request

LEMMA RequestMoves ==
    ASSUME AccountInv, NEW r \in Requests, request[r].pc # "idle", NEW pc,
           pc # request[r].pc,
           GoTo(r, pc) \/ GoToLast(r, pc) \/ (Done(r) /\ pc = "idle")
    PROVE  request'[r] # request[r]
<1>1. request[r] \in Request
  BY ServedNow
<1>2. PICK p : p = [request[r] EXCEPT !.pc = pc]
  OBVIOUS
<1>3. p.pc = pc
  BY <1>1, <1>2 DEF Request
<1>4. PICK q : q = [op |-> "signIn", pc |-> pc, saw |-> Unread, code |-> 0,
                    type |-> "VERIFY_EMAIL"]
  OBVIOUS
<1>5. q.pc = pc
  BY <1>4
<1>6. request' \in {[request EXCEPT ![r] = p], [request EXCEPT ![r] = q]}
      \/ (request' = [request EXCEPT ![r] = Idle] /\ pc = "idle")
  BY <1>2, <1>4 DEF GoTo, GoToLast, Done
<1>7. request'[r] \in {p, q} \/ (request'[r] = Idle /\ pc = "idle")
  BY <1>6 DEF AccountInv, AccountTypeOK
<1> QED BY <1>3, <1>5, <1>7, RecordsOfARequest

LEMMA OneReturns ==
    ASSUME AccountInv, NEW r \in Requests, Step(r),
           user # NoUser, user.status = "SUSPENDED", user'.status = "ACTIVE"
    PROVE  Returning
<1>1. user' # user
  OBVIOUS
<1>2. CASE Unblock(r)
  <2>1. request[r].pc = "unblock" /\ GoTo(r, AfterGate(request[r].op))
    BY <1>2 DEF Unblock, At
  <2>2. PICK pc : pc = AfterGate(request[r].op)
    OBVIOUS
  <2>3. pc \in {"compare", "next"} /\ GoTo(r, pc)
    BY <2>1, <2>2 DEF AfterGate
  <2>4. request'[r] # request[r]
    BY <2>1, <2>3, RequestMoves
  <2>5. request[r].saw.status = "BLOCKED"
    BY <2>1, ServedNow DEF ServedInv
  <2> QED BY <2>1, <2>4, <2>5 DEF Returning, At
<1>3. CASE AcceptCode(r)
  <2>1. /\ request[r].pc = "accept"
        /\ GoToLast(r, "tokens") \/ Done(r)
    BY <1>3 DEF AcceptCode, At
  <2>2. Serves(r, {"verifyEmail"})
    BY <1>1, <1>3 DEF AcceptCode
  <2>3. ASSUME GoToLast(r, "tokens")
        PROVE  request'[r] # request[r]
    <3>1. PICK pc : pc = "tokens"
      OBVIOUS
    <3>2. pc # request[r].pc /\ GoToLast(r, pc) /\ request[r].pc # "idle"
      BY <2>1, <2>3, <3>1
    <3> QED BY <3>2, RequestMoves
  <2>4. ASSUME Done(r)
        PROVE  request'[r] # request[r]
    <3>1. PICK pc : pc = "idle"
      OBVIOUS
    <3>2. pc # request[r].pc /\ request[r].pc # "idle"
      BY <2>1, <3>1
    <3> QED BY <2>4, <3>1, <3>2, RequestMoves
  <2>5. request'[r] # request[r]
    BY <2>1, <2>3, <2>4
  <2> QED BY <2>1, <2>2, <2>5 DEF Returning, At
<1>4. CASE Block(r)
  <2>1. user' = Locked(user) /\ user \in User
    BY <1>4, SomebodyIsUser DEF Block
  <2>2. user'.status = "BLOCKED"
    BY <2>1, WrittenUsers
  <2> QED BY <2>2
<1>5. CASE WriteUser(r)
  <2>1. user \in User
    BY SomebodyIsUser
  <2>2. PICK b : b = ~request[r].saw.isTwoFactorEnabled
    OBVIOUS
  <2>3. user' = user \/ user' = [user EXCEPT !.isTwoFactorEnabled = b]
    BY <1>5, <2>2 DEF WriteUser
  <2>4. user'.status = user.status
    BY <2>1, <2>3 DEF User
  <2> QED BY <2>4
<1>6. UNCHANGED user \/ Unblock(r) \/ AcceptCode(r) \/ Block(r) \/ WriteUser(r)
  <2>1. CASE StartSignUp(r) \/ SignUp(r) \/ SocialLogin(r) \/ Reads(r)
    BY <2>1 DEF StartSignUp, SignUp, SocialLogin, Reads, ReadUser, Registered
  <2>2. CASE PastGate(r) \/ Compare(r) \/ CheckAttempts(r) \/ Succeed(r)
    BY <2>2 DEF PastGate, Compare, CheckAttempts, Succeed
  <2>3. CASE DeleteCodes(r) \/ DeleteTwoFactor(r) \/ CreateCode(r) \/ Mail(r)
    BY <2>3 DEF DeleteCodes, DeleteTwoFactor, CreateCode, Mail
  <2>4. CASE Finds(r) \/ ReadOwner(r) \/ StartsSigned(r) \/ Dies(r)
    BY <2>4 DEF Finds, FindCode, ReadOwner, StartsSigned, StartSigned, Dies
  <2> QED BY <2>1, <2>2, <2>3, <2>4, Zenon DEF Step, Reads, Finds, StartsSigned
<1> QED BY <1>1, <1>2, <1>3, <1>4, <1>5, <1>6, Zenon

\* users.service and auth.service: no request that read a suspension ends it.
THEOREM SuspensionStood == AccountsSpec => SuspensionStands
<1>1. ASSUME AccountInv, [AccountsNext]_accountVars
      PROVE  [ Registered /\ user.status = "SUSPENDED" /\ user'.status = "ACTIVE"
               => Returning ]_accountVars
  <2> SUFFICES ASSUME AccountsNext, user # NoUser, user.status = "SUSPENDED",
                      user'.status = "ACTIVE"
               PROVE  Returning
    BY <1>1 DEF Registered
  <2>1. (\E r \in Requests : Step(r)) \/ UNCHANGED request
    BY DEF AccountsNext, ToggleStatus, BlockRunsOut, CodeExpires, projectCleanup
  <2>2. ASSUME NEW r \in Requests, Step(r)
        PROVE  Returning
    BY <1>1, <2>2, OneReturns
  <2> QED BY <2>1, <2>2 DEF Returning
<1> QED BY <1>1, AccountInvariant, PTL DEF AccountsSpec, SuspensionStands, Returning
=============================================================================
