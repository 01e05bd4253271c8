# Specifications of the SeatWaves backend

SeatWaves sells event tickets. A guest pays for a ticket through Stripe
Checkout, the ticket is handed over against a one-time code, and its seller is
paid by a Stripe transfer. This directory specifies the backend: the part where
money and bookings change state in most detail, and around it accounts,
permissions, catalogue, points, reviews, messages, notifications and the lists.
All of it is model-checked on small instances with TLC; every invariant and
every action property of the runs is proved for all instances with TLAPS, under
the conditions section 4 names.

Source paths below are relative to the repository's `src/` directory.

## 1. Inventory

| Component | State | Operations | Talks to |
|---|---|---|---|
| Checkout and bookings (`stripe/stripe.service.ts` createCheckoutSession, `booking/booking.service.ts`) | Booking.status, Transaction (BOOKING_PAYMENT), Ticket.isBooked | open a session and create the rows; cancel; seller's status | Stripe, refunds, webhooks (through the rows) |
| Webhook handlers of a payment (`webhook/webhook.service.ts`) | the same rows | checkout.session.completed / expired, payment_intent.succeeded / payment_failed / canceled, charge.refunded, transfer.created | called by the queue; points |
| Refunds (`stripe.service.ts` processRefund) | Transaction (BOOKING_REFUND) | refund by an admin, refund of a cancellation | Stripe, the rows |
| Delivery (`booking.service.ts` generateBookingCode, verifyBookingCode) | UserOtp, Booking.status, AdminBalance, Transaction (SELLER_PAYOUT), Stripe transfers | send a code; verify it, pay the seller, credit the fee; reverse the transfer | Stripe, webhooks |
| Webhook intake and queue (`webhook/webhook.controller.ts`, `webhook.service.ts`, `webhook.processor.ts`) | WebhookEvent, the BullMQ queue | receive, record, enqueue; process, retry, fail | Stripe, Redis, the handlers |
| Second webhook endpoint (`stripe.service.ts` handleWebhook, confirmPaymentIntent) | Transaction.status, the seller's Stripe columns | five events of payments and account.updated, handled in the request; confirm a PaymentIntent | Stripe, the rows the queue writes too |
| Withdrawals and payouts (`stripe.service.ts`, `transaction/`) | WithdrawalRequest, Transaction (SELLER_PAYOUT) | ask for, approve or reject a withdrawal; pay a host by hand | Stripe, the balance computed from the rows |
| Onboarding (`stripe.service.ts`) | User.stripeAccountId, stripeAccountStatus, stripeOnboardingComplete, stripeCustomerId | create an account and a link, the redirect, check the status; create a customer | Stripe, the withdrawals read the flag |
| Points (`points/points.service.ts`) | RewardPoints, UserLoyalty, TierHistory | award, expire, recompute the tier | called by the checkout.session.completed handler |
| Events and tickets (`event/`, `wishlist/`) | Event, Ticket, Collections, Wishlist | upload one event or many, add, change and delete a ticket, collect, wish for | the checkout reads Ticket.isBooked |
| Authentication (`auth/`) | User.status, UserOtp, Account, LoginHistory | sign up, sign in, second factor, codes, passwords, block after failed logins | UserOtp is shared with the delivery; users.service and the cleanup write User.status and UserOtp |
| Roles and permissions (`role/`, `common/guards`, `common/services/cache.service.ts`, the seller's review in `users/`) | Role, RolePermission, UserRoles, BusinessInfo, Redis | create, change, delete and assign roles; approve a seller; guard a request | the guard fills the cache the role service invalidates |
| Notifications (`notification/`) | Notification, NotificationsSettings, a BullMQ queue | send to one or to all, deliver, read, clear | called by nearly every service |
| Reviews, messages (`review/`, `message/`) | Review, User.averageRating; MessageRoom, Message | review, reply; open a room, send, take back, delete the room | the store of files |
| Uploaded files (`upload/` and the services that use it) | a key in a row, a file in the store | replace an image, create or update a single row | S3 |
| Lists of every service | - | read a page | a client that follows them |
| Reports, help, feedback, activity, dashboards, mail, frame | one table each, or none | single writes, reads, pure I/O | - |

Hard behaviours: webhook events come late, twice and in any order; handlers read
before they write and may die in between; a refund or a transfer at Stripe and
the row that records it cannot be one transaction; two requests of users may be
between the same two steps; PostgreSQL runs at READ COMMITTED; BullMQ gives a
job to another worker when the first one seems dead.

What makes the parts correct: a booking and its payment agree, a confirmed
booking is paid for and has its ticket, an expired one is never paid; a
cancelled booking's guest has the money back; the refund rows are exactly pieces
of money Stripe returned; the platform's fee is credited once; a payout that was
recorded stands; money sent to a seller is not offered again, and a withdrawal
is paid once; an event is PROCESSED only if it was handled, an acknowledged
one is not lost. An accepted code is gone, a lockout comes and a suspension
stands; stale permissions have a cause and an end; what was uploaded is whole,
and a sold seat stays; balance, tiers and ratings agree with the rows they were
computed from; a notice is stored once; a client that pages misses nothing it
need not miss. `PROJECT.json` lists every hazard at its line with the
properties that watch it.

## 2. Modules

| Module | Models |
|---|---|
| `BookingPayment` | checkout, the six payment events, cancellation, refunds, the seller's status changes; Stripe is the environment |
| `RefundLedger` | what the refund bookkeeping promises: money goes back in disjoint pieces of at most the price, and a recorded piece was really returned |
| `Delivery` | extends `BookingPayment` with the code, the verification, the transfer, its compensation, the fee, the payout row and transfer.created |
| `WebhookQueue` | how one event travels from the HTTP endpoint through WebhookEvent and BullMQ to its handler |
| `Withdrawals` | one seller's account: the balance, requests for a withdrawal, approvals, payouts by hand, the rows transfer.created adds |
| `StripeEndpoint` | the second webhook endpoint and confirmPaymentIntent, beside the queue's writes to the same rows |
| `Onboarding` | one seller's account and customer at Stripe |
| `Accounts` | one account: registration, sign-in, lockout, codes, status |
| `Members` | roles, the permission cache, the approval of a seller |
| `Notices` | notifications from the sender to the row |
| `Catalog` | uploads of events, collections, the wishlist |
| `Seats` | a seller who changes and deletes tickets against checkouts and payments |
| `Points` | batches of points, the balance, tiers |
| `Reviews` | reviews and the seller's rating |
| `Rooms` | the room of a booking and its messages |
| `Media` | rows that name an uploaded file, and rows that are to be there once |
| `Listings` | every paged list and a client that follows one |
| `MCMembers`, `MCPlatform` | the modules above as sums: a behaviour is one of its parts' |
| `MC*` and `*.cfg` | instances for TLC |
| `BookingPaymentProofs`, `DeliveryProofs`, `WebhookQueueProofs`, `WithdrawalsProofs` | theorems about the money and the queue |
| `MembersProofs` | theorems about `Members` and `Notices` |
| `AccountProofs` | theorems about `Accounts`, `Onboarding` and `StripeEndpoint` |
| `MarketProofs` | theorems about `Seats`, `Rooms`, `Media` and `Reviews` |
| `TallyProofs` | lemmas about sums over finite sets and sorted sets; theorems about `Points`, `Catalog` and `Listings`, and about the sum of the parts, `MCPlatform` |

**BookingPayment.** A booking, its Checkout session, its PaymentIntent and its
BOOKING_PAYMENT row are made together and share one name. `session`,
`attempted` and `refunded` are Stripe's side; `booking`, `payment`, `refundRow`
and `isBooked` are rows; `events` are the events whose WebhookEvent is not yet
PROCESSED; `worker` and `request` are the local variables of webhook jobs and of
HTTP requests in flight. Every handler is split where another one can come in: a
job finds its row (`StartJob`; how the row is looked up matters, so `Matches`
follows each handler's where clause), then commits (`CheckoutCompleted`, ...);
the commit and the mark PROCESSED are apart, so `Finish` may leave the event to
be processed again, and `JobFails` is a crash or a failed attempt. A
cancellation is load, look for an earlier refund, read what can be refunded, ask
Stripe, record, cancel; an admin's refund is the middle of it. `RequestFails` is
a throw or a crash at any of these points: what was done stays done.

Details kept because they decide properties: the payment row holds the session
id until checkout.session.completed replaces it (`intent`), so
payment_intent events find nothing before; a session without a PaymentIntent
expires with a null, and `stripePaymentIntent = null` matches refund rows
(`ExpiredRows`); `chargeId` is set by payment_intent.succeeded only, and
refund rows carry it too (`ByCharge`); findFirst has no order.

**Delivery.** A verification is: load and check the code (`VerifyCode`), transfer
at Stripe (`TransferToSeller`), begin the transaction, update the booking (which
locks its row, `rowLock`) and look for a credit (`MarkDelivered`), commit
(`CommitDelivery`); or roll back and reverse the transfer. An uncommitted write
is invisible, a lock is held to the end. The seller's share is taken to be
positive, so every verification transfers. `CodeExpires` also stands for what
the authentication does to the codes of an email.

**WebhookQueue.** A delivery looks the event up, creates the row (losing the race
on the unique id is an error answer), adds the job; the job's id is the event's,
so adding one that Redis still keeps does nothing. A worker checks PROCESSED,
runs the handler, marks, completes. BullMQ is external: retries with a backoff,
the lock of an active job and what happens when it expires, the workers that go
on without it, removal of old jobs. The handler is checkout.session.completed,
in which the award of points commits on a connection of its own.

**Withdrawals.** Every query of this part selects one seller's rows, so the module
is one seller's account. A request for a withdrawal reads the balance
(`AskForWithdrawal`; `getHostBalance` runs in a transaction of its own, whose
reads are one step here), looks for a pending request (`CheckPending`) and
creates the row (`CreateWithdrawal`); at READ COMMITTED another request may come
in between each of them. An approval and a payout by hand load and check
(`LoadWithdrawal`, `LoadHost`), transfer at Stripe (`PaySeller`) and then record;
the record is `createTransaction` without a payer, which throws
(`transaction.service.ts:79-83`), so there is `AdminStops` and no action that
makes a request APPROVED. The row of the transfer is the one the transfer.created
handler makes (`FindPayout`, `SettlePayout`). What the seller earns and whether
Stripe has onboarded the seller change freely around it. One assumption about time:
the id of the seller's Stripe account does not change once money was sent there.
`createHostOnboardingLink` writes it in a transaction that found none and that
Prisma ends after five seconds; two of them at once may replace an account just
made, but none that a seller has completed and an admin has paid. Without that,
the webhook would find no user for the transfer and no row would count it.

**StripeEndpoint.** `handleWebhook` finds a row by what the row then calls its
PaymentIntent, which is the session's id until the queue has handled
checkout.session.completed: so a direct payment_intent.succeeded that comes
before is answered 500 and delivered again, and a direct session.completed that
comes after never succeeds. The queue's handlers are here only as what they write
to the row. `confirmPaymentIntent` retrieves and confirms in two steps.
A transfer or a dispute looks its row up, then asks for the status of that row's
own id as if it were a PaymentIntent (`stripe.service.ts:1285`, `:1319`): once
there is a row, each of these events fails until Stripe gives up, and no row ever
becomes DISPUTED.

**Onboarding.** A link is read, create an account, write it, one transaction that
may be rolled back (`doomed`) after Stripe has made the account; the status check
reads, asks Stripe, writes. `createPaymentIntent` is here for the customer it
creates: its price is the constant 0 (`stripe.service.ts:671`) and it always
throws afterwards, which is also why no charge has an application fee.

**Accounts.** A request reads the user once (`ReadUser`) and goes on from its
copy: gate, comparison, history row, check of the last rows, block, codes. `failed`
is how many of the last rows are FAILED, as far as the check reads them; the
check fetches what the latest row may already have changed. A code is an id under
its type, `used` the ids accepted. `blocked` is whether the block still runs, and
time may end it at any moment.

**Members.** One member. A change of a role and its invalidation are two steps; the
guard gets, loads, and stores; `late` records that an entry was stored or left
stale for one of the three reasons the code has no answer to but the time to live.

**Notices.** The sender reads the settings, then adds the job; three kinds go to
everyone. The processor starts the listener and does not await it, so completing
the job and creating the row are independent; a worker that dies may take
listeners with it.

**Catalog, Seats.** An upload is a number of chunks; a single one is one
transaction, a bulk one commits step by step. `Seats` has the race `BookingPayment`
leaves out: there a ticket is never changed or deleted.

**Points, Reviews, Rooms, Media.** Each operation is split at every query that
another request can come between. Points are the numbers the rule computes
(rounding included), time is a small clock. `Media` has one slot per kind of row,
because the services differ in what they do between deleting the old file and
writing the new key.

**Listings.** The 43 lists as records of whose rows they show, how a page is found
and how the client learns of the end. Four of them cannot keep what a list
promises, and the properties name them by what is wrong: `getAdminCollections`
gives the length of the page as the total, `help.findAll` hands out the row it
reads ahead, the wishlist's cursor is not skipped and never ends, `getSidebar`
skips one row wherever the cursor stands. Three lists of a seller
(`getSellerListing`, `getEventsSeller`, `findHostAppBookings`) are not filtered by
the seller.

**The sums.** `MCMembers` and `MCPlatform` check modules that share no variable. The
first state chooses a part and only that part moves, so the states are the sum of
the parts' and not their product, and each property is checked in all behaviours
of its part. That a behaviour of the sum is one of each part is proved
(`MembersAndNotices`, `PlatformIsItsParts`), so the theorems about the parts hold
of the runs. The parts really are apart: each reads tables the others do not
write. What they share is small and modelled on both sides: a code that vanishes
(`CodeExpires` in `Delivery`), a ticket that is marked (`Seats`, `BookingPayment`),
the onboarding flag (`Withdrawals`), a payment's row (`StripeEndpoint` has the
queue's writers).

`BookingPayment` takes from `WebhookQueue` only that an event may be handled
again, late or by several workers, so the two are checked apart. `Withdrawals` takes from `BookingPayment` only a sum
of earnings that rises with payments and falls with refunds.

## 3. Runs

| Run | Instance | Properties | States |
|---|---|---|---|
| `core` | two guests, one ticket, one job and one request at a time, price 2, full admin refunds | `TypeOK`, `SettledTogether`, `ConfirmedSeatIsTaken`, `CancelledMeansMoneyBack`, `FullyRefundedMeansMoneyBack`, `ExpiryIsFinal` | 3.9 M |
| `refunds` | one booking, two requests at once, refunds of half the price, a seller who sets PENDING | `RefundLedgerImplemented` | 2.1 M |
| `delivery` | one booking, two verifications, two transfers, a seller who sets SHIPPED | `DeliveryTypeOK`, `CreditedOnce`, `RecordedPayoutsStand`, `DeliveredIsPaidOut` | 2.3 M |
| `webhook_queue` | one event, two deliveries at once, two workers, two attempts, one stall | `WebhookTypeOK`, `ProcessedMeansHandled`, `RerunsAreBounded`, `AckedEventSettles` | 68 k |
| `withdrawals` | one seller who earns up to 2, two requests at once, one admin, two jobs, three withdrawals and two transfers of 1 | `WithdrawalTypeOK`, `PendingIsBounded`, `TransfersAreCounted`, `CountsAreBounded` | 1.1 M |
| `members` | two guards, two admins, three changes; two users, one kind of each sort, two jobs, one death | `MCTypeOK`, `StaleHasCause`, `VerifiedSellerHasRole`, `StaleEnds`, `UnwantedIsLate`, `NoticesAreNotRepeated`, `JobsAreSettled` | 0.9 M |
| `platform` | two requests at once in each of ten parts; the bounds below | `PlatformTypeOK`, `UsedCodesAreGone`, `LockoutComes`, `SuspensionStands`, `MediaIsKept`, `CatalogIsWhole`, `PaidSeatIsBookedOrGone`, `SoldSeatStays`, `PointsAddUp`, `ReviewsHold`, `RoomsHoldMessages`, `PagesHold`, `OnboardingHolds`, `StatusHasCause` | 2.7 M |
| `one_guest_per_seat` | two guests, one ticket | `OneGuestPerSeat`: violated | |
| `refund_reaches_booking` | one booking, an admin's full refund | `RefundReachesBooking`: violated | |
| `payout_after_refund` | one booking, an admin's full refund, verifications | `RefundedIsNotPaidOut`: violated | |
| `points_once` | as `webhook_queue` | `PointsOncePerEvent`: violated | |
| `paid_once_per_request` | as `withdrawals` | `PaidOncePerRequest`: violated | |

Four violations are promises of the documentation the code does not keep; the
fifth is an error of the code:

- *Seats.* `README.md:152` promises holds, `stripe.service.ts:503` "Reserve
  tickets"; the ticket is only marked when a payment has been processed, and
  nothing looks at it then. Both guests pay and both are CONFIRMED.
- *Refunds.* `webhook.service.ts:904` and `stripe.controller.ts:1044` say the
  booking's status follows a refund; only Transaction rows are written.
- *Payouts.* `stripe.controller.ts:1046` says a refunded booking is not paid
  out; the verification looks at no status.
- *Points.* `webhook/README.md:63` says events are processed once; a handler that
  fails after the award awards again on retry.
- *Approvals.* `stripe.service.ts:1626` refuses a request that has been processed
  already, but every approval throws after its transfer (no payer is given to
  createTransaction, `:1653`), so the request stays PENDING and the next approval
  pays it again. One admin and no race are enough.

**Bounds.** Two guests are all a race for one ticket or between two sessions'
rows needs; bookings of other tickets meet only in `ExpiredRows`, which two
bookings show. One webhook job at a time is the processor's own concurrency of
an instance; the proofs cover any number. Price 2 lets a refund be partial, and
price 1 is enough where only full refunds matter. Two requests or verifications
are enough for a check-then-act race; `MaxTransfers` is one for each. One stall
and two attempts make every path of the queue happen, with a retry and a
take-over; `MaxDeliveries` = 2 makes two deliveries overlap. In `withdrawals` three
withdrawals are one more than can be pending, two transfers let a request be paid
twice, and two jobs let a transfer be counted twice. Symmetry is used for
interchangeable guests, requests, verifications, jobs and withdrawals, never with
liveness.

In `platform` two requests at once are what every check-then-act race of these
services needs. Accounts: lockout after 2 failures (the code's 3 differ only in how
long it takes), two kinds of code of which two are ever issued, so that one can
replace the other. Media: two uploads into each slot, three rows where one is
meant. Catalog: two events, two chunks, a limit of 2 for a collection instead of
5, five operations: three fill and pass the limit. Seats: two tickets, two
guests, four requests of the seller. Points: two tiers, three batches, two
recalculations, two moments. Reviews: two events, two guests, two reviews. Rooms:
a room opened again after it was deleted, four messages. Listings: three rows and one
inserted, pages of one and two. Onboarding: three accounts, one more than the
requests. Endpoint: two payments, two deliveries of an event, three
facts at Stripe. Larger values were tried where the part alone allows them
and find nothing else.

Properties of `platform` and `members` name the exceptions the code makes: a
history variable (`raced`, `crossed`, `overlapped`, `replaced`, `late`, ...) records
that the race the code leaves open has happened, and the property says that
nothing else breaks it. `OneReviewPerGuest`, for example, is false without
`crossed`, and the run would show it.

`CHECK_DEADLOCK FALSE`: every bounded instance ends when guests have paid,
events are processed and deliveries are used up.

**Fairness** is assumed in `webhook_queue` and `members` only. In `webhook_queue` a live worker goes on with its
job (`Processing`, weakly fair per worker: Node runs it), BullMQ workers poll
(`TakeJob`), a backoff ends (`Promote`), and the stalled-job check finds a job
whose worker is gone (`Orphaned`). Nothing obliges Stripe to deliver again,
BullMQ to forget a job, a worker to die or the lock of a live worker to expire.
In `members` Redis expires an entry (`EntryExpires`: `setex` with a minute), a guard
and an admin's request that have begun go on or die (Node runs them, or the process
ends), and BullMQ's worker takes, completes and runs what is queued. No sender, no
admin and no guard has to begin anything, and nobody has to change settings.
`StaleEnds` says that permissions are fresh for good from some point on, which
needs that changes stop: `MaxChanges` bounds them.

## 4. Theorems

All are proved for every value of the constants that the named ASSUMEs of the
modules allow: any sets of bookings, tickets, workers, requests, verifications,
users and kinds of codes, and any prices and bounds. Where a property counts, the
counted sets are assumed finite (requests in `Withdrawals`, `Catalog`, `Media`,
`Reviews` and `Onboarding`, users in `Notices`, events in `Catalog`), as the requests of a
process are. `Media` assumes that the documents, which are written by other
rules, are not also listed as a single row; `Points` that points, factors and
durations are natural numbers; `Catalog` that there is a type of collection.

Few of the properties are inductive as they stand. What a handler is going to
write was decided by what it read earlier, so the invariants below say of every
local variable in flight what was true when it was read and still is, or what may
have happened since.

Every module has its type theorem (`TypeCorrect`, `DeliveryTypeCorrect`,
`WebhookTypeCorrect`, ...). The others, with their arguments:

**Bookings and payments** (`BookingPaymentProofs`)

- `EvidenceHolds`: the invariant the next three rest on. `Evidence` says that
  everything a row, an event, a job or a request claims about Stripe is true and
  stays true: an event of a captured payment exists only for a complete session, a
  payment row with the PaymentIntent id belongs to one, an expiry belongs to an
  expired session, and a complete session never expires.
- `ConfirmedSeat`, `Settled`, `ExpiredForGood`: `ConfirmedSeatIsTaken`,
  `SettledTogether` (strengthened by what a job that read PENDING may still
  write) and `ExpiryIsFinal`.
- `LedgerInvariant` and `RefundsImplementLedger`: the rows and the refunds in
  flight are disjoint pieces below what Stripe returned; so every step of
  `BookingPayment` is a step of `RefundLedger` or changes nothing of it.
- `CancelledGetsMoneyBack`, `FullyRefundedGetsMoneyBack`: a request that reached
  the cancel step has returned the whole price.

**Delivery** (`DeliveryProofs`)

- `CreditsOnce`: the argument of the row lock. A verification that saw no
  credit, and has not committed, holds the lock of the booking's row or there is
  no credit yet and nobody else can add one; this fails for one that found the
  booking DELIVERED, so the invariant also says that a DELIVERED booking has its
  credit.
- `RecordedPayouts`: `PayoutInv` adds that the transfer of a running verification
  stands, is nobody else's and has no payout row yet, so a reversal takes back
  what no row names.
- `DeliveredPaidOut`: the commit writes the status, the credit and the row
  together; by `PayoutInv` no later reversal takes the transfer behind that row,
  and by `CreditInv` the credit is there.

**Webhook queue** (`WebhookQueueProofs`)

- `ProcessedHandled`: what a worker has reached by its own steps was done for its
  event and stays done, and only a worker that got there marks or completes; one
  that lost its lock is no exception.
- `RerunsBounded`: a budget (`BudgetInv`). Each delivery of an event brings it the
  takes of one job, attempts and stalls; they are in the deliveries under way, in
  the job, in the workers ahead of the award, in the awards made, or lost.

**Withdrawals** (`WithdrawalsProofs`)

- `PendingBounded`: strengthened to `PendingInv`, the pending withdrawals and
  the requests that have passed the check are together at most the requests,
  because a request passes the check only while nothing is pending.
- `TransfersCounted`, `CountsBounded`: from `CountInv`, the rows of a transfer and
  the jobs that found none are together at most the jobs, because a job finds none
  only while there is none; a job that found the row is right, because payout
  rows are never deleted.

**Members and notices** (`MembersProofs`)

- `StaleEntries`, `VerifiedSellers`: inductive with the types; the work is in the
  steps, each of which keeps the entry fresh or leaves one of the causes.
- `NoticesAreWanted`, `NoticesAreFew` (`NoticesInv`): what a sender is about to queue
  respects the settings or is marked late; a job that waits was tried (a row, a
  listener or a failure) at most once for each death, one that was taken once more.

**Accounts, onboarding, second endpoint** (`AccountProofs`)

- `UsedCodesGone` (`CodesInv`): ids only grow, so a code that was accepted is not
  issued again, and a request answers with a code that was issued.
- `LockoutCame` (`LockoutInv`): once the last rows are FAILED and nothing was lifted,
  a request is still to look at them or the account is BLOCKED, not merely
  inactive: leaving that status is what lifts.
- `SuspensionStood` (an action property): a request lifts only a block its copy
  of the user shows (`ServedInv`); every other step to ACTIVE is an admin's or a
  verified code's.
- `OnboardingHeld`: `OnboardingInv` says that a request or the row names only
  accounts that exist, and what is about to be written Stripe has said. `CountInv`
  counts what Stripe holds beyond the rolled back transactions: while the row
  names no account, only a request about to name one has made one; from then on
  each request at once may have found the row empty.
- `StatusCaused` (`EndpointInv`): every event, however late, tells of a fact of its
  own payment, and facts are never withdrawn.

**Seats, rooms, files, reviews** (`MarketProofs`)

- `PaidSeats`, `SoldSeatsStay` (an action property): by `SeatsInv` no request of the
  seller under way names a ticket whose sale nobody raced (`raced`), and a booking
  goes with its ticket.
- `RoomsHold`: inductive with the types and with what an upload knows: whoever
  is to send an image has seen a room.
- `MediaKept`: `KeysInv` says whose key is whose. A key that was uploaded and not
  yet written is in the store, in no row and its request's own; a key belongs to
  one slot; and a request deletes only the file it read. `CreatorsInv` counts the
  single rows together with the requests that are about to create one.
- `ReviewsHeld`: who is about to write a second review has crossed the first
  (`CrossedInv`); the only request that reads reviews reads those of the event
  reviewed last, and what is written with nobody about to read is their average
  (`RatingInv`).

**Points and catalogue** (`TallyProofs`)

- Lemmas about sums over finite sets (`SumUnrolls`, `SumTakes`, `SumSplits`,
  `SumMoves`, ...). The folds of the community modules are recursive functions on
  sets; that the sum of a finite set unrolls to any one summand and the rest is
  proved by well-founded induction on its subsets (`SubsetInduction`, stated for
  a set of sets so that no operator is passed).
- `PointsAdded`: by `BalanceInv` an expiry that is alone subtracts batches that are
  active still; by `TierInv` a tier was earned when it was chosen, before it is
  written; by `HistoryInv` who recalculates alone writes over the tier it has read.
- `CatalogWhole`: `CatalogInv` counts, beside the rows, what the requests in
  flight may still insert: the chunks an upload lacks, the entries that were
  counted as fitting. Each request adds one at most.

**Lists** (`TallyProofs`)

- Lemmas about sorted rows. The rank of a row is how many rows are as new; every
  finite set has a row of each rank (`RanksAreTaken`, by counting: an injection
  between sets of one size is onto), so it has a sorted enumeration
  (`NewestSorts`), in which a row stands where its rank says (`SortedPlaces`), and
  newer rows may be put before older ones (`SortsBoth`). `OrdersEnumerate`: what a
  query returns enumerates the rows shown, sorted unless keys are tied.
- `PagesHeld`: `ListInv` says of the rows that stay that each one up to where the
  client stands was seen, and of the rows seen that none is beyond. "Where" is a
  rank for a client of page numbers and a row, or a key, for one of a cursor; a row
  that comes raises ranks and one that goes lowers them, which is exactly what
  page numbers cannot survive and cursors can. `AllLists` is shown to use a few
  ways of paging (`ListsAreKnown`); the proof needs no more of them.

**The sums** (`TallyProofs`, `MembersProofs`)

- `PlatformIsItsParts`, `MembersAndNotices`: `MCPlatform` and `MCMembers` implement
  the specification of each of their parts, the fairness of `MCMembers` included.
- `PlatformTypes`, `MembersAndNoticesTypes`: from these and the parts' types.

Conditions. `updateSellerStatus` writes any status over any other, so a property
about a status is only true while sellers do not write that status by hand; each
theorem names it (`"CONFIRMED" \notin SellerStatuses`, ...). The two money-back
theorems also ask that admins refund whole payments: after a partial refund a
cancellation takes that refund for its own and returns nothing more
(`booking.service.ts:669`). The refund ledger, the standing payouts and the
theorems outside the core need no condition.

Only model-checked: liveness (`AckedEventSettles`, `StaleEnds`,
`JobsAreSettled`), which is out of the prover's reach (fairness and ENABLED).

## 5. What is not modelled

`PROJECT.json` gives every component's status and reason. Left out:

- data nothing decides by: prices in currencies and their rounding in the core (a
  price is a number of smallest refunds), mails, socket messages and logs, rate
  limits, the texts and filters of lists, tokens (stateless JWTs);
- single writes that no other state depends on: profile, interests, reports,
  feedback, help, activity, texts of the content, unread marks, rules and tiers;
- code that nothing reaches: `create` and `updateStatus` of bookings,
  `redeemPoints`, the distributed lock (and its copy in event.service),
  `recurrence.ts`, the event queue (its processor has no job), the approvals,
  payments and refunds of transaction.service, `application_fee.created` (no charge
  carries a fee);
- reads: dashboards but for the paged one, queries of one row, getters of Stripe;
- below the models: a commit whose acknowledgement is lost, two checkouts of one
  guest as such (they are two bookings), a code of another guest's booking (a code
  is found by the email, `booking.service.ts:1059`, and fits any of the guest's
  bookings: nothing promises more);
- frame: bootstrap, configuration, filters, interceptors, health, seed data, tests.

What the reading found and no run states, because nothing in the repository
promises the contrary: a disputed charge is never recorded (`stripe.service.ts:1319`);
`createPaymentIntent` always throws (`:671`); a FIXED discount is taken for a
percentage at the checkout; SYSTEM, NOTIFY and ALERT notifications sent to one
member go to all; the seller's rating is the average of the event reviewed last.

## 6. Plan

In this order:

1. A refinement of `Accounts` by an abstract account (active, locked, suspended)
   in which a lifted lock never lifts a suspension.
2. `Seats` and `Delivery` in one instance: a ticket deleted under a booking whose
   code has been sent.

Liveness stays with TLC.
