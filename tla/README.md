# Verification of the shop backend

TLA+ models of the 7HK backend (`src/src`, a Node/Express/MongoDB shop with
Razorpay payments), checked with TLC and proved about with TLAPS.  The models
are written from the code; each definition's lines are listed under `map` in
`PROJECT.json`.

The question behind the project: customers pay, abandon, retry and cancel while
webhooks arrive late, twice and out of order, a sweep runs every minute and
processes die.  *Is every unit of stock, every booking and every coupon granted
once, to someone who pays or gives it back, and is every payment either
fulfilled or returned?*

## 1. Inventory

| Component | State it keeps | Operations that change it | What makes it correct |
|---|---|---|---|
| **Payments: online checkout** `modules/payments/payment.service.js` | `PaymentIntent`: status, reservation state and expiry, `activeDedupeKey`, `authorizedAt`, refund fields | create session, initialise provider order, verify, reconcile, webhook, abandon, expiry sweep, consume, refund | A hold is taken once, ends once, ends always; a captured payment is fulfilled or refunded |
| **Payments: webhooks** `razorpay.webhook.js` | `PaymentWebhookEvent`: processing / processed / ignored / failed, lease | record, retry, process | Every event is applied at least once, its effects once |
| **Payments: refund engine** `payment.service.js` 520-794, 1096-1331 | refund fields of the intent, `Payment` refund ledger | queue, claim, look up by receipt, create at provider, apply refund events | Never refunds twice, reaches the target, never exceeds it |
| **Inventory** `modules/inventory`, `shared/utils/inventory.js` | `Product.stock`, `Product.reservedStock` | reserve, release, consume, sell, restore | Never oversold; counters equal what documents claim |
| **Delivery slots** `modules/delivery` | `DeliverySlot.booked`, `capacity` | reserve, release, create, update | `booked` counts live claims, at most `capacity` |
| **Coupons** `modules/coupons` | `Coupon.reservedCount`, `usedCount`; `CouponRedemption` | claim, consume, release, edit | At most `usageLimit` redemptions, one per customer |
| **Orders** `modules/orders` | `Order.status`, `paymentStatus`, `inventoryRestoredAt` | create (paid, cash), cancel, move status, deliver with OTP | One order per payment; cancelled goods come back once; no status goes back |
| **Support tickets** `modules/support` | `SupportTicket` status, `activeOrderKey`; the user's rejection count | create, approve, refund, pick up, reject | One active ticket per order; ticket, order and refund agree |
| **OTP login** `modules/auth/secure-otp.service.js` | Redis challenge, attempts, proof | request, verify, exchange proof | Bounded guesses, one proof per challenge |
| **OTP delivery** `modules/auth/otp-notification.*`, `whatsapp.webhook.js`, `providers/` | queue jobs, message mapping, pending status, the challenge's delivery status | send, accept, fail, stall, status webhooks | The status never goes back and tells what the provider said last |
| **Login sessions** `modules/auth/auth.service.js` | refresh hash, session version, login completion | login, complete, refresh, logout | A refresh token works once |
| **Administrator seat** `modules/owner`, `admin.routes.js` | the seat, account status, session versions, action tokens | invite, replace, revoke, reset, consume, set an account's status | One administrator; a revoked one cannot come back by an old token |
| **Addresses** `modules/addresses` | `isDefault` | create, update, set default, delete | One default address |
| **Tax ledger** `modules/taxes` | counters, invoices, credit notes, sealed filings, acknowledgements | issue, import, credit, cancel, seal, acknowledge | Gapless numbers, credits within the invoice, nothing joins a sealed month but what was under way |
| **Catalog** `modules/catalog` | products and variants, including the stock fields | create, update, delete | An edit does not lose a reservation |
| **Pricing, store hours** `orders/pricing.service.js`, `settings/storeAvailability.service.js` | none (pure) | - | Totals add up; open exactly in the hours configured |
| **Catalogue image migration** `scripts/migrate-catalog-images.js` | image URLs in the database and in files, backups, the image host | read, upload, replace, back up, write, verify | No picture changes or is lost, wherever it dies |
| **Consent, reports, admin views, audit, notifications, realtime, wiring** | logs and messages | - | Nothing another component decides on |

**How they interact.**  `createOrder` and `createRazorpayCheckoutSession` run
one MongoDB transaction over inventory, slot, coupon, intent and order, so the
resources move together with the documents that claim them.  Everything that
involves Razorpay cannot be in a transaction: a handler reads the intent, awaits
the provider, and writes on the basis of what it read.  Five kinds of handler do
so for the same intent at once: the customer's own requests (verify, reconcile,
abandon, resume), webhook deliveries, the sweep, the order request that gives up
and refunds, and the initialisation of the provider order.

**What is hard.**  Stale reads across an `await`; captures that arrive after
release; webhooks out of order, duplicated or lost in a crash; two requests for
one cart; the last unit, booking or redemption; compare-and-set filters that
must name every status they must not overwrite; a sweep that swallows errors and
must still end every hold.  `PROJECT.json` lists each hazard at its line.

## 2. The modules

| Module | Role |
|---|---|
| `Purchases` | What customers ask for: products, online checkouts (`Intent`), cash checkouts (`Cod`), quantities, who uses the coupon, and the assumptions on these constants |
| `ReservationLedger` | **Abstract specification**: each purchase is in one phase (none, held, sold, released, returned), and a purchase is granted only if what all claimants ask for fits |
| `Resources` | Stock, slot and coupon counters with the primitive mutations of `inventory.service`, `delivery.service`, `coupon.service` |
| `Checkout` | The payment-intent state machine and the order service over `Resources`, with the handlers in flight, Razorpay and the customer |
| `RefundEngine` | How one captured payment goes back: the refund fields of the intent, the refund ledger, the order's payment status, the provider's refunds |
| `WebhookEvents` | The record that keeps a payment or refund event from being handled twice, its lease and its redelivery |
| `TaxLedger`, `Fulfilment`, `GstFilings` | Tax documents and their numbers; the order after checkout, which composes them with status moves, cancellation and delivery; the months sealed of them (each extends the one before) |
| `SupportTickets` | Tickets of delivered orders and the three documents a refund of them must keep in agreement |
| `Pricing` | What an order costs, the snapshot of it a payment keeps, and the invoice lines |
| `StoreAvailability` | Whether the store takes orders, and when it will again |
| `CatalogStock` | One product's stock between checkouts and staff who edit it |
| `ImageMigration` | The script that moves the catalogue's pictures, against staff edits and its own death |
| `AddressBook` | One customer's addresses, edited on two devices |
| `AdminSeat` | The one administrator seat: invitations, revocations, resets, sessions, and accounts made active or blocked |
| `OtpLogin` | One account's WhatsApp codes, proofs, login completions and refresh token |
| `OtpDelivery` | How a code reaches the customer, and what is known of it |
| `MCCheckout`, `MCRefund`, `MCFulfilment`, `MCEdge`, `MCBackOffice` | Values for TLC, and the composition of components that share no state (section 3) |
| `Checkout_proofs` | Type correctness of `Checkout`, its inductive invariant and the three ledger theorems |
| `Guarantees_proofs` | Four more of its properties, how far findings 1 and 2 reach, and that it implements `ReservationLedger` |
| `RefundEngine_proofs` | What a refund call may rely on, four theorems of `RefundEngine`, and how far findings 3 and 4 reach |
| `Fulfilment_proofs` | Returned stock, series, credit notes, cancellations and filings, and how far finding 5 reaches |
| `Edge_proofs` | Logins, the delivery of codes, webhook events |
| `Support_proofs` | Ticket, order and refund agree |
| `BackOffice_proofs` | The seat, stock edits, the image migration, addresses |
| `Storefront_proofs` | Opening hours, paid carts, and invoices that add up |

### How `Checkout` corresponds to the code

One **action is one MongoDB transaction or one compare-and-set update**; the
database makes both atomic.  A handler that awaits the provider, or decides on a
document it read earlier, is a record in `calls`, which holds what the
JavaScript closure holds: the status it read (`seen`), whether the reservation
was held and `authorizedAt` set (`held`, `dated`), and what the provider
answered (`got`).  `pc` is the `await` it is suspended at: `fetch` (the
provider), `mark` (`markIntentFromPayment`), `finish` (its last transaction).

| Variables | Code |
|---|---|
| `stock`, `reservedStock` | `Product` / variant fields |
| `booked` | `DeliverySlot.booked` |
| `redemption`, `reservedCount`, `usedCount` | `CouponRedemption.status`, `Coupon` counters |
| `status`, `reservation`, `activeDedupeKey` | `PaymentIntent` fields; the order transaction's inner `processing`/`consuming` states are never visible outside it |
| `expired`, `authorizedAt` | `reservation.expiresAt` and `authorizedAt` against the clock, as what the code distinguishes: past or not |
| `order` | the `Order` of a purchase: none, placed, cancelled |
| `payment`, `webhooks` | external: the customer's payment at Razorpay, and events not yet accepted |
| `calls`, `crashes` | handlers in flight; how many died |

| Actions | Code |
|---|---|
| `Open`, `Resume`, `AttachProviderOrder`, `FailInitialization`, `ReleaseUninitialized`, `FinishResume` | `createRazorpayCheckoutSession`, `reusableIntent`, `initializeProviderOrder` |
| `Verify`, `Reconcile`, `Fetch`, `FetchError`, `Mark` (`RecordCapture`, `RefundLateCapture`, `RecordUncaptured`, `RecordNothing`) | `verifyRazorpayPayment`, `reconcileRazorpayPaymentSession`, `reconcileIntentFromProvider`, `markIntentFromPayment` |
| `AcceptWebhook` | `processWebhook`, `applyRazorpayWebhookPayment` |
| `Abandon`, `FinishAbandon` | `abandonRazorpayPaymentSession` |
| `CreateOrder`, `PlaceCodOrder`, `Refuse`, `FinishRefuse`, `CancelOrder` | `performCreateOrder`, `refundUnfulfillablePayment`, `cancelOrder` |
| `Sweep`, `ExtendAuthorized`, `ReleaseExpired`, `RefundExpired`, `SkipJob` | `sweepExpiredPaymentReservations`, `extendAuthorizedReservation` |
| `RefundJob` | a step of the refund engine as the checkout sees it |
| `Pay`, `Expire`, `AuthorizationLapses`, `Crash` | the customer at Razorpay, time, process death |

Choices that are easy to miss:

* `RecordUncaptured` writes back the status the handler *read*, because
  `markIntentFromPayment` does (`intent.status` in its update): that is where
  the first finding below comes from.
* A capture is terminal at Razorpay: `Pay` never leaves `captured`.
* `Crash` drops the call.  A webhook whose handler died is either redelivered or
  answered 200 unprocessed, when its record is still inside the lease.
* `WebhooksOf("failed")` is empty: a `payment.failed` event writes back what the
  intent already has, or loses its compare-and-set.
* Queueing a refund again for a cancelled order that is `refunded` may find a
  retained fee still there, or nothing (`QueuedStatuses`).
* `UnitsOf` writes a sum of quantities as the cardinality of a set of
  (purchase, unit) pairs.  Quantities are 0..5 (`MAX_ITEM_QUANTITY`).  The form
  lets proofs use the library's facts about finite sets, with no recursion.

### How `RefundEngine` corresponds to the code

`Checkout` leaves a payment at "its refund is queued" and has one action,
`RefundJob`, for what follows.  `RefundEngine` is what follows, for one payment.
It starts where `Checkout` has a captured payment, with an order or without
(`ordered`), because the code keeps the ledger of refunds on the `Payment` of the
order or, without one, on the intent, in different branches.

| Variables | Code |
|---|---|
| `status`, `reservation`, `refundTarget`, `refundAmount`, `refundReceipt`, `refundId`, `refundStatus` | `PaymentIntent` fields of these names, in paise; `Unset` and `"none"` for a field that is not there |
| `requestedAt` | `refundRequestedAt` against the 30 seconds of the claim: unset, recent, stale |
| `refunded`, `processedRefundIds` | the ledger, on `Payment` or on the intent |
| `orderPayment`, `timeline` | `Order.paymentStatus` and the event keys of `Order.refundTimeline` |
| `refunds`, `delayed`, `events` | external: the provider's refunds; requests the code stopped waiting for; webhooks not yet accepted |

| Actions | Code |
|---|---|
| `Cancel`, `Initiate`, `QueueCancelled`, `Unfulfillable`, `SweepRefund`, `SweepHeldRefund` | `cancelOrder` (its transaction), `initiateOrderRefund`, `queueOrderRefund`, `refundUnfulfillablePayment`, the sweep |
| `Known`, `Keep`, `Drop`, `Claim`, `Found`, `NotFound`, `Request`, `RequestFails`, `GiveUp`, `Record` | the steps of `refundIntentPayment`, between its awaits |
| `Deliver`, `Note`, `CountOnPayment`, `UpdateOrder`, `SettlePaid`, `Remainder`, `Mention`, `CountOnIntent`, `SettleReleased`, `Requeue` | `applyRazorpayRefund`, step by step |
| `Sync` | `syncOrderRefundState` |
| `Arrives`, `RefundSettles`, `RefundByHand`, `ThirtySecondsPass`, `Crash` | the provider, staff in its dashboard, time, process death |

Choices that are easy to miss:

* A refund receipt is a hash of intent and amount, so the model uses the amount.
* `NotFound` is enabled whatever the provider has: the lookups before and after
  the request swallow their errors, and a failed lookup is treated as "nothing
  found".  What then prevents a second refund of the same money is the
  provider's own limit, which `CreateRefund` has.
* `withProviderTimeout` stops waiting but does not stop the request, so a timed
  out request stays in `delayed` and may be served after the retry.
* `Record`, `Keep` and `Note` write without looking at what happened since: the
  code's filters there are by id only (`Note` spares `refunded`).
* The two order updates of `syncOrderRefundState` are one step.
* `Initiate` after a late capture takes the cancellation's own target; the webhook
  reads it from `order.refund.amount` (`razorpay.webhook.js:52-55`), which a refund
  that was applied meanwhile overwrites with its own amount.  It is used only when
  no refund is queued, and then that amount was refunded already.

### How `OtpLogin` corresponds to the code

One customer account and the Redis keys of its phone number.  The part is closed:
it shares no state with the shop.  An action is one Lua script, one transaction
or one document update; `calls` holds the requests suspended at an `await`.

| Variables | Code |
|---|---|
| `challenge`, `cooldown`, `proof` | the Redis keys `otp:challenge`, `otp:cooldown`, `otp:verified`, with their hashes as the code's identity |
| `registered`, `blocked`, `tokenVersion`, `session` | the `User` document: there, `status`, `tokenVersion`, and the token that `refreshTokenHash` is the hash of |
| `completed` | `LoginCompletion` by proof, with its `tokenVersion` |
| `asked`, `codeOf`, `begun`, `logouts` | history, read by no action's outcome: which codes were asked for, which code a proof was given for, and how many logouts there had been when a token's account was read |

| Actions | Code |
|---|---|
| `RequestOtp`, `Enqueued`, `EnqueueFails` | `requestOtp` with `CREATE_CHALLENGE_SCRIPT` and the cleanup |
| `WrongGuess`, `RightGuess`, `RetryGuess` | `VERIFY_TO_PROOF_SCRIPT`, by its branches |
| `Lookup`, `Complete`, `CompleteFails`, `Durable`, `Resolve` | `completeVerifiedLogin`: the first lookup, the transaction that commits (acknowledged or not) or does not, the lookup after it, the handler of its errors |
| `Deny`, `Mark`, `TransitionInVain` | `TRANSITION_VERIFIED_PROOF_SCRIPT` after a login or its refusal |
| `RegisterCustomer`, `PasswordLogin`, `RefreshSession`, `Save` | each reads the account, signs, and saves the hash later |
| `Logout`, `ChangeStatus` | one update each |
| `ChallengeExpires`, `ProofExpires`, `CooldownExpires`, `Crash` | time, process death |

Choices that are easy to miss:

* The tokens of a completed login are derived from its proof
  (`createLoginCompletionTokens`), so a replay answers with the same token: its
  identity in the model is the proof.
* `Save` writes the hash only, because mongoose saves what was modified: it does
  not put back the token version its handler read.  `LogoutEndsSessions` depends
  on exactly that.
* Two codes that were asked for are different codes.  With six digits they may
  coincide; then the old proof answers for the new code.
* The challenge outlives the proof made before it, because a proof gets the time
  its own challenge had left.

### How `WebhookEvents` corresponds to the code

`record` is `PaymentWebhookEvent.status`, `leased` says whether it was written
within `WEBHOOK_PROCESSING_LEASE_MS`, `handlers` are `recordAndProcess` calls.
`StartHandling` is the insert or the claiming `findOneAndUpdate`,
`AnswerDuplicate` the 200 for neither, `ProcessEvent` and `ProcessFails` are
`processWebhook` (what it does to the intent is in `Checkout` and
`RefundEngine`), `SaveOutcome` and `SaveFails` the save at its end,
`HandlerStops` a death.  A handler may outlive its lease; its save is not
conditional and overwrites what another one wrote.  `handled` and `early` are
history.

### How `TaxLedger`, `Fulfilment` and `GstFilings` correspond to the code

| Variables | Code |
|---|---|
| `documents`, `counter`, `lock` | `TaxDocument`, `InvoiceCounter` of a series, `InvoiceCounter` "credit-lock" |
| `today` | the store's date; a day is a month, because financial year, deadline and filing period are told apart by months |
| `order` | `Order`: status, method, payment status, `inventoryRestoredAt` (`restored`), whether its invoice predates the ledger (`legacy`); `returned` and `cancelledOn` are history |
| `updates` | `updateOrderStatus` calls that read the order |
| `placements`, `cancellations`, `notes` | the transactions of `createOrder`, `cancelOrder` and the owner's credit notes that have dated their document and not committed: what they read, the lock and the counter of their series as they were |
| `filings`, `acknowledgements` | `GstFiling`, `GstFilingEvent` |

| Actions | Code |
|---|---|
| `DateInvoice`, `PlaceOrder`, `AbortPlacement` | the end of `performCreateOrder`: `issueOrderInvoice` takes `issuedAt`; the transaction commits, if no other took the number; or it is given up or run again |
| `ReadOrder`, `SaveOrder`, `VerifyDelivery` | `updateOrderStatus` (a read, a later save), `verifyDeliveryOtp` (one conditional update) |
| `BeginCancel`, `CancelOrder`, `AbortCancellation` | `cancelOrder`'s transaction with `recordOrderCancellation`, which credits the remainder: its reads and the date of its note; its commit, if order, invoice, lock and counter are as it read them; its end without effect |
| `BeginCreditNote`, `CommitCreditNote`, `AbortCreditNote` | `issueCreditNote`: a snapshot, and a commit if neither lock nor counter was written meanwhile |
| `ImportLegacyInvoice` | `importLegacyInvoice`, from the migration script or on first use |
| `PrepareGstFiling`, `RecordPortalFiling` | `prepareGstFiling`, `recordPortalFiling`: the seal of a month, the acknowledgement of a return |

A transaction that dates a document and commits later is two steps, because
`prepareGstFiling` reads the ledger without a conflict with either: the month may be
sealed in between.  What a transaction read before it dated its document is read in
the same step, since it commits only if that was not written meanwhile; and its two
looks at the clock (`tax.service.js:124` and `:100`, or `:68` and the financial year
of the number) are one, a moment apart.

`CreditLines` is the arithmetic of `creditNoteLines`: a part of the line's tax is
rounded, never more than what is left, and the note that takes the rest of the
amount takes the rest of the tax.  `Used` counts
what earlier notes took of a field as (note, unit) pairs, the form of `UnitsOf`.

### How `SupportTickets` corresponds to the code

`ticket` is the `SupportTicket` (`keyed`: `activeOrderKey` is set), `payment` and
`mentions` are `Order.paymentStatus` and the keys of `refundTimeline`, `intent`
and `bySupport` the `PaymentIntent`'s status and refund reason, `customer` the
user's rejection count and cash block.  `clerks` are the calls in flight, of
customers, administrators, the sweep and the webhook; each is suspended between
its database writes, of which no two are in one transaction.

| Actions | Code |
|---|---|
| `OpenTicket`, `CreateTicket`, `WindowCloses` | `createSupportTicket`: the duplicate lookup, then the insert the unique index decides |
| `SchedulePickup`, `Approve`, `Reject`, `CountRejection`, `BlockCash` | the administrator's decisions and `rejectTicket`'s two updates of the user |
| `ReadApprovedOrder`, `SaveCashTicket`, `SaveCashOrder`, `MarkOrderPending`, `QueueRefund`, `FindRefund`, `RequestRefund`, `SaveTicket`, `SaveFailedTicket`, `SaveFailedOrder` | `applyApprovedRefund`, write by write, with its catch |
| `SyncOrder`, `Mention`, `SyncTicket` | `syncOrderRefundState`'s three updates |
| `RefundNotice`, `SweepRefund`, `ProviderSettles`, `DashboardRefund`, `CallDies` | who else moves the refund |

What the engine does between request and answer is `RefundEngine`'s; here a
request and its answer are one step.  `interrupted` marks the orders for which
the code makes no promise: a call died, an approval's save overtook the event
(`applyApprovedRefund` saves what it read), or the money was back already.

### How `Pricing` and `StoreAvailability` correspond to the code

`Pricing` has the pure functions of `pricing.service` and `invoice.service` as
operators in whole paise (`Discount`, `DeliveryFee`, `GstIn`, the allocation of
the coupon to lines, the halves of the tax), and three variables around them:
the catalogue, the snapshot of a paid cart (`checkoutSnapshot`) and the order
placed.  `PayCart` and `PlacePaid` are the session and the order request, between
which `RepriceProduct` may change prices and the cart may come back in another
sequence.

`StoreAvailability` translates `evaluateStoreAvailability` and `nextOpening`;
the settings are chosen in the initial state and the clock runs, so that what the
code says of the future is checked against what it says then.

### How `CatalogStock`, `ImageMigration`, `AddressBook` and `AdminSeat` correspond to the code

| Module | State | Actions |
|---|---|---|
| `CatalogStock` | `variants`, `available`, `version`: the `Product`; `editing`: `updateProduct` between read and save; `held`: what checkouts hold | `ReserveUnit` ... `RestoreUnit` are `inventory.service`'s conditional updates; `SaveDefault` writes one field, `SaveVariants` the whole array with the reservations it read; `ClearReservations` is the maintenance script |
| `ImageMigration` | `shows`, `file`: the URLs; `script`, `read`, `uploads`, `replaced`, `unwritten`: the script's variables; `assets`: the image host; `backups` | the phases of `migrate-catalog-images.js` (load, upload, replace in one transaction, back up and write each file, verify); `EditImage` is staff; `ScriptDies` at any point, a file half written being `Torn`; `RestoreFile` copies a backup |
| `AddressBook` | `book`, `defaults`: `Address`; `listed`: `User.addresses`; `errands`: calls in flight | each handler of `address.service` as its writes in order: insert, list, clear the other defaults; unlist, delete, promote the next |
| `AdminSeat` | `account`: the `User`; `link`: `AdminActionToken`; `desk`: calls in flight; `signed`: access tokens | `Replace`, `Revoke`, `RevokeLinks`, `SendReset` (`ResetInvalidates`, `ResetCreates`) of `owner.service`; `FollowsLink` is `consumeToken`; `SignIn`, `Signs`, `ChangePassword`, `PasswordChanges` the holder; `AsksStatus`, `StatusIsSet` his `PATCH /admin/customers/:id/status`: let in, and the update of any account, whatever its role and seat |

Choices that are easy to miss:

* Both saves of `CatalogStock` check mongoose's `__v`, but only an array
  replacement (`SaveVariants`) and the clearing script increase it: the stock
  updates of checkouts do not, so a save does not notice them.
* A field whose value equals the one that was read is not written
  (`SavedAvailable`), and then what others wrote of it stays.
* The properties of these four name their exceptions by history variables
  (`clobbered`, `raced`, `overlapped`, `overwritten`): the code does not protect
  those cases (section 5), and everything outside them is checked.
* `SeatTakenByStandingInvitation` is about holding the seat *and* being active,
  because only the two together let an administrator in (`userSessionIsCurrent`).
  Its second case is the status update that was let in and comes late (section 5).
* `SaveDefault` and `SaveVariants` always check the version; in the code a save that
  writes nothing of the array does not, which accepts more edits and loses none.
  An edit with no variants at all, which retires every one, is left out.
* Passwords, prices, street names and the bytes of pictures are left out.

### How `OtpDelivery` corresponds to the code

`current` is the challenge with its `deliveryStatus`, `codeOfMsg` the mapping
`otp:message`, `pending` the key for a status that came before the mapping,
`jobs` the `send-otp` jobs with their attempts, `hooks` status webhooks between
their reads and their script.  `Accepted`, `SendFails` and `SendIsRejected` are the
provider's answers, the second also a timeout of a request that may have been
served; `Stalls` is the queue running a job again whose worker died before it recorded
the acceptance (one that dies after that and before the job is done is left out).
`RecordAccepted`, `RecordFailed` and `Apply` are the Lua scripts.  The fixed code
of demo numbers is a code that is never queued.  What a code is good for is
`OtpLogin`'s.

## 3. The runs

| Run | Instance | Shows |
|---|---|---|
| `checkout_core` | 1 online, 2 cash purchases, 2 calls | `StockLedger`, `SlotLedger`, `CouponLedger`, `OrderIsPaid`, and the refinement `LedgerSpec` |
| `checkout_retry` | 1 cart opened under 2 keys, a cash order, 1 call | `OneHoldPerCart` |
| `checkout_live` | 1 online purchase, 2 calls, 1 crash, fairness | `HoldsEnd`, `CapturedHoldIsKept`, `RefundHoldsNothing` |
| `capture_regression` | 1 online purchase, 2 calls | **violated**: finding 1 |
| `refund_of_live_order` | 1 online purchase, 2 calls | **violated**: finding 2 |
| `refund_engine` | 1 payment of 3 units, cancellations that give back 2 or 3, dashboard refunds of 1 unit, 2 refunds, 2 calls, 1 failed refund, 1 crash | `LedgerCountsOnce`, `GoesBackOnce`, `RefundedIsPaidOut` |
| `refund_live` | 1 payment, 1 call at a time, 1 crash, 1 failed refund, fairness | `ReleasedPaymentGoesBack` |
| `refund_job_finishes` | as `refund_engine` | **violated**: finding 3 |
| `fee_retained` | 1 call, a dashboard refund, no failures | **violated**: finding 4 |
| `edge` | `OtpLogin`: 1 account, 2 codes, 2 proofs, 2 further tokens, 2 calls, 2 guesses, 2 logouts, 1 crash; `OtpDelivery`: 2 codes, 2 messages, 2 attempts, 1 stall, 2 statuses per message, 1 webhook in flight; `WebhookEvents`: 2 events, 2 handlers, 2 failures | `OneLoginPerCode`, `RetiredStaysRetired`, `LogoutEndsSessions`, `TypeOK` (a challenge never keeps as many wrong guesses as are allowed); `DeliveryNeverGoesBack`, `DeliveryIsReported`; `EventNotLost` |
| `back_office` | nine parts, each alone in its behaviours (below) | `SeatTakenByStandingInvitation`, `EndedSessionsStayEnded`, `OneSeatOneLink`; `InvoiceAddsUp`, `PaidCartIsHonoured`; `NextOpeningIsOpen`; `TicketFollowsRefund`, `BlockedAfterRejections`, `OneActiveTicket`; `AddressesConsistent`; `ImagesKept`, `FilesRecoverable`; `ReservationsKept`, `AvailableIsNet`; `StockReturnedOnce`, `CancelledIsCredited`, `CreditsWithinInvoice`, `SeriesGapless`; `FilingIsComplete` |
| `cancelled_stays` | 1 order, 1 staff member | **violated**: finding 5 |

**Bounds.**  `Worker` bounds the calls in flight: two are enough for every race
between one handler that read and one that wrote, since each write is a single
step; customers' other requests (`CreateOrder`, `CancelOrder`, `PlaceCodOrder`)
need no worker.  With two intents one worker is left to keep the state space
within minutes (`checkout_retry`); the race that needs two calls on one intent is
in the other runs.  `MaxCrashes` bounds how many calls die; a crash only removes a call.
The constants in `MCCheckout` make each resource run out: rice for one of `i1`
and `k1`, two bookings for three purchases, one redemption for two users of the
coupon.  `Permutations(Worker)` is a symmetry of the safety runs (workers are
interchangeable and in no property); the liveness run uses none.
Deadlock checking is off: when every purchase has ended and nothing is in
flight the shop is at rest.

In the refund runs two provider refunds suffice for "a second one while the
first is not known", three units for a whole, a target below it and a part, and
a target is more than half of the payment because the retained fee is a few
percent (`RefundAssumption`).  `MaxFailures` bounds the refunds that fail at the
provider: with every one failing, none would ever go through.

In `refund_engine` a crash, a dashboard refund or a full cancellation may happen
when at most one call is in flight (`MCBound`), two calls otherwise.

**`edge` and `back_office` put components side by side that share no state.**  A
variable `part`, chosen in the initial state, names the one that moves; the
others rest in one initial state.  That checks exactly the behaviours of each
component, and says nothing about several of them together, because there is
nothing to say.  `GstFilings` extends `Fulfilment`: `filings` moves both.
Constants of different parts have the same values (an `Admin` is also a `Ticket`,
an `ImageField` and a `SourceFile`; a `Code` is also an `Otp`) so that one
permutation is a symmetry of every part.

In `edge` two codes are needed for a code that replaces another while its proof
is used, two further tokens for two refreshes of one token, two logouts for one
before and one during a call; two messages for a job that runs again, two
statuses for an order between them, two events and two handlers for a handler
that outlives its lease.  The code has 3 attempts per job; the second is a last
one that follows another.  The proofs in section 4 have none of these bounds.

The parts of `back_office`:

| Part | Instance |
|---|---|
| seat | 2 accounts, 3 links, 2 calls, 1 sign-in, 2 password or status changes, 2 decisions of the owner: a replacement and one that overtakes it |
| pricing | 2 products, prices 1 and 99 paise and rates 0, 5, 18 %, 4 carts of up to 5 units, a flat and a capped percentage coupon: amounts that do not divide and products that cost less than their rounding |
| availability | days of 5 times, weeks of 2 days, a look-ahead of 3 days; 4 schedules, a special day, closures that begin and end inside a day or run through it, 6 sets of zones |
| support | 1 delivered order, 2 tickets, 2 calls, 2 refunds at the provider, 1 death, after which one call is in flight at a time; 1 rejection allowed (2 in the code) |
| addresses | 3 addresses, 2 devices |
| images | 3 pictures of which one is unfit, 2 fields, 2 files, 2 upload workers, 2 runs of the script, 1 edit |
| stock | 2 variants of at most 2 units, 2 editors, 2 holds, 2 saves |
| fulfilment | 2 orders of which one is acted on after checkout, 3 months over 2 financial years, series of 2 numbers, 1 key of the owner's credit notes, 1 status update, an invoice whose line does not divide evenly and a delivery line |
| filings | the same with 1 order, 2 filings and the acknowledgements of one return |

In the last two at most two status updates and transactions are under way at once
(`MaxUnderWay`): what is committed conflicts with what one other has read, and a
document that joins a sealed month needs one transaction that is under way at the seal.
The order acted on is paid online in `fulfilment` (`PaidOnline`) and in cash in
`filings` (`OneCashOrder`), where the seal does not look at the payment; notes without
GST are issued only for that order in `fulfilment` and for none in `filings`
(`GstNotes`), since the rules of a number and of a seal are the same for them; a second return
changes nothing of the documents (`OneReturn`).  These bounds keep the run within
minutes; the theorems have none of them.

A series of two numbers is exhausted within the run.  In `stock`, `support`,
`images` and `addresses` two actors suffice because a step reads what one other
actor wrote.  Deadlock checking is off in both runs: numbers, links, codes and
attempts are bounded and run out.

**Fairness of `checkout_live`.**  `startExpiredReservationSweep` runs the
sweep every minute on every instance, so a hold that ran out is inspected again
and again (`SF` on `SweepOf`: between two sweeps the intent may leave and
re-enter the list).  A handler that has started goes on or dies (`WF` on each
worker).  Timers elapse (`WF` on `Expire`, `AuthorizationLapses`).  The provider
answers the sweep some time (`SF` on `AnswerSweep`): if Razorpay never answered,
the code rightly keeps the hold of a payment that may have been captured.
Nothing is assumed of customers, of webhooks or of order requests.

**Fairness of `refund_live`.**  The sweep comes back (`SF` on `SweepAgain`), a
handler goes on or dies, the 30 seconds pass, the provider settles a refund it
accepted, and is not down for ever for any question it is asked (`SF` on
`Known`, `Found`, `Request`: each is asked again and again, and each may fail
any finite number of times).  No webhook has to arrive: the sweep's lookup is
enough.  The run has one execution at a time; with two that overlap, one may
record a failed refund each time the other has dropped it, and strong fairness
of single steps does not rule out that they alternate for ever.

## 4. The proofs

Each theorem is for all values of the constants that satisfy the assumptions of
its module: `PurchaseAssumption`, `ResourceAssumption`, `CheckoutAssumption`,
`RefundAssumption`, `LoginAssumption`, `DeliveryAssumption`, `TaxAssumption`,
`FulfilmentAssumption`, `SupportAssumption`, `SeatAssumption`,
`CatalogAssumption`, `MigrationAssumption`, `AddressAssumption`,
`AvailabilityAssumption` and `PricingAssumption`.  They give the constants their
types, and what the code's own validation of settings and amounts gives them; TLC
evaluates them in every run that uses the module.  Every proof has the same shape: an inductive
invariant, whose parts are named below with the reason each is needed; one lemma
per action, and per part of the invariant where actions are many; and a theorem
that draws the property from the invariant.

**Checkout.**  `Checkout_proofs` proves `TypeCorrect == Spec => []TypeOK`, and
`StockNeverOversold`, `SlotNeverOverbooked` and `CouponNeverOverused`: the three
ledgers hold for every finite set of purchases and any products, customers,
carts, quantities, capacity, usage limit and number of calls in flight.

The ledgers are not inductive.  `LedgerInv` adds

* `OrdersConsume`: the reservation of a session that has an order is consumed -
  so that a held session has none, and taking it to an order adds one claimant
  and drops one;
* `FreshIntents`: an intent that does not exist yet has no reservation - so that
  `Open` adds a claimant that was not counted;
* `CallsRemember`: what a handler in flight may still rely on although it read it
  long ago: it works on a document that exists, and a webhook call is about to
  write `authorized` or `captured` - so that no stale write gives a status to an
  intent that was never opened.

Each action either takes a hold, ends a hold, takes a hold to an order, sells,
restores, or leaves the ledger alone; one lemma per case gives the new
cardinalities and counter values, and the invariant's step cites them action by
action.

`Guarantees_proofs` proves `EveryOrderIsPaid`, `CartIsHeldOnce`,
`RefundReleasesHold` and `CapturedKeepsHold`.  None of the four is inductive:
each depends on what stale calls may still write.  `GuaranteeInv` extends
`LedgerInv` with

* `StatusIsPaid` and `EventsAreTrue`: a status, or a capture event on its way,
  that says "paid" is of a payment that is captured;
* `WritesUnpaid`: a call that may write back the status it read has read one of an
  unpaid session - so that finding 1 may take a recorded capture back but never
  record one that is none;
* `OpenedHolds`, `HoldsHaveKeys`, `KeysAreUnique`: a session that exists has a
  reservation, a hold has its cart's key, and the unique index lets one session
  have it - so that no second hold of a cart begins.

It also proves `ImplementsLedger == Spec => LedgerSpec`: for all constants
`Checkout` implements `ReservationLedger` under the mapping `Phase`.  Its core is that the abstract guard follows from what the code tests.
`LedgerInv` says that the counters count the claimants; `ClaimantsAre` and
`RedeemersAre` say that the claimants of the abstract ledger are those; and
`GuardsMeanFits` concludes that a conditional update that succeeds means that
everything claimed fits.  The rest is one lemma per action: one decision about
one purchase, or a stutter.

**Refunds.**  `RefundEngine_proofs` proves `RefundTypeCorrect`,
`RefundedMeansPaidOut`, `EachRefundCountedOnce` and `NoMoreThanDecided`, for any
amount, targets, dashboard refunds, calls, failures and crashes.

* A call decides to settle on what it counted some awaits ago.  That is safe
  because of `Grows`: the ledger never shrinks, the target never grows, and a
  refund the provider made stays made.  `RefundInv` says for every call in flight
  what it may rely on (`CallTrue`): the total it carries is at most the ledger,
  the refund it names was made, and one about to settle has seen the ledger reach
  the target.
* `LedgerCountsOnce` needs `PaidInv`: what an event or a call calls processed is
  processed at the provider (`PaidCall`), so the set of counted refunds only
  gains refunds that were paid, each once.
* `GoesBackOnce` needs `OnceInv`: as long as nobody refunds by hand, every refund
  at the provider, every request that is still on its way and every amount a call
  carries is the target or nothing, and at most one refund is live - because the
  provider refuses one that exceeds the payment, and two targets exceed it.

A sum of paise is the cardinality of a set of (refund, paisa) pairs (`Paise`), as
`UnitsOf` is for quantities, so that the library's facts about cardinalities say
what a sum becomes when a refund joins, and no induction over the set is needed.

**Orders and tax.**  `Fulfilment_proofs` proves `StockIsReturnedOnce`,
`SeriesHaveNoGap`, `CreditsStayWithinInvoice` and `CancellationsAreCredited` of
`Fulfilment` and `FilingsAreComplete` of `GstFilings`, for any orders, staff,
notes, invoices, days and length of series.  `LedgerInv` there is the conjunction of

* `TransactionsInv`: what a transaction under way may rely on: an order being
  placed does not exist and is placed by no other, one being cancelled was there
  when it was read.  With it `PlacedAs` and `CancelledAs` say what a commit does by
  its order and its day alone, and the parts below need not mention transactions;
* `ReturnInv`: an update in flight never writes `cancelled`, and `restored`
  remembers what a saved status forgets;
* `SeriesInv`: the counter of a series is the number of its documents and its
  last number, by one lemma for a numbered document that joins the ledger and one
  for an imported invoice, which has no number of a series;
* `BillsInv`: for each order (`Bill`) at most one invoice, with credit notes only
  under it, and `Balanced`: of every line the credit notes leave a value that is
  not negative, of tax and of each half of it too, and no tax where no value is
  left.  For each note under way (`StillFits`): **if the lock it read is still the
  lock**, its lines fit what is left.  That is the argument of
  `issueCreditNote`: two notes computed from one snapshot cannot both commit.
  `Fits` needs tax less its half to fit as well, which is what makes the second
  half of the tax stay within the invoice when each is rounded on its own.

`FilingInv` says of a sealed month that it is over, that a transaction under way
whose document is dated in it was under way at the seal (`DatedKnown`), and that the
first month, in which imported invoices are dated, is not sealed while an order waits
for its import.  A step keeps it because every document that joins the ledger is one
that a transaction under way has dated, or an import's (`Joining`, `Dated`), and what
begins is dated today (`BegunToday`), after every sealed month.
`FulfilmentAssumption`
says that an invoice's amounts are natural numbers, the tax within the line's total
and the half within the tax.

**Customers and messages.**  `Edge_proofs` proves the properties of `OtpLogin`
(`LoginTypeOK`, `CodeLogsInOnce`, `LogoutEnds`, `RetiredStays`), of `OtpDelivery`
(`ReportsAreKept`, `DeliveryAdvances`) and of `WebhookEvents` (`NoEventIsLost`),
for any codes, proofs, tokens, messages, calls, attempts, failures and crashes.

`LoginInv` says why a login cannot be repeated:

* `Versions`: the token version is the number of logouts, and a token carries the
  version its account had when it was read - so that a late save brings a token
  of an old version, which nothing accepts;
* `Unborn`: a proof that completed no login has no token yet - so that the login
  transaction, which checks that, never puts a used token back;
* `Codes`: the challenge's code has no proof, and no two proofs have one code -
  because the script that makes the proof deletes the challenge;
* `Proven`: a call that completes a proof was given it for a code.

`DeliveryInv` follows a status from the provider to the challenge:

* `MessagesFit`, `HooksFit`: a message's code is the one it was accepted for, and
  a webhook in flight carries a status the provider did report;
* `JobsFit`, `OneMessage`: a code has one job, which has accepted nothing before
  its last step, so a code has one message - unless its job was run again;
* `PendingKept`, `StatusKept`: a status that was seen is within the one under the
  pending key as long as the message is not mapped, and afterwards within the
  challenge's or the pending one.  Statuses arrive in any order and twice; the
  second disjunct is what the next webhook repairs.

`WebhookInv` adds `SuccessIsTrue` (what a record or a handler says was handled,
was) and `SomebodyAtIt` (an event in process has a handler, or something failed).

**Support.**  `Support_proofs` proves `OneTicketAtATime`, `RejectionsBlockCash`
and `AllThreeAgree` of `SupportTickets`, for any orders, tickets, clerks and
deaths.  The last is the longest: ticket, order and intent are written by separate
updates of four kinds of calls, so `SupportInv` says who will still bring each of
them along.

* `CallFits`, `TicketFits`, `OrderFits`: what a suspended call and a document at
  rest may say: a ticket that says `refunded` is of an intent that does, a
  timeline entry of a refund is of one that happened;
* `OneKey`: the unique index, from which `OneActiveTicket` follows since an active
  ticket keeps its key;
* `BlockComes`: more rejections than allowed have blocked cash, or a call is about
  to;
* `OrderFollows`: a refund is on behalf of support only when the intent says so;
  once the intent is `refunded`, the order is or a call is about to write it
  (`PaymentFollows`), and every approved ticket is written by the approval in
  flight or by a call that delivers the refund (`TicketFollows`).

A step of one order leaves what the others rely on alone (`OrderRests`), and what
calls rely on is never undone (`Onward`).

**Back office.**  `BackOffice_proofs` has a section for each of these.

| Theorems | Inductive invariant |
|---|---|
| `SeatAndLinkAreUnique`, `OnlyTheStandingInvitationSeats` | `SeatInv`: one seat, one open link of each kind, and `StandingOnly`: an active invitation whose account waits in the seat is the owner's last.  A status update makes the holder active only if its caller is not the holder any more (`StatusSeatsNobodyElse`) |
| `EndedSessionsEnd` | `EraInv`: a token, and a call that will sign one, has a version no later than the account's, and if it is the same then no session was ended since - unless a password change overwrote a newer version |
| `ReservationsAreKept`, `AvailableStaysNet` | `CatalogInv`: the two properties, and that an edit read a product in step with itself unless it was raced |
| `FieldsKeepTheirPicture`, `FilesAreNeverLost` | `ImageInv`: a replacement is on the host and fit, and only unfit uploads are destroyed (`FieldsFit`); what the script read of a file is the picture in it, a torn file has a backup, and backups have the picture (`FilesFit`) |
| `AddressesStayListed` | `BookInv`: an address is listed or about to be, and `ClearedBy`: which defaults a handler that runs alone has cleared at each of its steps |

**Storefront.**  `Storefront_proofs` is about what the code computes.

`NextOpeningIsTrue` has the types as its invariant (`SettingsInv`); it is about a search: the moment that `nextOpeningAt` returns is one
at which the store accepts orders, and there is none before it; and if it returns
none, no moment of the days it looks at is one.  `AcceptsWhenOpen` says
that the evaluation accepts exactly when the address is served and `Open` holds,
`CandidateOpens` that the search's candidate of a day is such a moment and on that
day, `OpenHasCandidate` that a day with such a moment has a candidate no later, and
`LeastMember`, the least-number principle from the well-foundedness of the
naturals, that the days with a candidate have a first one.  The two cases the code
gets wrong are the property's exceptions (section 5).

`PaidCartsAreHonoured` needs `PaidInv`: the amount paid is the total of the
snapshot.

`InvoicesAddUp` has as its invariant that the totals of a paid snapshot are
*coherent* with its items: every line is taxed inside its net price at the rate of
its item, and tax and total are the sums of the lines and the delivery
(`Coherent`).  The argument is in four steps.

* `TotalsCoherent`: `calculateCartTotals` hands out coherent totals.  What it rests
  on is the allocation of the discount (`AllocationAddsUp`): each line takes its
  rounded share of what the earlier lines left, so a share could exceed its line, or
  the rest be more than the remaining lines can bear.  `RoundedShare` says that
  neither happens, because 0 <= left <= weight stays true: from
  (weight - left) * (weight - x) >= 0 and the rounding by at most a half.
* `SnapshotCoherent`: putting the snapshot into the sequence of the cart keeps it
  coherent.  Matching by product is a rearrangement, and a total does not depend on
  the sequence (`TotalOfRearranged`): it counts the pairs of a position and a paisa.
* `TrustedAsListed`: the invoice's correction of the last line corrects nothing.
* `CoherentAddsUp`: the halves of the tax are differences of rounded running
  totals, so they add up to the rounded half of the whole, and none is negative
  (`HalvesRise`).

These are facts about folds over lines of any number, and the library's induction
theorems take an operator, which no installed prover instantiates.  Two things take
their place.  `LeastMember`, from the well-foundedness of the naturals, gives
induction over a *set* of numbers (`Induction`).  And a community fold is the
`CHOOSE` of a function with an equation: `FoldExists` builds such a function, so the
chosen one satisfies the equation, and `FoldRuns` reads off its values for the first
0, 1, 2, ... lines.  `TotalRuns` and `SharesRun` are these for the sum and for the
allocation.

`PricingAssumption` says that prices, rates, charges and coupon values are natural
numbers, as the models' `min: 0` has it (a tax rate or a percentage with a fraction,
which the code accepts, is outside the theorem), and that a cart has an item and no product
twice: `order.validation.js` and `payment.validation.js` refuse duplicates.  (A cart
with one product both without a variant and with its default one gets past them;
its payment is refunded, section 5.)

**How far the findings reach.**  Five runs show that a statement of the
documentation does not hold (section 5).  For each there is a theorem that says
what can break it, so that nothing else needs to be feared or repaired:

* `OnlyLateAnswersRegress` (finding 1): only `Mark`, with an answer about an
  uncaptured attempt, takes a recorded capture back; the session still holds then
  and the payment is captured.  `OrderedPaymentsAreSettled`: never that of an order.
* `OnlyStaleDecisionsRefund` (finding 2): only `FinishRefuse` and `RefundExpired`,
  in a call that read `verified`, refund a standing order; no event, reconcile or
  late capture does.  `RefusalsRead` is what such a call remembers.
* `OnlyLateAnswersReopen` (finding 3): a refund that is done is taken up again
  only where `refundIntentPayment` records an answer (`Keep`, `Drop`, `Record`);
  queueing again cannot, because `RefundedIsPaidOut` leaves nothing owed.
  `OnlyLateAnswersStick`: a job with nothing left to request begins with one of
  these three; every other job keeps something to ask for (`RestIsLeft`).
* `FeeRetainedByTheEngine` (finding 4): as long as staff refund nothing by hand,
  no request takes the ledger beyond the target.  It follows from `OnceInv`.
* `OnlySavesRevive` (finding 5): only the save of a status update ends a
  cancellation, as an order under way, with its stock given back once, its payment
  status and its day of cancellation as they were.

The actions that do move a status are collected in `StatusMoves`, one lemma per
group of handlers; the theorems read off it which one it must have been.  TLC
checked the six action formulas first, on the instances of the findings.

**Model-checked only.**

* `HoldsEnd` and `ReleasedPaymentGoesBack` are liveness under fairness, which the
  prover does not handle.
* The five properties of the runs that expect a violation: the code does not have
  them.

## 5. Findings

1. **A recorded capture can regress** (`payment.service.js:824`).  The
   compare-and-set in `markIntentFromPayment` excludes `consumed` and the refund
   statuses but not `verified`.  A `payment.authorized` event, or a reconcile,
   that read the intent before `payment.captured` was recorded writes it back to
   `authorized`.  `docs/razorpay-production.md:132` says duplicate and
   out-of-order webhooks do not regress a captured payment.  The next
   reconciliation repairs it (`HoldsEnd`, `OrderIsPaid` hold regardless), but
   until then an order request is refused.
2. **A standing order can be refunded** (`payment.service.js:540`).  The refund
   queue accepts a session that was consumed meanwhile.  The order request that
   gives up, and the sweep, decide on an earlier read; when another request for
   the same session commits its order in between, the order stands and its
   payment goes back.

3. **A refunded payment can become a refund job for ever**
   (`payment.service.js:745`).  The provider's answer is recorded with no
   condition on the status.  When the `refund.processed` webhook is applied in
   between, `refunded` becomes `refund_pending` again while `refundAmountPaise`
   is 0, so each sweep takes the job and `refundIntentPayment` returns at once.
   The money is out and the ledger right (`LedgerCountsOnce`), but intent and
   order may say that the refund is pending.
4. **The retained fee can be refunded** (`payment.service.js:1271`).  After a
   partial refund in the dashboard, the rest to refund is computed from the whole
   payment and not from `refundTargetPaise`.

5. **A cancelled order can be confirmed again** (`order.service.js:776`).
   `updateOrderStatus` reads the order, checks the transition and saves, with no
   condition on what it read.  A cancellation that commits in between is
   overwritten by `confirmed`, `packed` or `out_for_delivery`, although stock, slot
   and payment went back.  The table of transitions says `cancelled: []`
   (`order.service.js:65`).  Stock is not returned twice when the order is
   cancelled again (`StockReturnedOnce`): `inventoryRestoredAt` remembers.

Seen while modelling, without a run of their own.  Payments and logins:

* A partial dashboard refund of a payment whose session was released leaves the
  intent naming that refund; the sweep finds it processed and counted, and the
  rest is never requested (`ReleasedPaymentGoesBack` is checked without
  dashboard refunds for that reason).
* A code that was verified stays good until its proof expires, also when a newer
  code was sent and that one was used up: it answers with its own login, and only
  while that login is still the current one (`RetryGuess`, `ReplayCurrent`).
* Two concurrent refreshes of one token both answer with a new token, and only
  the one saved last works.
* A `refund.created` or `refund.failed` event of a dashboard refund turns the
  intent of a standing order into a refund job (`payment.service.js:1163`).  The
  documentation subscribes the webhook to neither event.
* A webhook event that is redelivered while its handler holds the lease is
  answered 200 and lost if that handler then fails (`razorpay.webhook.js:103`);
  `EventNotLost` has this as its one exception.
* A cart that names a product once without a variant and once with its default
  variant passes the validation of a payment session, but the snapshot keeps one
  of the two: the captured payment does not match its order and is refunded.
* A WhatsApp status that found no mapping before the acceptance was recorded may
  be left under the pending key and never read; a second acceptance of the same
  code, after a job was run again, sets its status back to accepted.
* The limit on pending cash orders is checked and then acted on: two orders at
  once both pass.

Orders, tax and prices:

* Credit notes of a few paise each round their tax in the same direction, so the
  taxable value that is left can become negative although amount and tax do not.
* Two returns of one month may acknowledge different seals of it.
* An invoice, a cancellation's note or the owner's note that was dated before the
  month was sealed (`tax.service.js:68`, `:100`) may commit after it: the seal
  conflicts with none of them and does not wait.  The document is then of the month
  and not in the seal (the exception of `FilingIsComplete`); the orders placed in the
  month's last moments are exposed to it only if the owner seals in these moments.
* `nextOpeningAt` ignores a closure that has not begun and a cutoff before the
  opening of the same day (the exceptions of `NextOpeningIsOpen`).

Support tickets:

* A second ticket may be opened within the window after the first was refunded;
  approving it sets order and ticket to `refund_pending`, and nothing changes
  that again.
* A ticket left in `processing` by a crash is never taken up again; a crash after
  the timeline entry of `syncOrderRefundState` leaves the ticket behind, because
  the next run matches no order.
* `applyApprovedRefund` saves what it read over a `refunded` a webhook wrote.

Back office:

* A password change saves the token version it read plus one, also over a newer
  one, and then sessions that had been ended may work again (the exception of
  `EndedSessionsStayEnded`).
* A reset that was asked for before a revocation may create its link after it.
* `PATCH /admin/customers/:id/status` sets the status of any account
  (`admin.routes.js:35`).  An update that was let in before its administrator was
  replaced, and comes after, makes the new holder active before the invitation is
  used (the exception of `SeatTakenByStandingInvitation`).  An administrator who was
  revoked and is made active has no seat, and so no session; one who is blocked and
  made active again has his old sessions, because the token version did not change.
* `setDefaultAddress` on the default address clears every default.  Two
  concurrent creations may both be default; a deletion that overtakes the second
  write of a creation leaves a reference to nothing.
* Replacing a product's variants over a newer reservation loses it; a stock edit
  that overlaps a reservation leaves `availableStock` stale; and after the script
  that clears reservations, releasing or consuming a hold that was live throws.
* A category edit checks its parent and children and saves later; moving a
  category leaves the references of its products, and an active category under
  an inactive one is accepted.

## 6. Plan

Done: checkout, refunds, webhook events, login and its delivery, orders and their
tax documents, support tickets, seat, addresses, product edits, pricing, hours,
the image migration; and every safety property of them that the passing runs
check proved, with the refinement of checkout.  Left, in this order:

1. Proofs: the safety steps behind `HoldsEnd`: a hold that ran out stays in the
   sweep's list until it ends.
2. `RefundEngine` composed with `Checkout`, for an order that commits while its
   payment is being refunded from the dashboard.
3. The sweep's queue: fifty jobs at a time, half of them refunds, and what a
   backlog does to expired holds.
4. Slot and coupon edits against reservations.
5. Cash-on-delivery eligibility; categories.

## 7. Not modelled, and why

* In `Checkout`, refunds made by hand in the Razorpay dashboard: `RefundEngine`
  has them, for a payment whose order is placed before the refund starts.
* Retry delays of refund jobs (`nextRefundAttemptAt`): the sweep may come at any
  time.  The support ticket that `syncOrderRefundState` updates is in
  `SupportTickets`, with the engine as one request and one answer.
* The limit on active sessions per customer: the documentation calls it
  non-strict, and it is a count before the transaction.
* Edits of slots and coupons while customers buy: planned; the ledgers assume
  `Capacity` and `UsageLimit` fixed.  Product edits are in `CatalogStock`, apart
  from `Checkout`, whose quantities they would multiply.
* One slot and one coupon: purchases that use different ones do not interact,
  and a purchase uses at most one of each.
* In `OtpLogin`: the request rate limit, platforms, the lifetime of tokens, and
  staff logins other than the administrator's (`AdminSeat`); the owner's
  authenticator.
* In `Checkout`: prices, addresses, consent, messages and audit, data its
  properties do not tell apart.  Their refusals are the nondeterminism of
  `Refuse`.
* In `SupportTickets`: evidence, messages and the pickup code.  In the tax
  modules: reports, classifications, exports and the drawing of documents.  In
  the catalogue: categories, search, listing and tax profiles.  Editing of the
  store's settings.
* MongoDB transactions and single-document updates are taken to be atomic, and
  unique indexes to be enforced.
* In `ImageMigration`: two runs of the script at once, and staff who delete an
  upload (`DELETE /catalog/uploads/images`), which may be one a field shows.
* Reports, admin views, notifications, realtime, server wiring and the other
  one-off scripts keep no state another component decides on, or run while
  nothing else does.  The legacy `org.*.js` files are not
  imported.
