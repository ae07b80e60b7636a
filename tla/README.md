# GoMarketi: a TLA+ specification

GoMarketi is a marketplace back end: independent Go services behind a gateway, a
TypeScript admin API, one PostgreSQL server, Redis for live events and Paystack for
money.  This directory specifies the parts of it that decide something: the money, from
a buyer's bargain and checkout to the vendor's payout and withdrawal; accounts and
sessions; what plans, profiles and store settings allow; and what lists, searches and
figures show meanwhile.  TLC checks them on small instances and TLAPS proves their main
safety properties for every instance.

## 1. The system

| Component | State | Operations | Talks to |
|---|---|---|---|
| Checkout (`orders/internal/service/orders.go`, `checkout.go`) | `orders` rows | `PlaceOrder`, `PlaceCheckout`, `ConfirmPayment` and its notices, hourly abandoned sweep | storefront and catalogue databases (prices, fees), Paystack verify, SSE broker, e-mail |
| Webhooks (`webhooks.go`) | none of its own | `charge.success`: confirms the reference, or credits a dedicated account deposit | `ConfirmPayment`, wallet |
| Fulfilment (`orders.go`) | status, `dispatched_at` | `UpdateOrderStatus` by the vendor | `cancelAndRefund` |
| Hub (`admin-api/src/batches/repo.ts`) | the same rows, written directly | `hubIntake`, `dispatchBatch` | internal no-show call to the orders service |
| Escrow (`orders.go`, `repo.ts`) | `wallet_transactions` credits | `ConfirmDelivery`, hourly `releaseOverdueEscrow`, admin `releaseEscrow` | order rows |
| Disputes and refunds (`orders.go`, `paystack.go`, `repo.ts`) | `dispute_status`, `refund_reference` | `ReportMissing`, `dismissDispute`, `DisputeRefund`, `cancelAndRefund` | Paystack refund API |
| Wallet (`orders.go`) | `wallet_transactions` | `GetWallet`, `Withdraw`, deposits | Paystack webhook |
| Figures (`orders.go`, `query.go`, `admin-api`) | none | order views, vendor lists, abandoned carts, analytics, a batch | order rows |
| Price offers (`offers.go`) | `price_offers` | buyer and vendor moves, expiry, redemption | checkout prices |
| Live events (`sse/broker.go`) | connected clients, a list per store in Redis | publish, subscribe, replay | browsers |
| Auth (`auth/internal/service/auth.go`) | accounts, one-time codes, refresh-token families | registration, login, OTP, password reset, rotation, logout | gateway |
| Identity (`identity/internal/service/`) | users, buyer and vendor profiles, plans, account numbers | onboarding, verification, addresses, banks, plan selection, provisioning sweep | Paystack, storefront |
| Catalogue (`catalogue/internal/service/`) | products, collections | adding within the plan, collections and their lists | plan limits |
| Storefront (`storefront/internal/service/`) | stores, delivery options, staff | creation, settings, search, provisioning request | identity |
| Newsletter, payment methods (`orders/internal/service/`) | subscribers, campaigns, gateways of a store | subscribe, send, enable | e-mail |
| Gateway (`gateway/cmd/server/main.go`) | a cache of users' stores | proxy, the store of a user | all |
| Startup (`*/cmd/server/main.go`, `*/db/migrate.go`, `scripts/migrate`) | the schema, tables of versions | connect, migrate, start loops, listen, drain, restart | every service's tables |
| Admin directory, shared packages, scripts | none or one row | lists by pages, plan limits, payment audit | all |

**Where it is hard.**  Order rows are written by five kinds of request and two
background loops in two processes.  Only `ConfirmDelivery` locks the row.  The others
read, decide, sometimes wait up to 15 seconds for Paystack, and then write with
conditions that test some of what they read and not the rest.  Paystack's webhook
repeats what the browser already did, an answer can be lost after Paystack acted, the
sweep commits one order in two statements, and a checkout request can be repeated
under the payment reference the client chose.

The other services have the same shape in small: a handler reads a row, a count or a
list, decides, and writes in a later statement that does not test what it read, while
the gateway sends a request once more when its connection breaks.  Goroutines nobody
waits for (provisioning, mailing, notices) are lost with their process; errors of
statements on the side are dropped; a list is cut into pages by statements of their own.
PROJECT.json lists each of these hazards at its line, with the property that covers it.

## 2. The modules

The order system:

| Module | Models | State and actions |
|---|---|---|
| `OrderTables` | the rows | `orders[o]` has the columns handlers test (status, `paid_at`, `hub_received_at`, `dispatched_at`, `delivery_confirmed_at`, `dispute_status`, `refund_reference`); `wallet[o]` the order's credit; `charged`, `refunds` Paystack's books; `task[w]` the handler in flight on worker `w`; `overridden` is history |
| `Checkout` | placing and confirming | `PlaceOrder`, `PlaceCheckout`, `BuyerPays`, `ConfirmRead` / `ConfirmCommit` / `ConfirmRefused`, `MarkAbandonedOrders` |
| `Notices` | who is told of a payment | `telling[w]` a committed confirmation that has told nobody, `receipts[o]`; `CommitThenTell`, `NotifyPaidOrders`, `TellingFails` |
| `Settlement` | abstract: one charge, settled at most once and whole | `Charge`, `Settle` |
| `Refunds` | disputes, `cancelAndRefund`, Paystack's refund | `ReportMissingRead/Write`, `DisputeRefundRead/Tx`, `DismissDispute`, `CancelRead/Tx`, `RefundAccepted/Rejected/AnswerLost` |
| `Fulfilment` | vendor and hub | `UpdateOrderStatusRead/Write`, `HubIntake`, `DispatchRead/Ship/NoShow` |
| `Escrow` | payouts | `ConfirmDelivery`, `ReleaseEscrow`, `WindowPasses`, `SweepSelect/MarkDelivered/ReleaseWallet` |
| `OrderSystem` | all of it interleaved | `SystemNext`, `HubSpec`, `PaidLiveSpec`, and the properties |
| `Figures` | what the rows are read as | `OrderView`, `GetPublicOrder`, `GetMyOrders`, `GetBatch`, `ListedByVendor`, `Abandoned`, `GetVendorSales`, `GetAnalyticsOverview`, `GetRevenueTrend`, `GetTopProducts`, `GetCustomer` are operators on the state `OrderSystem` is in |
| `Haggle` | abstract: a bargain in turns, struck at one price, marked redeemed once | `Bid`, `Ask`, `Agree`, `WalkAway`, `TimeOut`, `Redeem` |
| `Offers` | price offers, from the opening to the paid order | `offers[n]` is the `price_offers` row, `products[p]` the columns it depends on, `deals[o]` an order of one line bought at a deal, `task[w]` what a request has read; `CreateOfferRead/Insert`, `BuyerMove`, `VendorMove`, `UpdateProduct`, `SetPublished`, `WindowPasses`, `ExpireOffers`, `PriceDeal` / `InsertOrder`, `ConfirmPaid` |

Money that arrives by transfer and leaves by withdrawal:

| Module | Models | State and actions |
|---|---|---|
| `VirtualAccounts` | dedicated account numbers | `profile[v]` the vendor's Paystack columns, `sweep` the sweep's list, `job[w]` a provisioning goroutine between two of its calls, `told[v]` the numbers shown; `TriggerDVAProvisioning`, `BackfillMissingDVAs`, `CreateCustomer`, `CreateDedicatedAccount`, `UpdateVendorPaystackAccount`, `Restart` |
| `Wallet` | a store's ledger | `ledger[r]` the row with a unique reference, `teller[w]` a withdrawal between its read and its insert |
| `VendorMoney` | both, joined by bank transfers | `deposit[d]` and its webhook: `Transfer`, `HandlePaystackWebhook`, `WebhookFails` |

Sessions and events, which `Sessions` puts side by side:

| Module | Models | State and actions |
|---|---|---|
| `Accounts` | auth | `users`, `identities`, `codes`, `tokens` are rows, `request[w]` what a request has read; `Register`, `LoginRead/Commit`, `AuthGoogle`, `AuthApple`, `RequestOTP`, `VerifyOTPRead/Commit`, `ResetPasswordRead/Commit`, `RefreshRead/Commit`, `RefreshReuse`, `Logout` |
| `LiveEvents` | the broker | `publisher[e]` how far `Publish` is, `history` the Redis list, `wire`, `handing`, `replay`, `channel` the way to one client; `Subscribe`, `ReadHistory`, `ReplayNext`, `Hand`, `Leave`, and the panics that end the process |

Parts that share no rows, which `Shop` puts side by side (`part` says which one a
behaviour is of; the others stay as they began):

| Module | Models | State and actions |
|---|---|---|
| `Requests` | the goroutines all of them run on | |
| `Onboarding` | a vendor's steps, three verification attempts a day | `step`, `kyc`, `attempts`, `recent`; business form and KYC, the counter's three statements each its own |
| `Plans` | plan limits on products, members and settings | `ForStoreID`, `CountRows`, `InsertRow`; `SelectPlan`, `InviteStaff`, `SaveSetting` |
| `Profile` | saved addresses with a default, banks with a primary | one read and one write for every edit |
| `UserProfile` | the user's own row, patched | `GetUserByID`, `UpdateMe` |
| `Gateway` | the store of a user: token claim, cache, lookup | `Pass`, `Miss`, `FetchFromStorefront`, `KeepAnswer`, `Expire`, `RestartGateway` |
| `Newsletter` | a campaign and its mailing | `CheckCampaign`, `LoadSubscribers`, `MarkSending`, `SendCampaignMail`, `MarkSent`, `RestartOrders` |
| `Collections` | a collection and its ordered list, replaced at READ COMMITTED | `DeleteStarts` / `DeleteEnds` / `InsertNext` / `Commit`, `PublishCollection`, `ListCollections` |
| `Search` | the store search, page by page | `SearchStores` works out its place afresh; stores open, change and close between pages |
| `Listings` | sixteen lists cut by LIMIT and OFFSET, and how each tells the total | `CountMatches`, `ReadPage`, rows come, leave and move |
| `StoreSettings` | delivery options, an order's fee, payment gateways | `ReadPosition`, `CreateDeliveryOption`, `AskForOrder`, `computeDeliveryFeeKobo`, `SeedGateway`, `UpsertPaymentGateway` |
| `Startup` | the processes coming up | `proc[p]` how far process `p` is in its `run()`, `loops`, `applied` and `recorded` files of the schema; `Launch`, `Prepare`, `Connect`, `PingFails`, `CheckFile`, `ApplyFile`, `RecordFile`, `ApplyInOne`, `StartLoops`, `Listen`, `Signal`, `Drained`, `Stop` |

`MCCheckout`, `MCOrderSystem`, `MCOffers`, `MCVendorMoney`, `MCAccounts` and `MCShop` are
the instances for TLC.  The theorems are in `OrderSystemProofs`, `OffersProofs`,
`NoticesProofs`, `VendorMoneyProofs`, `SessionsProofs`, `PlansProofs` (with onboarding) and
`ShopProofs` (profile, user profile, newsletter, store settings, startup, lists,
collections, search, gateway, and `Shop` that composes them); `Sums` holds the lemmas on
sums over finite sets that the proofs about money rest on.

A handler is one action when it is one SQL transaction that reads under the lock it
writes under; otherwise it is split at every point where something it read is used
later, and at every commit.  `SELECT ... WHERE` and `UPDATE ... WHERE` are translated
clause by clause: a write tests exactly what its `WHERE` tests.  `Fail`, `CancelFails`,
`EditFails` and their like are a statement error, a cancelled request or a crash at any
such point; nothing outside the database survives, and no handler resumes.  Where the
code drops an error and goes on, the failing statement is an outcome of the same action.

Abstracted: times are the facts handlers ask (`dispatched` is no, recent or overdue; a
token or code is expired or not; an attempt is recent or not).  Addresses, items, texts
and logging are left out.  An order's price is two constants, items and delivery fee.
`BuyerPays` charges what the response to one checkout request added up to; the page that
opens Paystack's form is not in this repository.

`Offers` stands beside the order system and shares no variable with it: an order there
has only the columns a deal meets (unpaid or paid, which deal, at what price), and
`ConfirmPaid` is the part of `ConfirmPayment`'s transaction that redeems.  A move is
one action, because its transaction holds the row from its first read.  Opening an
offer and pricing an order are two, as both decide on what they read before their
insert.  A window is a flag that time raises; it lasts 48 hours and the daily count 24,
so a window passes only after the day of creation.  Quantities, messages, the thread of
events and e-mail are left out; a product edit that omits a column is one that sends
the value there is.  `Fail` is also an insert that finds its key taken.

`Wallet` keeps its own rows for orders: `CreditVendor`, `Release`, `VoidHeld` and
`VoidDisputed` are the four updates that the order handlers make, free to come in any
order that their conditions allow, so that the wallet does not depend on which handler
makes them.

Variables marked `history` in the modules are not in the program.  They record the
named causes a property makes an exception for: a request overtaken between its read
and its write, a mark that was lost, a row that moved between two pages.  No guard reads
them, but for the bounds on exploration.

Mutants (`\* Mutant:` in the modules) are wrong variants of an operator, each of
which breaks the property PROJECT.json pairs it with.

## 3. What the runs show

| Run | Instance | Shows |
|---|---|---|
| `MCCheckout` | a lone order asked for twice and a two-store basket that costs as much as both, all under one reference; two workers | credits never exceed the charge, the fee goes with an order paid alone and, where requests are alike, to the deliverer, confirmations implement `Settlement`, every charge ends with its orders paid, and whoever is paid is told |
| `MCSystemLone` | one order, two workers, everything and every fault | the escrow properties; a paid order is in its vendor's and buyer's lists and in the figures, and neither abandonment nor a refund shows where it should not |
| `MCHub` | a paid two-store basket, two workers of vendors and hub | a shared basket ships only through the hub; a recorded refund was made |
| `MCSystemLive` | a paid order, two workers, no faults | overdue orders are released; a delivered order's credit is not left held |
| `MCOffers` | one negotiation, two orders, two workers, a floor that comes and goes | an order carries the price struck, a paid deal is redeemed although it expired, nothing is struck at the list price, offers implement `Haggle`, and every negotiation ends |
| `MCVendorMoney` | a vendor, two goroutines that provision, a deposit, two withdrawals | a deposit whose webhook was handled is credited once, in full and to the right store; the wallet covers what leaves it but for named overlaps; everyone who can be is provisioned in the end |
| `MCAccounts` | an account, a code, three tokens, two workers; beside them a client and three events | what a logout, a reset or a reused token meant to end is over; a code's guesses and uses are limited; a client who reconnects loses no event between replay and stream |
| `MCShop` | two requests at a time in every part | how far overlapping requests, dropped errors, restarts and stale answers let each part drift, and no further |
| `MCVendorCancel`, `MCPickupEscrow`, `MCDoubleRefund`, `MCReceipts` | one order; two for the last | disagreements between a comment and the code, below |

*Bounds.*  Two workers are every pair of handlers in a race; a third adds only
interleavings of what two already do, as no handler reads another's memory.  One order
carries every property about a single row and its credit; properties of a basket need
two stores, and a repeated request needs a second order under the same reference, so that
a confirmation can see one or both.  The basket of `MCCheckout` costs what the lone order
and its repetition do, so that a charge for it may also pay for those two, two orders of
one store.  With one order the deliverer
never changes and no basket spans stores: those parts of `FiguresHold` are proved, for any
baskets, and not exercised in `MCSystemLone`.  `refunds` is limited by what Paystack charged.

`MCOffers` has one negotiation: rows meet only in the unique index and the daily count,
which no property reads, and the theorems cover any number.  Five amounts are the
fewest that allow a bid, a counter, a comeback and a second counter, all below the
list price; `MaxBuyerOffers` is 2 (3 in the code), so that the cap is reached.  Two
orders are needed to buy one deal twice, two workers to have both priced at once.

`MCVendorMoney` has one vendor, whom the sweep and a store creation provision at once;
two serials let Paystack open two accounts for them.  Vendors meet nowhere but in the
lookup by customer code, and the theorem covers any number.  `MCAccounts` has three
tokens, enough for a login, its rotation and a rotation that raced it; `MaxOTPAttempts`
is 2 (5 in the code), which two overlapping guesses already pass.  `MaxEvent` 3 and
`HistLen` 2 let the list drop an event, `Buffer` 1 lets a slow client miss one.

`MCShop`: `MaxBurst` 4 attempts are a round of three and one by a request that was let in
before the third was recorded; `MaxRows` 4 is past every limit of `MCLimit`; two addresses, banks and readers let
one be marked and another be next; `MaxAgain` 2 sends come through by accident.  Three
lists, one with a repeated product, cover two saves that overlap in rows and in none.
Three stores and pages of one, two or three let a store slip between two pages; three
queries and three kinds of store reach every tier of the search.  Lists begin with up to
`FirstEntries` 3 rows, grow to `MaxEntries` 4, and see `MaxChange` 1 departure or move.
Three delivery options (`OnSale`: orders are placed with two) and `MaxPosition` 2 let
positions collide; two gateways let the dashboard seed one while the vendor sets the
other.  `Field` and `Value` have two members each, for two patches that meet in a column
or do not.  At start two processes suffice for every race over a file: two orders
services, one beside the storefront whose table its files read, the tool twice; each of
those three services has a file, two of them one that cannot be repeated as well, and
`MaxStops` 1 error, kill or signal falls between any two steps.

`CHECK_DEADLOCK FALSE` stands where the system may stop: every order is in its final
state with its money settled, or a bounded part has used up its tokens, events, sends or
rows.

*Fairness.*  Each handler in flight is weakly fair: nothing in one waits for another.
`WindowPasses` is weakly fair, as time passes.  Starting the sweep or the confirmation
a webhook brings is strongly fair, since the code gives each a goroutine and only the
model makes it wait for a free worker (`SystemFairness`, `NoticesFairness`).  Liveness is
checked without faults before a commit, and `DeliveredPaysOut` needs that (see below).
In `MCOffers` time passes and the expiry loop, a ticker that lives as long as the
service, gets its statement through in the end; no buyer, vendor or payment is assumed
to come.  `VirtualAccountsFairness` lets the hourly sweep run and reach each of its
vendors, and its calls succeed if they are tried for ever; the goroutine a store creation
starts is assumed nothing of.  `GatewayFairness` has the user keep asking, the storefront
answer now and then, and entries grow old; the vendor need do nothing.
`StartupFairness` has each process go on with its `run()` and Docker start it again
(`restart: unless-stopped`); errors, kills and signals end at some time.

### Disagreements the runs exhibit

* **`MCVendorCancel`.**  `UpdateOrderStatus` writes `cancelled` and only then calls
  `cancelAndRefund`, whose replay guard sees a cancelled order and returns.  No refund
  is made and the credit stays pending, where an admin's override still releases it.
* **`MCPickupEscrow`.**  Migration 0015 promises that an uncollected order's escrow
  clock runs out; `releaseOverdueEscrow` selects only `shipped`.
* **`MCDoubleRefund`.**  Both refund paths test, call Paystack and write with no lock:
  two requests, or a retry after a lost answer, refund twice when the reference has
  kobo left (always so when the charge covers more than one order).
* **`MCReceipts`.**  `ConfirmPayment` reads its reference once more after the commit and
  tells of every order it finds.  An order that a repeated request placed meanwhile gets
  a receipt and an alert unpaid, which `notifyPaidOrders`'s comment rules out.

### Known limits seen while modelling

They were found with the same modules and are why some properties are checked on a
smaller instance than they might be.

* A checkout request repeated under its reference makes the orders on it add up to
  more than the charge, and `ConfirmPayment` then refuses for good.  `ChargeConfirms`
  therefore excepts the references to which a repeated request added an order.
* Of two confirmations at once both may tell the same people, and one that fails after
  its commit tells nobody, as the next finds nothing unpaid.
* A vendor may set an order that awaits payment to `confirmed` or `cancelled`; the
  payment that follows finds nothing to confirm.  `ChargeConfirms` is checked without
  vendor requests.
* `ConfirmPayment` decides who earns the fee by counting the orders it marks, the
  `fulfilment` column by comparing stores, though its comment calls that "the same rule"
  (`orders.go:1286-1288`).  A checkout request may name a store twice: both orders are the
  vendor's to deliver, and neither earns its fee.  And nothing obliges a request that comes
  again under a reference to ask for the same: one for another store makes GoMarketi the
  deliverer of an order whose vendor was credited the fee.  `FeeFollowsDeliverer` therefore
  speaks of references whose requests are alike (`Alike`: each names a store once, and all
  of them the same stores and the same money); `CreditsCovered`, `FeeForLoneOrder` and the
  rest of the module hold of any requests.
* A dispute opened after the sweep selected the order does not stop its release.
* An order dispatched while its no-show refund waits for Paystack is cancelled after
  its dispatch.
* When the sweep's second statement fails, the order is delivered and its credit held,
  and no later sweep selects it.  `DeliveredPaysOut` assumes no statement fails.
* A deal is not reserved when an order is placed at its price: two unpaid orders can
  both be paid at one deal, which then names the one paid first.  `ImplementsHaggle` says
  that a deal is marked redeemed once, not that one order is paid at it.
* The daily limit on offers is counted outside the transaction that inserts, so two
  requests at once can exceed it.
* The unique index counts an open offer past its window until the sweep marks it: a
  buyer is refused a new offer for up to the sweep's ten minutes.
* The orders service's webhook handler answers 200 whatever became of the event, so one
  the database refused is `dropped` and not repeated.
* `Withdraw` reads the balance and inserts the debit in two statements; two at once, or
  one and the refund of a released order, take the balance below zero.  `Solvent` allows
  exactly these.
* A reset revokes the sessions there are: a login that compared the old password before
  and commits after keeps its own, though the comment says "All existing sessions" are
  revoked (`auth.go:234`).  A Google account whose address changed gets no row of its own,
  and neither rotation nor a one-time code looks at `is_active`.
* The errors of marking a campaign `sending` or `sent` are dropped: a campaign may stay `sending` for
  ever after a crash, and the status `failed` its comment speaks of is never written.
* Two saves of one collection at once leave a mixture of both lists: a delete that waited
  does not see what the other has inserted, nor rows it deleted and inserted again.  The
  error of saving a list is not looked at.  Nor is that of reading one: `collectionProductIDs`
  answers with the rows it got, which may be none, and `OneListAtATime` says of those that
  they are of one request and in its order, not that they are all.
* `InviteStaff` (storefront) tests no limit, where identity's form for the same members
  does: a vendor on the free plan can have any number of them.  `PlanLimitsHold` bounds
  products and the members added by identity's form.  Nothing ends a subscription, and one payment reference serves more than one.
* A resubmitted verification overwrites `verified` with `pending`.  `advanceStep` does not
  know `plan_selected`.
* `DeleteAddress`'s comment promises the next address as the default (`identity.go:255-256`);
  none is chosen.  `DefaultIsFlagged` says at most one address is flagged, the one the
  profile names, and none when it names none.
  `DeleteVendorBank` takes a count that failed for one that allows it.
* `UpdateMe` writes every column it read: a patch overtaken by another undoes it, and may
  leave a complete profile marked incomplete.
* Search: a category is required in the vendor tier as well, inactive markets match, each
  page works out its tier afresh, and ties in distance or rank have no order.
* The broker: a send to a client that has left panics, a slow client's events are dropped,
  and an event stamped in the same millisecond as the last one seen is not replayed.
  Replay and live stream run side by side, though the comment says that missed events are
  replayed "before the live stream starts" (`broker.go:154-155`).  A client who has read a
  later event live and leaves before its replay is through asks next time for what is newer
  than that event only; `NothingLostBetween` counts those passed over as accounted for
  (`Missed`).
* Nothing calls the gateway cache's `invalidate`: a store becomes visible when the entry
  grows old.
* `GetTopProducts` counts unpaid orders though the comment above its helpers asks for paid
  ones.  `ListCustomers` groups by id and e-mail but counts ids; `listBatches` groups by
  reference, name and e-mail but counts references.  The admin's `getCustomer` looks for
  orders under the user's id, where storefront orders bear one derived from store and
  e-mail.
* `TrackVisit` speaks of a window of thirty minutes that no unique index enforces.
* `computeDeliveryFeeKobo`'s comment describes a threshold, a flat fee and a check that
  digital orders skip, none of which the code has; a basket of digital items is charged,
  and one store's option to collect marks the orders of every store of the basket.
* The public list of gateways falls back to Paystack when a vendor has disabled all.
* An order moved by its vendor before it is paid is no longer what `vendorMaySet`'s
  comment takes it for ("orders that were paid for").
* Applying a migration and recording it are two statements: a service stopped between the
  two never starts again when the file cannot be applied over itself (four of the orders
  service's, two of the storefront's), and repeats it otherwise.  `PlatformComesUp` excepts
  the first.  The error of the lookup that skips a file is dropped (`migrate.go:42`).
* `claimPaymentReference` and the package `money` are used by their tests alone.

## 4. What is proved

Each table's theorems hold for any finite sets and any values that satisfy the named
assumptions of the module.

`OrderSystemProofs`, from `OrderAssumption` and `BasketAssumption` (an order belongs to one
request, which puts its orders under one reference):

| Theorem | Of `SystemSpec` |
|---|---|
| `TypeCorrect` | `[]TypeOK` |
| `EscrowSound` | `[]EscrowInv` |
| `CreditedExactlyWhenPaid` | `[]CreditIffPaid` |
| `NothingReleasedUndispatched` | `[]ReleasedOnlyAfterDispatch` |
| `RefundedDisputeVoid` | `[]DisputeRefundVoidsCredit` |
| `RecordedRefundsIssued` | `[]RefundRecordedOnlyIfIssued` |
| `CreditsMoveForward` | `CreditMovesForward` |
| `BasketsLeaveThroughHub` | `[]BasketShipsThroughHub` |
| `PaidBasketsLeaveThroughHub` | `HubSpec`: `[]BasketShipsThroughHub` |
| `FiguresDoHold` | `FiguresHold` |

`OffersProofs`, from `OfferAssumption` and `ListingAssumption`:

| Theorem | Of `OffersSpec` |
|---|---|
| `DealsSound` | `[](OffersTypeOK /\ DealInv)` |
| `DealsRedeemedWhenPaid` | `[]RedeemedWhenPaid` |
| `OrdersPricedAsAgreed` | `[]PricedAsAgreed` |
| `BargainsBelowList` | `[]BargainBelowList` |
| `OffersImplementHaggle` | `ImplementsHaggle` |

The others:

| Module | Theorem | Of |
|---|---|---|
| `NoticesProofs` | `CheckoutInvariant` | `NoticesSpec`: `[]NoticesInv` |
| | `CreditsMatchCharges` | `[]CreditsAsCharged` |
| | `EveryPaymentTold` | `[]PaidAreTold` |
| | `ConfirmationsSettle` | `ImplementsSettlement` |
| `VendorMoneyProofs` | `MoneyInvariant`, `WalletInvariant` | `MoneySpec`: `[]IInv`, `[](IInv /\ WalletInv)` |
| | `DepositsDoReachVendor` | `[]DepositsReachVendor` |
| | `StoresAreSolvent` | `[]Solvent` |
| | `MoneyTypesHold` | `[]MoneyTypeOK` |
| `SessionsProofs` | `AccountsInvariant`, `AccountTypes` | `AccountsSpec`: `[]AccountsInv`, `[]AccountsTypeOK` |
| | `SessionsDoEnd` | `[]SessionsEnd` |
| | `CodesAreGuarded` | `[]CodesGuarded` |
| | `SessionsInvariant`, `SessionsTypesHold` | `SessionsSpec`: the two invariants, `[]SessionsTypeOK` |
| | `NothingIsLostBetween` | `[]NothingLostBetween` |
| `PlansProofs` | `PlansInvariant` | `PlansSpec`: `[]PlansInv` |
| | `PlansAreKept` | `[]PlanLimitsHold` |
| | `AttemptsAreLimited` | `[]AttemptsLimited` |
| | `OnboardingGoesForward` | `StepsGoForward` |
| `ShopProofs` | `ProfileInvariant` | `ProfileSpec`: `[]ProfileInv` |
| | `ListsKeepTheirMark` | `[]OneIsMarked` |
| | `PatchesAreKept` | `UserProfileSpec`: `[]PatchKept` |
| | `NewsletterInvariant` | `NewsletterSpec`: `[]NewsletterInv` |
| | `CampaignsMailedOnce` | `[]MailedOnce` |
| | `SettingsInvariant` | `StoreSettingsSpec`: `[]SettingsInv` |
| | `SettingsDoStand` | `[]SettingsStand` |
| | `StartupInvariant` | `StartupSpec`: `[]StartupInv` |
| | `SchemaDoesStand` | `[]SchemaStands` |
| | `ShopInvariant` | `ShopSpec`: `[]ShopInv` |
| | `ShopTypesHold` | `[]ShopTypeOK` |
| | `ListsDoStand` | `[]ListsStand` |
| | `PartsKeepTheirWord` | `PlanLimitsHold`, `AttemptsLimited`, `OneIsMarked`, `PatchKept`, `MailedOnce`, `SettingsStand` and `SchemaStands`, always |
| | `ShopGoesForward` | `StepsGoForward` |

What baskets, charges and balances add up to is proved, not assumed: `Sums` shows that one
more element adds its value to a sum over a finite set.  No theorem of the library that
takes a predicate can be used, so its induction is over a set of numbers that contains 0
and every successor (`NaturalsFromZero`), and the recursion a fold unfolds to is shown to
have a solution that does not depend on the order of choice.

The safety properties are not inductive: the sweep's updates are safe only because
what it selected *stays* dispatched, and `DisputeRefundTx` only because an order that
was disputed has left checkout, so that no confirmation can credit it again.
`EscrowInv` adds these facts on the rows (`BlankUntilPlaced`, `ShippedIsDispatched`,
`DisputedLeftCheckout`) and on handlers in flight (`HandlersSound`).  The proof has a
lemma per action, each showing that the action preserves every conjunct; most rest on
one lemma for actions that leave rows and credits alone.

`BasketShipsThroughHub` needs `HubInv`: a basket is placed whole (`BasketsWhole`), so a
vendor whose request has read that the vendor delivers read it of an order that is alone
and stays so, and a dispatch in flight holds only orders the hub had received
(`TaskAtHub`).

`FiguresHold` compares what is computed of the rows before and after a step.  A step either
places a basket or moves every row forward (`RowForward`), so the sets that are listed only
grow, and `Sums` turns that into sums.  Rows are never deleted, so a second store on a
reference stays one and what GoMarketi delivers it goes on delivering (`DelivererStays`);
a repeated request for another store can make GoMarketi the deliverer later.  The run has
one order; the theorem has any baskets.

Checkout: `NoticesInv` follows a confirmation from its read to its telling.  What it read
is on the reference and whole baskets (`ReadsInv`); two reads under one reference are nested, since a
repeated request only adds orders (`ReadsNested`); and a charge is what one basket costs, so
that of two nested sets only one adds up to it.  Hence all confirmations that go through
settle one set, which is the refinement of `Settlement`, and the sums of its items and fees
are the charge.  The fee follows the number of orders settled (`FeesFollowPayment`); where
requests are alike, what was settled is one basket, and so the stores on the reference are
that basket's (`SettledIsBasket`).

For offers, `PricedAsAgreed` is preserved only because a status that ends a bargain is
never left and because a request that has priced an order, but not inserted it, still
holds the price the row names: `DealInv` says both, with `RowSound`, which ties the
columns of a row to its status (a deal has an agreed price, an open offer has none, a
counter is above the bid).  Every move is first shown to be one of six ways to replace
one row (`MoveShape`), and the type, the invariant and the refinement are then proved
of `Move`.  The refinement maps a row to whose turn it is (`TurnOf`), counts a window
that passed as the end of the bargain, and so shows that neither the sweep nor an edit
of the product is visible.

Accounts: a family is named by its first token, of the same account (`FamiliesSound`), and
`EndInv` says of tokens not revoked what `SessionsEnd` says of live ones, without the
clock.  A token issued by a request that was overtaken says so in a history column, and
its family is excepted.  A code's attempts leave room for each request that has read it
and not counted its guess, and its uses for each that may still use it (`CodesInv`),
hence the bounds by the workers.

Vendor money: every number shown to a vendor, on file or under way in a goroutine is a
number of that vendor's own Paystack customer, and a profile with a number has kept that
customer's code (`ToldInv`, `FilesInv`, `JobsInv`).  So a deposit to a number of old still
finds its vendor, and the ledger's unique reference makes the repeated webhook harmless.  `Solvent` moves
by what one row of the ledger is worth, which `Sums` makes exact.  Beyond it the invariant
says that a released credit is marked so (`ReleasedInv`) and that a withdrawal about to be
booked was covered by the balance it read (`DecidedInv`).

Live events: for a client who is connected, an event that was published is seen or taken by a
named cause, or is on the wire, in its channel, in the hands of `Publish` or in the replay
it asked for (`LiveInv`).

Plans: products and entries that have passed the count, taken together, stay within the
best limit ever held plus one less than the requests there are; the row alone does not.
What `InviteStaff` adds is outside the bound.
Onboarding: within a day the attempts are at most the row's count, capped at three, and
three for each request let in on another count; when nothing is recent they are all of
the latter kind.

Profile: a request nobody overtook still knows the list it read, so its write leaves at
most one address and exactly one account marked; that is all the invariant adds.  User profile: what a request in flight has
read of a column is what is wanted of it unless another wrote it since or it had been
undone, and terms it has read stand.  Newsletter: copies a reader was sent and lists with
the reader still to mail are together at most one more than the sends that came through
by accident, and at most as many while a send that counts is still to come.  Store
settings: an order being placed has been offered what its option is now, and one that is
priced carries an offer that was made to it (`QuotesSound`), a request that names a position names one behind every option
it saw (`PositionsSound`), and a gateway the vendor set is as it was set (`SettingsInv`).

Startup: a process has applied every file it is past, and none is applied before the files
it reads; whoever serves came up after its schema was whole; and where two processes stand
at one file, that file has been excused (`StartupInv`).

Lists: the rows that stand where the reader has been, and were not shown to him, are no
more than the rows that left or moved (`SkippedFew`), and the total he was told falls short
only by rows that came late and by twins (rows counted as one).  Collections: a save that
nobody overlapped has found every row there was and puts in each product where it is first
mentioned (`SaveSound`), and what a reader is shown of it is an order of the rows that were
read (`OrdersAreWhole`).  Search: what may stand where the shopper has been was shown or has
slipped past by a change of a store or a tie (`AheadAccounted`).  Gateway: an answer that
names a store was given by a storefront that had it.

The composition: `ShopInv` is the invariant of all the parts.  Every step of `Shop` is a
step of one part while the others stutter, but for vendors, users, pages and settings,
whose parts share an action's choice; `VendorMoves`, `UserMoves`, `PageMoves` and
`SettingsMoves` show each of these to keep every part's invariant.

Every safety and action property that a passing run checks is a theorem.  Only
model-checked is liveness (`ChargeConfirms`, `OverdueReleased`, `DeliveredPaysOut`,
`NegotiationEnds`, `ProvisionedInTheEnd`, `StoreIsFound`, `PlatformComesUp`), which needs
fairness and `ENABLED` and is out of the prover's reach.

## 5. Not modelled, and the plan

Left out, and why:

* Rendering and formatting: e-mails, invoices, order numbers, money, slugs, the DTOs.
  They change no state that anything decides on.
* HTTP handlers and middleware, JWT parsing, CORS, routing and the proxy: they carry
  requests; the retry that makes one request two is in `Requests` and `Accounts`.
* Plain rows that one statement writes and nothing decides on: categories, an address's
  text, a staff member's role, banners and views, visits, error events and their queue.
* Uploads and object storage, outside the database and referred to by URL alone.
* The ranking inside a search and `stripMatchedPhrase`, which are about words.  `Search`
  keeps the tiers, the filters and the pages.
* Redis with more than one replica of the broker, and Paystack's test mode.
* Seed scripts, Terraform, Dockerfiles and the text of migrations, but for the constraints
  the modules state; `Startup` models how they are applied.
* Four hazards have no property because the code lets them happen (a dispute between the
  sweep's select and its update; a dispatch while a no-show refund is under way; a vendor
  moving an unpaid order; the daily count of offers).  They are described above.

What is left to do, in this order: a vendor who withdraws while an order system's handlers
release and void, with `Wallet` in place of `OrderTables`' credits; the order system with
two references, so that a batch and a lone order meet in the sweep.
