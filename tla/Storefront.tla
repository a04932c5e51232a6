----------------------------- MODULE Storefront -----------------------------
(***************************************************************************)
(* From a submitted cart to a paid order: place_order behind the web form     *)
(* and the mobile API, the payment page, and the three places that confirm a *)
(* payment and send the confirmation e-mail, while staff change prices and   *)
(* fees and processes die.                                                  *)
(*                                                                         *)
(* Stock is StockLedger's and Fulfillment's: a reserve here succeeds or not. *)
(* The app that submits is MobileApp. Order i is the one that request i made.*)
(***************************************************************************)
EXTENDS Integers, FiniteSets, Functions

CONSTANTS
  Skus, Prices, Fees,
  NoOverride,     \* price_override is NULL
  OpeningPrice, OpeningFee,
  Nobody,         \* no request
  CartsSent,          \* bound: the carts submitted
  Requests,       \* bound: requests of place_order, each by its client
  Confirmers,     \* bound: confirmations in flight at a time
  MaxEdits, MaxFaults  \* bounds

Clients == {"web", "phone"}
Providers == {"paymongo", "simulated"}

ASSUME StorefrontAssumption ==
  /\ IsFiniteSet(Skus) /\ NoOverride \notin Nat
  /\ Prices \subseteq Nat /\ OpeningPrice \in Prices
  /\ Fees \subseteq Nat /\ OpeningFee \in Fees
  /\ CartsSent \subseteq [Skus -> Nat] /\ Nobody \notin Requests
  /\ MaxEdits \in Nat /\ MaxFaults \in Nat

VARIABLES
  basePrice, override, fee,   \* Product, ProductVariant, ShippingZone
  provider,    \* PAYMENT_PROVIDER
  place,       \* place[i]: the call of place_order that serves request i
  order, paymentRow,
  page,        \* page[i]: what the provider's payment page of order i asks for
  charged,     \* charged[i]: what the shopper has paid there
  opened,      \* orders whose payment page their client was sent to
  confirm,     \* confirm[d]: a webhook, success page or confirm request
  mailed,      \* mailed[i]: confirmation e-mails sent
  edits, faults

catalog == <<basePrice, override, fee, edits, provider>>
placing == <<place, order, page>>
paying == <<charged, opened>>
shopVars == <<catalog, placing, paymentRow, paying, confirm, mailed, faults>>

Unpriced == [v \in Skus |-> 0]
EmptyCart == [v \in Skus |-> 0]
NoRequest == [at |-> "free", client |-> "web", lines |-> EmptyCart, unit |-> Unpriced, fee |-> 0]
Unordered == [status |-> "none", lines |-> EmptyCart, unit |-> Unpriced, fee |-> 0, total |-> 0]
NoPayment == [status |-> "none", amount |-> 0]
NoConfirm == [at |-> "idle", of |-> Nobody]
Stages == {"free", "received", "zoned", "priced", "held", "built", "posted", "answered", "refused"}

ShopTypeOK ==
  /\ basePrice \in Prices /\ override \in [Skus -> Prices \cup {NoOverride}] /\ fee \in Fees
  /\ provider \in Providers
  /\ \A i \in Requests :
       /\ place[i].at \in Stages /\ place[i].client \in Clients
       /\ place[i].lines \in CartsSent \cup {EmptyCart}
       /\ order[i].status \in {"none", "pending", "paid", "cancelled"}
       /\ paymentRow[i].status \in {"none", "pending", "paid"}
       /\ paymentRow[i] # NoPayment <=> place[i].at = "answered"
       /\ order[i].status = "paid" <=> paymentRow[i].status = "paid"
       /\ page[i] \in Nat /\ charged[i] \in {0, page[i]} /\ mailed[i] \in Nat
  /\ opened \subseteq {i \in Requests : place[i].at = "answered"}
  /\ confirm \in [Confirmers -> [at : {"idle", "begun", "newly"}, of : opened \cup {Nobody}]]
  /\ edits \in 0..MaxEdits /\ faults \in 0..MaxFaults

ShopInit ==
  /\ basePrice = OpeningPrice /\ override = [v \in Skus |-> NoOverride] /\ fee = OpeningFee
  /\ provider \in Providers
  /\ place = [i \in Requests |-> NoRequest] /\ order = [i \in Requests |-> Unordered]
  /\ paymentRow = [i \in Requests |-> NoPayment]
  /\ page = [i \in Requests |-> 0] /\ charged = [i \in Requests |-> 0] /\ opened = {}
  /\ confirm = [d \in Confirmers |-> NoConfirm] /\ mailed = [i \in Requests |-> 0]
  /\ edits = 0 /\ faults = 0

-----------------------------------------------------------------------------
(* The catalogue *)

Edited == edits < MaxEdits /\ edits' = edits + 1
          /\ UNCHANGED <<provider, placing, paymentRow, paying, confirm, mailed, faults>>

EditProduct(p) == Edited /\ basePrice' = p /\ UNCHANGED <<override, fee>>
EditVariant(v, p) ==
  Edited /\ override' = [override EXCEPT ![v] = p] /\ UNCHANGED <<basePrice, fee>>
EditZone(f) == Edited /\ fee' = f /\ UNCHANGED <<basePrice, override>>

\* ProductVariant.price
Price(v) == IF override[v] # NoOverride THEN override[v] ELSE basePrice

-----------------------------------------------------------------------------
(* place_order: one request, step by step *)

\* The sum of unit * qty over the lines
Subtotal(lines, unit) == SumFunction([v \in Skus |-> lines[v] * unit[v]])

Reached(i, stage) == place[i].at = stage
MoveTo(i, stage) == place' = [place EXCEPT ![i].at = stage]
Placing == UNCHANGED <<catalog, paying, confirm, mailed>>
Healthy == UNCHANGED faults
Fault == faults < MaxFaults /\ faults' = faults + 1

\* parse_items refuses an empty cart.
Orderable(lines) == \E v \in Skus : lines[v] >= 1

\* checkout_page and CheckoutView.post hand the client's cart to place_order.
SubmitCart(i, client, lines) ==
  /\ Reached(i, "free")
  /\ place' = [place EXCEPT ![i] = [NoRequest EXCEPT
       !.at = IF Orderable(lines) THEN "received" ELSE "refused",
       !.client = client, !.lines = lines]]
  /\ UNCHANGED <<order, page, paymentRow>> /\ Placing /\ Healthy

\* ShippingZone.objects.get
ReadZone(i) ==
  /\ Reached(i, "received") /\ place' = [place EXCEPT ![i].at = "zoned", ![i].fee = fee]
  /\ UNCHANGED <<order, page, paymentRow>> /\ Placing /\ Healthy

\* S0: the variants are read once; their prices serve every later step.
PriceCart(i) ==
  /\ Reached(i, "zoned")
  /\ place' = [place EXCEPT ![i].at = "priced", ![i].unit = [v \in Skus |-> Price(v)]]
  /\ UNCHANGED <<order, page, paymentRow>> /\ Placing /\ Healthy

\* S1: InsufficientStock and ReservationUnavailable refuse the request.
ReserveCart(i) ==
  /\ Reached(i, "priced") /\ \E stage \in {"held", "refused"} : MoveTo(i, stage)
  /\ UNCHANGED <<order, page, paymentRow>> /\ Placing /\ Healthy

\* Mutant of Snapshot: the lines read the variants again.
SnapshotNow(i) == [v \in Skus |-> Price(v)]

\* unit_price_snapshot of the order's lines
Snapshot(i) == place[i].unit

\* S2, one transaction (a deadlock victim has rolled back whole and builds again).
CreateOrder(i) ==
  /\ Reached(i, "held") /\ MoveTo(i, "built")
  /\ order' = [order EXCEPT ![i] =
       [status |-> "pending", lines |-> place[i].lines, unit |-> Snapshot(i), fee |-> place[i].fee,
        total |-> Subtotal(place[i].lines, place[i].unit) + place[i].fee]]
  /\ UNCHANGED <<page, paymentRow>> /\ Placing /\ Healthy

\* Out of deadlock retries, or another database fault: the holds are released.
CreateFails(i) ==
  /\ Reached(i, "held") /\ Fault /\ MoveTo(i, "refused")
  /\ UNCHANGED <<order, page, paymentRow>> /\ Placing

\* What PayMongo is told to charge: the lines as stored, and the fee unless 0.
LineItems(i) ==
  Subtotal(order[i].lines, order[i].unit) + (IF order[i].fee > 0 THEN order[i].fee ELSE 0)

\* PayMongoPaymentProvider.create_checkout_session, up to the provider's answer
PostSession(i) ==
  /\ Reached(i, "built") /\ provider = "paymongo" /\ MoveTo(i, "posted")
  /\ page' = [page EXCEPT ![i] = LineItems(i)]
  /\ UNCHANGED <<order, paymentRow>> /\ Placing /\ Healthy

Pending(i) == [paymentRow EXCEPT ![i] = [status |-> "pending", amount |-> order[i].total]]

\* its Payment row
RecordPayment(i) ==
  /\ Reached(i, "posted") /\ MoveTo(i, "answered") /\ paymentRow' = Pending(i)
  /\ UNCHANGED <<order, page>> /\ Placing /\ Healthy

\* SimulatedPaymentProvider.create_checkout_session
SimulateSession(i) ==
  /\ Reached(i, "built") /\ provider = "simulated"
  /\ MoveTo(i, "answered") /\ paymentRow' = Pending(i)
  /\ UNCHANGED <<order, page>> /\ Placing /\ Healthy

\* The session fails, or its answer is lost: the order is cancelled unless that
\* fails too, and nobody is sent to the page.
NoSession(i) ==
  /\ Reached(i, "built") \/ Reached(i, "posted")
  /\ Fault /\ MoveTo(i, "refused")
  /\ order' \in {order, [order EXCEPT ![i].status = "cancelled"]}
  /\ UNCHANGED <<page, paymentRow>> /\ Placing

-----------------------------------------------------------------------------
(* Payment and confirmation *)

\* The answer reaches the client, which opens checkout_url.
OpenPage(i) ==
  /\ Reached(i, "answered") /\ i \notin opened /\ opened' = opened \cup {i}
  /\ UNCHANGED <<catalog, placing, paymentRow, charged, confirm, mailed, faults>>

\* The provider's page takes the money once.
PayOnPage(i) ==
  /\ provider = "paymongo" /\ i \in opened /\ charged[i] = 0
  /\ charged' = [charged EXCEPT ![i] = page[i]]
  /\ UNCHANGED <<catalog, placing, paymentRow, opened, confirm, mailed, faults>>

Begins(d, i) ==
  /\ confirm[d] = NoConfirm /\ confirm' = [confirm EXCEPT ![d] = [at |-> "begun", of |-> i]]
  /\ UNCHANGED <<catalog, placing, paymentRow, paying, mailed, faults>>

\* The provider reports a payment, as often as it likes.
PaymongoWebhook(d, i) == charged[i] # 0 /\ Begins(d, i)

Simulated(i, client) == provider = "simulated" /\ i \in opened /\ place[i].client = client

\* checkout_success?mock=1, each time the page is loaded
CheckoutSuccess(d, i) == Simulated(i, "web") /\ Begins(d, i)

\* SimulatedPaymentConfirmView
SimulatedConfirm(d, i) == Simulated(i, "phone") /\ Begins(d, i)

\* Mutant of Unpaid: every confirmation takes itself for the first.
UnpaidUnchecked(i) == TRUE

\* The payment as confirm_order_paid finds it under its row's lock
Unpaid(i) == paymentRow[i].status # "paid"

\* confirm_order_paid: True for the confirmation that finds the payment unpaid.
ConfirmPaid(d) ==
  LET i == confirm[d].of IN
  /\ confirm[d].at = "begun"
  /\ \/ /\ Unpaid(i)
        /\ paymentRow' = [paymentRow EXCEPT ![i].status = "paid"]
        /\ order' = [order EXCEPT ![i].status = "paid"]
        /\ confirm' = [confirm EXCEPT ![d].at = "newly"]
     \/ /\ ~Unpaid(i) /\ confirm' = [confirm EXCEPT ![d] = NoConfirm]
        /\ UNCHANGED <<order, paymentRow>>
  /\ UNCHANGED <<catalog, place, page, paying, mailed, faults>>

Mailing == UNCHANGED <<catalog, placing, paymentRow, paying>>

\* send_order_confirmation; what it raises is swallowed.
SendMail(d) ==
  /\ confirm[d].at = "newly" /\ confirm' = [confirm EXCEPT ![d] = NoConfirm]
  /\ mailed' = [mailed EXCEPT ![confirm[d].of] = @ + 1]
  /\ Mailing /\ Healthy

\* The process dies, or the mail is refused.
ConfirmDies(d) ==
  /\ confirm[d] # NoConfirm /\ Fault /\ confirm' = [confirm EXCEPT ![d] = NoConfirm]
  /\ mailed' = mailed /\ Mailing

-----------------------------------------------------------------------------
CatalogNext ==
  \/ \E p \in Prices : EditProduct(p)
  \/ \E v \in Skus, p \in Prices \cup {NoOverride} : EditVariant(v, p)
  \/ \E f \in Fees : EditZone(f)

PlaceNext ==
  \E i \in Requests :
    \/ \E client \in Clients, lines \in CartsSent : SubmitCart(i, client, lines)
    \/ ReadZone(i) \/ PriceCart(i) \/ ReserveCart(i) \/ CreateOrder(i) \/ CreateFails(i)
    \/ PostSession(i) \/ RecordPayment(i) \/ SimulateSession(i) \/ NoSession(i)
    \/ OpenPage(i) \/ PayOnPage(i)

ConfirmNext ==
  \E d \in Confirmers :
    \/ \E i \in Requests : PaymongoWebhook(d, i) \/ CheckoutSuccess(d, i) \/ SimulatedConfirm(d, i)
    \/ ConfirmPaid(d) \/ SendMail(d) \/ ConfirmDies(d)

ShopNext == CatalogNext \/ PlaceNext \/ ConfirmNext

ShopSpec == ShopInit /\ [][ShopNext]_shopVars

-----------------------------------------------------------------------------
(* Properties *)

\* Nothing is asked, paid or recorded for a request that has made no order; for
\* one that has, it is exactly what the order's lines say, whoever changes a
\* price or a fee between the steps of a checkout ("totals are computed once
\* here"; "later catalog edits must not rewrite historical orders").
ChargedAsOrdered ==
  \A i \in Requests :
    IF order[i].status = "none"
    THEN page[i] = 0 /\ charged[i] = 0 /\ paymentRow[i] = NoPayment
    ELSE LET due == Subtotal(order[i].lines, order[i].unit) + order[i].fee IN
         /\ order[i].total = due
         /\ page[i] \in {0, due} /\ charged[i] \in {0, due}
         /\ paymentRow[i] # NoPayment => paymentRow[i].amount = due

\* The confirmation e-mail of an order is sent at most once, and for a payment
\* that was confirmed, however many webhooks and success pages race.
MailedOnce == \A i \in Requests : mailed[i] <= 1 /\ (mailed[i] = 1 => order[i].status = "paid")
=============================================================================
