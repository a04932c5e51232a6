----------------------------- MODULE Fulfillment -----------------------------
(***************************************************************************)
(* The life of an order across its two schemas: the Orders schema (order,  *)
(* payment, StockHold receipt, outbox messages) and the stock ledger, which *)
(* commits on a connection of its own.  No transaction spans both: a ledger *)
(* call made while an Orders transaction is open stays when that transaction *)
(* rolls back.  StockLedger supplies the ledger's transactions; this module *)
(* supplies their callers: checkout, payment, cancel, refund, the outbox    *)
(* handlers and the reconciliation job, any of which may die between two    *)
(* steps.                                                                   *)
(*                                                                         *)
(* Ledger calls run in process here, one transaction at a time.  The sweep's *)
(* unlocked read is modelled in StockLedger; here a row just expires.       *)
(***************************************************************************)
EXTENDS StockLedger

CONSTANTS
  Workers,      \* web requests and schedulers that run the outbox handlers
  OrderLines,   \* OrderLines[o]: the cart of o
  CartOf,       \* CartOf[o]: the checkout_id place_order mints for o
  SpareOf,      \* SpareOf[o][v]: the id "shortfall-<order>-<variant>"
  NoLine,       \* no order item
  MaxAttempts,  \* outbox.MAX_ATTEMPTS
  MaxCrashes    \* bound: processes that die

ASSUME FulfillmentAssumption ==
  /\ OrderLines \in [Orders -> Carts]
  /\ CartOf \in [Orders -> Checkouts]
  /\ SpareOf \in [Orders -> [Variants -> Checkouts]]
  /\ NoLine \notin Variants
  /\ MaxAttempts \in Nat \ {0} /\ MaxCrashes \in Nat
  \* A uuid4 and a name built from two primary keys are nobody else's id.
  /\ \A o, p \in Orders, v, w \in Variants :
       /\ CartOf[o] # SpareOf[p][v]
       /\ CartOf[o] = CartOf[p] => o = p
       /\ SpareOf[o][v] = SpareOf[p][w] => o = p /\ v = w

VARIABLES
  checkout,   \* checkout[o]: where place_order is
  status,     \* status[o]: Order.status ("none" before the row exists)
  payment,    \* payment[o]: Payment.status ("none" before the row exists)
  receipt,    \* receipt[o]: StockHold.state
  message,    \* message[t][o]: OutboxMessage.state of topic t
  attempts,   \* attempts[t][o]: OutboxMessage.attempts, counted to MaxAttempts
  work,       \* work[w]: what a worker is doing
  crashes     \* processes that died so far

ledger == vars
records == <<status, payment, receipt>>
outbox == <<message, attempts>>
sagaVars == <<ledger, checkout, records, outbox, work, crashes>>

Topics == {"order.fulfill_stock", "order.restore_stock"}
Idle == [at |-> "idle", order |-> NoOrder, topic |-> "none", nth |-> 0,
         short |-> {}, line |-> NoLine]

\* A worker's steps; those of deliver_order_stock, of mark_as_cancelled and of
\* no other run under the lock of the order row.
UnderOrderLock == {"commit", "cover", "sell", "cancel"}
Delivering == {"fulfil", "commit", "cover", "sell", "release", "restore"}
Steps == Delivering \cup {"idle", "retire", "failed", "cancel", "reconcile", "settle"}

SagaTypeOK ==
  /\ TypeOK
  /\ checkout \in [Orders -> {"new", "held", "abandoned", "ordered", "unpayable",
                              "released", "stranded", "cancelling", "done"}]
  /\ status \in [Orders -> {"none", "pending", "paid", "cancelled", "refunded"}]
  /\ payment \in [Orders -> {"none", "pending", "paid", "failed"}]
  /\ receipt \in [Orders -> {"none", "active", "committed", "released", "unknown"}]
  /\ message \in [Topics -> [Orders -> {"none", "pending", "sent", "dead"}]]
  /\ attempts \in [Topics -> [Orders -> 0..MaxAttempts]]
  /\ work \in [Workers -> [at : Steps, order : Orders \cup {NoOrder},
                           topic : Topics \cup {"none"}, nth : 0..MaxAttempts,
                           short : SUBSET Variants, line : Variants \cup {NoLine}]]
  /\ crashes \in 0..MaxCrashes

SagaInit ==
  /\ Init
  /\ checkout = [o \in Orders |-> "new"]
  /\ status = [o \in Orders |-> "none"]
  /\ payment = [o \in Orders |-> "none"]
  /\ receipt = [o \in Orders |-> "none"]
  /\ message = [t \in Topics |-> [o \in Orders |-> "none"]]
  /\ attempts = [t \in Topics |-> [o \in Orders |-> 0]]
  /\ work = [w \in Workers |-> Idle]
  /\ crashes = 0

Locked(o) == \E w \in Workers : work[w].order = o /\ work[w].at \in UnderOrderLock
Goto(w, step) == work' = [work EXCEPT ![w].at = step]

-----------------------------------------------------------------------------
(* place_order.  A crash is a checkout that takes no further step. *)

At(o, from, to) == checkout[o] = from /\ checkout' = [checkout EXCEPT ![o] = to]

\* S1: the stock is secured before the order row exists.  A cart that does not
\* fit leaves nothing behind and is not a step.
SecureStock(o) ==
  /\ At(o, "new", "held")
  /\ ReserveLines(CartOf[o], OrderLines[o])
  /\ UNCHANGED <<records, outbox, work, crashes>>

\* S2: the order, its items and the receipt for the hold.
BuildOrder(o) ==
  /\ At(o, "held", "ordered")
  /\ status' = [status EXCEPT ![o] = "pending"]
  /\ receipt' = [receipt EXCEPT ![o] = "active"]
  /\ UNCHANGED <<ledger, payment, outbox, work, crashes>>

BuildFails(o) ==
  /\ At(o, "held", "abandoned")
  /\ UNCHANGED <<ledger, records, outbox, work, crashes>>

OpenSession(o) ==
  /\ At(o, "ordered", "done")
  /\ payment' = [payment EXCEPT ![o] = "pending"]
  /\ UNCHANGED <<ledger, status, receipt, outbox, work, crashes>>

SessionFails(o) ==
  /\ At(o, "ordered", "unpayable")
  /\ UNCHANGED <<ledger, records, outbox, work, crashes>>

\* _release_quietly, row by row: it may fail at any row, and is then over.
Compensate(o) ==
  /\ checkout[o] \in {"abandoned", "unpayable"}
  /\ \E v \in Variants : ReleaseReservation(CartOf[o], v)
  /\ UNCHANGED <<checkout, records, outbox, work, crashes>>

Compensated(o) ==
  /\ \/ At(o, "unpayable", "released") /\ ActiveLines(CartOf[o]) = {}
     \/ At(o, "unpayable", "stranded")
  /\ UNCHANGED <<ledger, records, outbox, work, crashes>>

\* Mutant of MarkReceipt: a failed release is recorded as done.
MarkReceiptReleased(o) ==
  /\ At(o, "released", "cancelling") \/ At(o, "stranded", "cancelling")
  /\ receipt' = [receipt EXCEPT ![o] = "released"]
  /\ UNCHANGED <<ledger, status, payment, outbox, work, crashes>>

\* The receipt records what came of it, in a transaction of its own.
MarkReceipt(o) ==
  /\ \/ At(o, "released", "cancelling") /\ receipt' = [receipt EXCEPT ![o] = "released"]
     \/ At(o, "stranded", "cancelling") /\ receipt' = [receipt EXCEPT ![o] = "unknown"]
  /\ UNCHANGED <<ledger, status, payment, outbox, work, crashes>>

\* Mutant of CancelUnpayable: a status the order does not have.
CancelUnpayableEarly(o) ==
  /\ At(o, "cancelling", "done")
  /\ ~Locked(o)
  /\ status' = [status EXCEPT ![o] = "unpayable"]
  /\ UNCHANGED <<ledger, payment, receipt, outbox, work, crashes>>

\* Staff may have cancelled it first; that error is swallowed.
CancelUnpayable(o) ==
  /\ At(o, "cancelling", "done")
  /\ ~Locked(o)
  /\ IF status[o] = "pending" THEN status' = [status EXCEPT ![o] = "cancelled"]
                              ELSE UNCHANGED status
  /\ UNCHANGED <<ledger, payment, receipt, outbox, work, crashes>>

Checkout(o) ==
  \/ SecureStock(o) \/ BuildOrder(o) \/ BuildFails(o) \/ OpenSession(o) \/ SessionFails(o)
  \/ Compensate(o) \/ Compensated(o) \/ MarkReceipt(o) \/ CancelUnpayable(o)

-----------------------------------------------------------------------------
(* Payment and staff actions *)

Begin(w, o, step, topic, nth) ==
  work' = [work EXCEPT ![w] = [Idle EXCEPT !.at = step, !.order = o, !.topic = topic, !.nth = nth]]

\* The payment, the message and the order's status commit together, or (the
\* order is not PENDING) not at all; on_commit then attempts the delivery.
ConfirmOrderPaid(w, o) ==
  /\ work[w] = Idle
  /\ payment[o] \in {"pending", "failed"}
  /\ status[o] = "pending" /\ ~Locked(o)
  /\ payment' = [payment EXCEPT ![o] = "paid"]
  /\ status' = [status EXCEPT ![o] = "paid"]
  /\ message' = [message EXCEPT !["order.fulfill_stock"][o] = "pending"]
  /\ Begin(w, o, "fulfil", "order.fulfill_stock", 0)
  /\ UNCHANGED <<ledger, checkout, receipt, attempts, crashes>>

\* Mutant of PaymentFails: a late failure report overrides a payment.
PaymentFailsUnchecked(o) ==
  /\ payment[o] \in {"pending", "paid"}
  /\ status[o] \in {"pending", "paid"} /\ ~Locked(o)
  /\ payment' = [payment EXCEPT ![o] = "failed"]
  /\ status' = [status EXCEPT ![o] = "cancelled"]
  /\ UNCHANGED <<ledger, checkout, receipt, outbox, work, crashes>>

\* simulate_failure and simulate_cancellation: nothing is released.
PaymentFails(o) ==
  /\ payment[o] = "pending"
  /\ status[o] = "pending" /\ ~Locked(o)
  /\ payment' = [payment EXCEPT ![o] = "failed"]
  /\ status' = [status EXCEPT ![o] = "cancelled"]
  /\ UNCHANGED <<ledger, checkout, receipt, outbox, work, crashes>>

MarkAsRefunded(w, o) ==
  /\ work[w] = Idle
  /\ status[o] = "paid" /\ ~Locked(o)
  /\ status' = [status EXCEPT ![o] = "refunded"]
  /\ message' = [message EXCEPT !["order.restore_stock"][o] = "pending"]
  /\ Begin(w, o, "release", "order.restore_stock", 0)
  /\ UNCHANGED <<ledger, checkout, payment, receipt, attempts, crashes>>

\* mark_as_cancelled holds the order row while the ledger releases, and commits
\* last: a failure in between leaves the order PENDING and its holds released.
CancelBegins(w, o) ==
  /\ work[w] = Idle
  /\ status[o] = "pending" /\ ~Locked(o)
  /\ Begin(w, o, "cancel", "none", 0)
  /\ UNCHANGED <<ledger, checkout, records, outbox, crashes>>

CancelReleases(w) ==
  LET o == work[w].order
  IN /\ work[w].at = "cancel" /\ receipt[o] = "active"
     /\ \E v \in Variants : ReleaseReservation(CartOf[o], v)
     /\ UNCHANGED <<checkout, records, outbox, work, crashes>>

CancelCommits(w) ==
  LET o == work[w].order
  IN /\ work[w].at = "cancel"
     /\ receipt[o] = "active" => ActiveLines(CartOf[o]) = {}
     /\ status' = [status EXCEPT ![o] = "cancelled"]
     /\ receipt' = [receipt EXCEPT ![o] = IF @ = "active" THEN "released" ELSE @]
     /\ work' = [work EXCEPT ![w] = Idle]
     /\ UNCHANGED <<ledger, checkout, payment, outbox, crashes>>

CancelFails(w) ==
  /\ work[w].at = "cancel"
  /\ work' = [work EXCEPT ![w] = Idle]
  /\ UNCHANGED <<ledger, checkout, records, outbox, crashes>>

-----------------------------------------------------------------------------
(* deliver_order_stock: commit the cart, then cover what has expired *)

FirstStep == [t \in Topics |-> IF t = "order.fulfill_stock" THEN "fulfil" ELSE "release"]

\* drain_outbox: the claim's transaction ends before the delivery begins and
\* leaves the row PENDING, so another drainer may take it as well.
Claim(w, t, o) ==
  /\ work[w] = Idle
  /\ message[t][o] = "pending"
  /\ LET nth == IF attempts[t][o] < MaxAttempts THEN attempts[t][o] + 1 ELSE MaxAttempts
     IN /\ attempts' = [attempts EXCEPT ![t][o] = nth]
        /\ Begin(w, o, FirstStep[t], t, nth)
  /\ UNCHANGED <<ledger, checkout, records, message, crashes>>

\* Mutant of LockOrder: the status is not read under the lock.
LockOrderBlindly(w) ==
  LET o == work[w].order
  IN /\ work[w].at = "fulfil"
     /\ ~Locked(o)
     /\ Goto(w, "commit")
     /\ UNCHANGED <<ledger, checkout, records, outbox, crashes>>

\* The order row is locked and its status read; a refund or a cancel that came
\* first makes the delivery a success with nothing to do.
LockOrder(w) ==
  LET o == work[w].order
  IN /\ work[w].at = "fulfil"
     /\ ~Locked(o)
     /\ \/ status[o] \in {"cancelled", "refunded"} /\ Goto(w, "retire")
        \/ status[o] = "paid" /\ Goto(w, "commit")
     /\ UNCHANGED <<ledger, checkout, records, outbox, crashes>>

\* Mutant of Committed: a replay reports only what it commits itself.
CommittedNow(o, v) ==
  IF receipt[o] \in {"active", "committed"} /\ hold[CartOf[o]][v].status = "active"
  THEN hold[CartOf[o]][v].qty ELSE 0

\* What commit_holds answers, and what the order is then short of.
Committed(o, v) ==
  IF receipt[o] \in {"active", "committed"} /\ hold[CartOf[o]][v].status \in {"active", "committed"}
  THEN hold[CartOf[o]][v].qty ELSE 0
ShortLines(o) == {v \in Variants : Committed(o, v) < OrderLines[o][v]}
ShortCart(o, v) ==
  [w \in Variants |-> IF w = v THEN OrderLines[o][v] - Committed(o, v) ELSE 0]

CommitCart(w) ==
  LET o == work[w].order
  IN /\ work[w].at = "commit"
     /\ receipt[o] # "unknown"
     /\ \/ receipt[o] \in {"active", "committed"} /\ CommitHolds(CartOf[o], o)
        \/ /\ receipt[o] = "released" \/ ActiveLines(CartOf[o]) = {}
           /\ UNCHANGED ledger
     /\ work' = [work EXCEPT ![w] = [@ EXCEPT !.at = "cover", !.short = ShortLines(o)]]
     /\ UNCHANGED <<checkout, records, outbox, crashes>>

\* _cover_shortfall reserves a replacement under a stable id.  A replay answers
\* with the rows of that id, whatever has become of them.
ReserveReplacement(w, v) ==
  LET o == work[w].order
      spare == SpareOf[o][v]
  IN /\ work[w].at = "cover"
     /\ v \in work[w].short
     /\ \/ ReserveLines(spare, ShortCart(o, v))
        \/ claim[spare] = ShortCart(o, v) /\ UNCHANGED ledger
     /\ work' = [work EXCEPT ![w] = [@ EXCEPT !.at = "sell", !.line = v]]
     /\ UNCHANGED <<checkout, records, outbox, crashes>>

\* ... and commits it; what commit_holds answers is not looked at.
SellReplacement(w) ==
  LET o == work[w].order
      v == work[w].line
      spare == SpareOf[o][v]
  IN /\ work[w].at = "sell"
     /\ \/ CommitHolds(spare, o)
        \/ ActiveLines(spare) = {} /\ UNCHANGED ledger
     /\ work' = [work EXCEPT ![w] = [@ EXCEPT !.at = "cover", !.line = NoLine,
                                                !.short = work[w].short \ {v}]]
     /\ UNCHANGED <<checkout, records, outbox, crashes>>

\* Mutant of FinishFulfilment: lines still short are forgotten.
FinishEarly(w) ==
  LET o == work[w].order
  IN /\ work[w].at = "cover"
     /\ receipt' = [receipt EXCEPT ![o] = IF @ = "active" THEN "committed" ELSE @]
     /\ Goto(w, "retire")
     /\ UNCHANGED <<ledger, checkout, status, payment, outbox, crashes>>

\* The Orders transaction commits: the receipt is settled, the lock released.
FinishFulfilment(w) ==
  LET o == work[w].order
  IN /\ work[w].at = "cover"
     /\ work[w].short = {}
     /\ receipt' = [receipt EXCEPT ![o] = IF @ = "active" THEN "committed" ELSE @]
     /\ Goto(w, "retire")
     /\ UNCHANGED <<ledger, checkout, status, payment, outbox, crashes>>

-----------------------------------------------------------------------------
(* deliver_refund: release what is still held, restore what was sold *)

ReleaseCart(w) ==
  /\ work[w].at = "release"
  /\ \E v \in Variants : ReleaseReservation(CartOf[work[w].order], v)
  /\ UNCHANGED <<checkout, records, outbox, work, crashes>>

CartReleased(w) ==
  /\ work[w].at = "release"
  /\ ActiveLines(CartOf[work[w].order]) = {}
  /\ Goto(w, "restore")
  /\ UNCHANGED <<ledger, checkout, records, outbox, crashes>>

RestoreStock(w) ==
  LET o == work[w].order
  IN /\ work[w].at = "restore"
     /\ RestoreOrderStock(o, OrderLines[o]) \/ (refund[o] # NoCart /\ UNCHANGED ledger)
     /\ Goto(w, "retire")
     /\ UNCHANGED <<checkout, records, outbox, crashes>>

-----------------------------------------------------------------------------
(* The end of a delivery, good or bad *)

\* Any call of a handler may raise: its Orders transaction rolls back, what the
\* ledger has committed stays.
DeliveryFails(w) ==
  /\ work[w].at \in Delivering
  /\ Goto(w, "failed")
  /\ UNCHANGED <<ledger, checkout, records, outbox, crashes>>

\* Mutant of RecordFailure: the last failure does not make the message DEAD.
RecordNoFailure(w) ==
  /\ work[w].at = "failed"
  /\ work' = [work EXCEPT ![w] = Idle]
  /\ UNCHANGED <<ledger, checkout, records, outbox, crashes>>

\* A request's failed attempt is only logged; a drainer's last one is DEAD.  The
\* row is written without looking at it again.
RecordFailure(w) ==
  LET t == work[w].topic
  IN /\ work[w].at = "failed"
     /\ message' = IF work[w].nth = MaxAttempts
                   THEN [message EXCEPT ![t][work[w].order] = "dead"] ELSE message
     /\ work' = [work EXCEPT ![w] = Idle]
     /\ UNCHANGED <<ledger, checkout, records, attempts, crashes>>

Retire(w) ==
  /\ work[w].at = "retire"
  /\ message' = [message EXCEPT ![work[w].topic][work[w].order] = "sent"]
  /\ work' = [work EXCEPT ![w] = Idle]
  /\ UNCHANGED <<ledger, checkout, records, attempts, crashes>>

\* A process dies: its open Orders transaction is rolled back.
Crash(w) ==
  /\ work[w] # Idle
  /\ crashes < MaxCrashes
  /\ crashes' = crashes + 1
  /\ work' = [work EXCEPT ![w] = Idle]
  /\ UNCHANGED <<ledger, checkout, records, outbox>>

-----------------------------------------------------------------------------
(* reconcile_unknown_holds asks the ledger to commit; no lock, no status *)

ReconcileBegins(w, o) ==
  /\ work[w] = Idle
  /\ receipt[o] = "unknown"
  /\ Begin(w, o, "reconcile", "none", 0)
  /\ UNCHANGED <<ledger, checkout, records, outbox, crashes>>

ReconcileCommits(w) ==
  LET o == work[w].order
  IN /\ work[w].at = "reconcile"
     /\ CommitHolds(CartOf[o], o) \/ (ActiveLines(CartOf[o]) = {} /\ UNCHANGED ledger)
     /\ Goto(w, "settle")
     /\ UNCHANGED <<checkout, records, outbox, crashes>>

ReconcileSettles(w) ==
  /\ work[w].at = "settle"
  /\ receipt' = [receipt EXCEPT ![work[w].order] = "committed"]
  /\ work' = [work EXCEPT ![w] = Idle]
  /\ UNCHANGED <<ledger, checkout, status, payment, outbox, crashes>>

-----------------------------------------------------------------------------
(* The rest of the ledger's day *)

ExpireHold(c, v) ==
  /\ Sweepable(c, v)
  /\ EndRow(c, v, "expired")
  /\ UNCHANGED calls

Elsewhere ==
  /\ \/ \E c \in Checkouts : PassExpiry(c)
     \/ \E c \in Checkouts, v \in Variants : ExpireHold(c, v)
     \/ \E v \in Variants, delta \in Deltas : AdjustStock(v, delta, "adjustment")
  /\ UNCHANGED <<checkout, records, outbox, work, crashes>>

WorkerStep(w) ==
  \/ CancelReleases(w) \/ CancelCommits(w) \/ CancelFails(w)
  \/ LockOrder(w) \/ CommitCart(w) \/ SellReplacement(w) \/ FinishFulfilment(w)
  \/ \E v \in Variants : ReserveReplacement(w, v)
  \/ ReleaseCart(w) \/ CartReleased(w) \/ RestoreStock(w)
  \/ DeliveryFails(w) \/ RecordFailure(w) \/ Retire(w)
  \/ ReconcileCommits(w) \/ ReconcileSettles(w)

SagaNext ==
  \/ \E o \in Orders : Checkout(o) \/ PaymentFails(o)
  \/ \E w \in Workers, o \in Orders :
       \/ ConfirmOrderPaid(w, o) \/ MarkAsRefunded(w, o) \/ CancelBegins(w, o)
       \/ ReconcileBegins(w, o)
       \/ \E t \in Topics : Claim(w, t, o)
  \/ \E w \in Workers : WorkerStep(w) \/ Crash(w)
  \/ Elsewhere

SagaSpec == SagaInit /\ [][SagaNext]_sagaVars

\* The scheduler's drain job takes every due message each time it runs, and a
\* process that does not die ends what it began.
FairSagaSpec ==
  /\ SagaSpec
  /\ \A w \in Workers : WF_sagaVars(WorkerStep(w))
  /\ \A t \in Topics, o \in Orders : SF_sagaVars(\E w \in Workers : Claim(w, t, o))

-----------------------------------------------------------------------------
(* Properties *)

\* However often a delivery is attempted, by however many workers, with carts
\* replaced and processes dying in between, an order is never sold more than it
\* ordered ("at-least-once ... the observable effect is exactly-once").
OneSalePerOrder ==
  \A o \in Orders, v \in Variants : sold[o][v] <= OrderLines[o][v]

\* A refund whose message is retired has put back everything the order ever
\* took, and no delivery that was under way can sell to it afterwards.
RefundRestores ==
  \A o \in Orders : message["order.restore_stock"][o] = "sent" =>
    returned[o] = sold[o]

\* A fulfilment message is retired for a paid order only with the stock sold, or
\* with a replacement hold that expired under it.
RetiredIsSoldOrExpired ==
  \A o \in Orders, v \in Variants :
    message["order.fulfill_stock"][o] = "sent" /\ status[o] = "paid" =>
      \/ sold[o][v] = OrderLines[o][v]
      \/ hold[SpareOf[o][v]][v].status = "expired"

\* The docstring's claim: "no incomplete work is retired" (payments/holds.py:110).
RetiredIsSold ==
  \A o \in Orders :
    message["order.fulfill_stock"][o] = "sent" /\ status[o] = "paid" =>
      sold[o] = OrderLines[o]

\* Orders' receipt agrees with the ledger in the direction compensation relies
\* on: a RELEASED receipt leaves no unit held and none sold, although the two
\* schemas are written by separate transactions.
ReleasedReceiptHoldsNothing ==
  \A o \in Orders, v \in Variants :
    receipt[o] = "released" =>
      hold[CartOf[o]][v].status \in {"none", "released", "expired"}

\* Only a paid order's units leave the shelf, except those the reconciliation
\* job sells: their receipt was lost, and still says so or was settled by the job.
UnpaidSaleIsReconciled ==
  \A o \in Orders, v \in Variants :
    sold[o][v] > 0 /\ payment[o] # "paid" => receipt[o] \in {"unknown", "committed"}

\* "the ledger cannot record a sale that no one paid for" (services/inventory/
\* api.py:409-410, of the adjust endpoint; the only other writer of sales is commit).
SoldIsPaid ==
  \A o \in Orders, v \in Variants : sold[o][v] > 0 => payment[o] = "paid"

\* A message does not stay PENDING for ever: each order's delivery succeeds or
\* reaches a human, whatever locks, failures and crashes it meets.
MessagesSettle ==
  \A t \in Topics, o \in Orders :
    message[t][o] = "pending" ~> message[t][o] # "pending"
=============================================================================
