-------------------------- MODULE FulfillmentProofs --------------------------
(***************************************************************************)
(* What Fulfillment guarantees for any number of orders, lines, workers,    *)
(* attempts and crashes.                                                    *)
(*                                                                         *)
(* Three layers.  The records first: which states of checkout, order,       *)
(* payment, receipt, messages and workers go together, whatever the ledger  *)
(* holds.  Then the rows of each order's ids: the cart's and one            *)
(* replacement's per line.  Then what a delivery that ended has done.       *)
(***************************************************************************)
EXTENDS Fulfillment, StockLedgerProofs

-----------------------------------------------------------------------------
(* The records *)

FulfilTopic == "order.fulfill_stock"
RestoreTopic == "order.restore_stock"

\* The payment session of o never opened, and nobody can pay it any more.
Unpayable(o) == payment[o] = "none" /\ checkout[o] \in {"cancelling", "done"}

WorkRecord == [at : Steps, order : Orders \cup {NoOrder}, topic : Topics \cup {"none"},
               nth : 0..MaxAttempts, short : SUBSET Variants, line : Variants \cup {NoLine}]
CheckoutSteps == {"new", "held", "abandoned", "ordered", "unpayable",
                  "released", "stranded", "cancelling", "done"}
StatusNames == {"none", "pending", "paid", "cancelled", "refunded"}
PaymentNames == {"none", "pending", "paid", "failed"}
ReceiptNames == {"none", "active", "committed", "released", "unknown"}

\* What SagaTypeOK says besides the ledger's types.
RecordTypes ==
  /\ checkout \in [Orders -> CheckoutSteps]
  /\ status \in [Orders -> StatusNames]
  /\ payment \in [Orders -> PaymentNames]
  /\ receipt \in [Orders -> ReceiptNames]
MessageTypes ==
  /\ message \in [Topics -> [Orders -> {"none", "pending", "sent", "dead"}]]
  /\ attempts \in [Topics -> [Orders -> 0..MaxAttempts]]
  /\ crashes \in 0..MaxCrashes
WorkTypes == work \in [Workers -> WorkRecord]

\* An order, its payment and its receipt come into being in this order, and the
\* receipt of an order that is or can be paid is that of a hold.
RecordsAgree ==
  \A o \in Orders :
    /\ checkout[o] \in {"new", "held", "abandoned"} <=> status[o] = "none"
    /\ status[o] = "none" <=> receipt[o] = "none"
    /\ payment[o] # "none" => checkout[o] = "done"
    /\ payment[o] = "paid" <=> status[o] \in {"paid", "refunded"}
    /\ status[o] = "pending" /\ checkout[o] # "cancelling" => receipt[o] = "active"
    /\ status[o] \in {"paid", "refunded"} => receipt[o] \in {"active", "committed"}
    /\ checkout[o] \in {"unpayable", "released", "stranded"} => receipt[o] \in {"active", "released"}
    /\ receipt[o] = "unknown" => Unpayable(o)
    /\ receipt[o] = "committed" => payment[o] = "paid" \/ Unpayable(o)

\* What a worker does fits the order it does it for.
WorkerAgrees(w) ==
  /\ work[w].at = "idle" \/ work[w].order \in Orders
  /\ work[w].at \in {"commit", "cover", "sell"} => status[work[w].order] = "paid"
  /\ work[w].at = "cancel" => status[work[w].order] = "pending"
  /\ work[w].at \in {"fulfil", "commit", "cover", "sell"} => work[w].topic = FulfilTopic
  /\ work[w].at \in {"release", "restore"} => work[w].topic = RestoreTopic
  /\ work[w].at \in {"retire", "failed"} => work[w].topic \in Topics
  /\ work[w].topic = FulfilTopic => work[w].order \in Orders /\ payment[work[w].order] = "paid"
  /\ work[w].topic = RestoreTopic => work[w].order \in Orders /\ status[work[w].order] = "refunded"
  /\ work[w].at \in {"reconcile", "settle"} =>
       Unpayable(work[w].order) /\ receipt[work[w].order] \in {"unknown", "committed"}
WorkersAgree == \A w \in Workers : WorkerAgrees(w)

\* The lock of an order's row has one holder.
OneHolder ==
  \A w, u \in Workers :
    /\ work[w].at \in UnderOrderLock /\ work[u].at \in UnderOrderLock
    /\ work[w].order = work[u].order
    => w = u

\* Stock is asked for after the payment, and given back after the refund.
MessagesAgree ==
  \A o \in Orders :
    /\ message[FulfilTopic][o] # "none" => payment[o] = "paid"
    /\ message[RestoreTopic][o] # "none" => status[o] = "refunded"

RecordsInv ==
  /\ RecordTypes /\ MessageTypes /\ WorkTypes
  /\ RecordsAgree /\ WorkersAgree /\ OneHolder /\ MessagesAgree

-----------------------------------------------------------------------------
(* What the steps of a worker do to what it is doing *)

\* Nobody but w turns to something else.
Alone(w) == \A u \in Workers : u # w => work'[u] = work[u]

\* w goes on with the same order, at another step, with these lines.
TurnsInto(w, step, short, line) ==
  /\ WorkTypes' /\ Alone(w)
  /\ work'[w].at = step /\ work'[w].order = work[w].order
  /\ work'[w].topic = work[w].topic /\ work'[w].nth = work[w].nth
  /\ work'[w].short = short /\ work'[w].line = line

LEMMA WorkFields ==
  /\ Idle \in WorkRecord /\ Idle.at = "idle" /\ Idle.topic = "none"
  /\ Steps = {"fulfil", "commit", "cover", "sell", "release", "restore", "idle", "retire",
              "failed", "cancel", "reconcile", "settle"}
  /\ Topics = {FulfilTopic, RestoreTopic}
BY FulfillmentAssumption DEF Idle, WorkRecord, Steps, Delivering, Topics, FulfilTopic, RestoreTopic

\* A worker that begins something.
LEMMA Beginning ==
  ASSUME WorkTypes, NEW w \in Workers, NEW o \in Orders, NEW step \in Steps,
         NEW topic \in Topics \cup {"none"}, NEW nth \in 0..MaxAttempts,
         Begin(w, o, step, topic, nth)
  PROVE  /\ WorkTypes' /\ Alone(w)
         /\ work'[w].at = step /\ work'[w].order = o /\ work'[w].topic = topic
         /\ work'[w].nth = nth
<1> DEFINE r == [Idle EXCEPT !.at = step, !.order = o, !.topic = topic, !.nth = nth]
<1>1. /\ r \in WorkRecord
      /\ r.at = step /\ r.order = o /\ r.topic = topic /\ r.nth = nth
  BY FulfillmentAssumption DEF Idle, WorkRecord
<1>2. work' = [work EXCEPT ![w] = r]
  BY DEF Begin
<1> HIDE DEF r
<1>3. QED
  BY <1>1, <1>2 DEF WorkTypes, Alone

\* One that goes on to another step.
LEMMA Going ==
  ASSUME WorkTypes, NEW w \in Workers, NEW step \in Steps, Goto(w, step)
  PROVE  TurnsInto(w, step, work[w].short, work[w].line)
<1> DEFINE r == [work[w] EXCEPT !.at = step]
<1>1. work[w] \in WorkRecord
  BY DEF WorkTypes
<1>2. /\ r \in WorkRecord
      /\ r.at = step /\ r.order = work[w].order /\ r.topic = work[w].topic
      /\ r.nth = work[w].nth /\ r.short = work[w].short /\ r.line = work[w].line
  BY <1>1 DEF WorkRecord
<1>3. work' = [work EXCEPT ![w] = r]
  BY DEF Goto
<1> HIDE DEF r
<1>4. QED
  BY <1>2, <1>3 DEF WorkTypes, Alone, TurnsInto

\* One that is done, or dead.
LEMMA Ending ==
  ASSUME WorkTypes, NEW w \in Workers, work' = [work EXCEPT ![w] = Idle]
  PROVE  WorkTypes' /\ Alone(w) /\ work'[w].at = "idle" /\ work'[w].topic = "none"
BY WorkFields DEF WorkTypes, Alone

\* One that notes which lines its order is short of, and which it is covering.
LEMMA Noting ==
  ASSUME WorkTypes, NEW w \in Workers, NEW short \in SUBSET Variants,
         NEW line \in Variants \cup {NoLine}
  PROVE  /\ work' = [work EXCEPT ![w] = [@ EXCEPT !.at = "cover", !.short = short]]
              => TurnsInto(w, "cover", short, work[w].line)
         /\ work' = [work EXCEPT ![w] = [@ EXCEPT !.at = "sell", !.line = line]]
              => TurnsInto(w, "sell", work[w].short, line)
         /\ work' = [work EXCEPT ![w] =
                       [@ EXCEPT !.at = "cover", !.line = NoLine, !.short = short]]
              => TurnsInto(w, "cover", short, NoLine)
<1>1. work[w] \in WorkRecord
  BY DEF WorkTypes
<1>2. ASSUME NEW r \in WorkRecord, work' = [work EXCEPT ![w] = r],
             NEW step, NEW s, NEW l, r.at = step, r.short = s, r.line = l,
             r.order = work[w].order, r.topic = work[w].topic, r.nth = work[w].nth
      PROVE  TurnsInto(w, step, s, l)
  BY <1>2 DEF WorkTypes, Alone, TurnsInto
<1>3. ASSUME work' = [work EXCEPT ![w] = [@ EXCEPT !.at = "cover", !.short = short]]
      PROVE  TurnsInto(w, "cover", short, work[w].line)
  <2> DEFINE r == [work[w] EXCEPT !.at = "cover", !.short = short]
  <2>1. /\ r \in WorkRecord
        /\ r.at = "cover" /\ r.short = short /\ r.line = work[w].line
        /\ r.order = work[w].order /\ r.topic = work[w].topic /\ r.nth = work[w].nth
    BY <1>1, WorkFields DEF WorkRecord
  <2>2. work' = [work EXCEPT ![w] = r]
    BY <1>3
  <2> HIDE DEF r
  <2>3. QED
    BY <1>2, <2>1, <2>2
<1>4. ASSUME work' = [work EXCEPT ![w] = [@ EXCEPT !.at = "sell", !.line = line]]
      PROVE  TurnsInto(w, "sell", work[w].short, line)
  <2> DEFINE r == [work[w] EXCEPT !.at = "sell", !.line = line]
  <2>1. /\ r \in WorkRecord
        /\ r.at = "sell" /\ r.short = work[w].short /\ r.line = line
        /\ r.order = work[w].order /\ r.topic = work[w].topic /\ r.nth = work[w].nth
    BY <1>1, WorkFields DEF WorkRecord
  <2>2. work' = [work EXCEPT ![w] = r]
    BY <1>4
  <2> HIDE DEF r
  <2>3. QED
    BY <1>2, <2>1, <2>2
<1>5. ASSUME work' = [work EXCEPT ![w] =
                       [@ EXCEPT !.at = "cover", !.line = NoLine, !.short = short]]
      PROVE  TurnsInto(w, "cover", short, NoLine)
  <2> DEFINE r == [work[w] EXCEPT !.at = "cover", !.line = NoLine, !.short = short]
  <2>1. /\ r \in WorkRecord
        /\ r.at = "cover" /\ r.short = short /\ r.line = NoLine
        /\ r.order = work[w].order /\ r.topic = work[w].topic /\ r.nth = work[w].nth
    BY <1>1, WorkFields DEF WorkRecord
  <2>2. work' = [work EXCEPT ![w] = r]
    BY <1>5
  <2> HIDE DEF r
  <2>3. QED
    BY <1>2, <2>1, <2>2
<1>6. QED
  BY <1>3, <1>4, <1>5

\* The three steps that do so.
LEMMA NotingSteps ==
  ASSUME WorkTypes, NEW w \in Workers
  PROVE  /\ CommitCart(w) => TurnsInto(w, "cover", ShortLines(work[w].order), work[w].line)
         /\ \A v \in Variants :
              ReserveReplacement(w, v) => TurnsInto(w, "sell", work[w].short, v)
         /\ SellReplacement(w) => TurnsInto(w, "cover", work[w].short \ {work[w].line}, NoLine)
<1>1. work[w] \in WorkRecord
  BY DEF WorkTypes
<1>2. ASSUME CommitCart(w)
      PROVE  TurnsInto(w, "cover", ShortLines(work[w].order), work[w].line)
  <2> DEFINE short == ShortLines(work[w].order)
  <2>1. short \in SUBSET Variants
    BY DEF ShortLines
  <2>2. work' = [work EXCEPT ![w] = [@ EXCEPT !.at = "cover", !.short = short]]
    BY <1>2 DEF CommitCart
  <2> HIDE DEF short
  <2>3. TurnsInto(w, "cover", short, work[w].line)
    BY <1>1, <2>1, <2>2, Noting DEF WorkRecord
  <2>4. QED
    BY <2>3 DEF short
<1>3. ASSUME NEW v \in Variants, ReserveReplacement(w, v)
      PROVE  TurnsInto(w, "sell", work[w].short, v)
  <2>1. work' = [work EXCEPT ![w] = [@ EXCEPT !.at = "sell", !.line = v]]
    BY <1>3 DEF ReserveReplacement
  <2>2. QED
    BY <1>1, <2>1, Noting DEF WorkRecord
<1>4. ASSUME SellReplacement(w)
      PROVE  TurnsInto(w, "cover", work[w].short \ {work[w].line}, NoLine)
  <2> DEFINE short == work[w].short \ {work[w].line}
  <2>1. short \in SUBSET Variants
    BY <1>1 DEF WorkRecord
  <2>2. work' = [work EXCEPT ![w] =
                   [@ EXCEPT !.at = "cover", !.line = NoLine, !.short = short]]
    BY <1>4 DEF SellReplacement
  <2> HIDE DEF short
  <2>3. TurnsInto(w, "cover", short, NoLine)
    BY <1>1, <2>1, <2>2, Noting DEF WorkRecord
  <2>4. QED
    BY <2>3 DEF short
<1>5. QED
  BY <1>2, <1>3, <1>4

-----------------------------------------------------------------------------
(* The records of an order, through every step *)

\* The records and messages after a step fit together.
RecordsFit ==
  RecordTypes' /\ MessageTypes' /\ RecordsAgree' /\ MessagesAgree'

\* What no step undoes.
Reconcilable(o) == Unpayable(o) /\ receipt[o] \in {"unknown", "committed"}
RecordsMove ==
  \A o \in Orders :
    /\ payment[o] = "paid" => payment'[o] = "paid"
    /\ status[o] = "refunded" => status'[o] = "refunded"
    /\ Reconcilable(o) => Reconcilable(o)'

\* Nobody but those of W changes the status of an order somebody else has locked.
LocksHold(W) ==
  \A u \in Workers \ W :
    work[u].at \in UnderOrderLock => status'[work[u].order] = status[work[u].order]

\* w holds a lock it held before, or one that was free.
LockWasFree(w) ==
  work'[w].at \in UnderOrderLock =>
    \/ work[w].at \in UnderOrderLock /\ work'[w].order = work[w].order
    \/ ~Locked(work'[w].order)

\* What the others do still fits.
LEMMA OthersAgree ==
  ASSUME RecordsInv, RecordsMove, NEW W, LocksHold(W),
         NEW u \in Workers \ W, work'[u] = work[u]
  PROVE  WorkerAgrees(u)'
<1>1. WorkerAgrees(u)
  BY DEF RecordsInv, WorkersAgree
<1>2. /\ work[u].at \in {"commit", "cover", "sell", "cancel"} =>
           status'[work[u].order] = status[work[u].order]
      /\ work[u].order \in Orders =>
           /\ payment[work[u].order] = "paid" => payment'[work[u].order] = "paid"
           /\ status[work[u].order] = "refunded" => status'[work[u].order] = "refunded"
           /\ Reconcilable(work[u].order) => Reconcilable(work[u].order)'
  BY DEF RecordsMove, LocksHold, UnderOrderLock
<1>3. QED
  BY <1>1, <1>2 DEF WorkerAgrees, Reconcilable, Unpayable

\* A step of one worker keeps the records' invariant, and so does one of nobody.
LEMMA WorkerKeepsRecords ==
  ASSUME RecordsInv, NEW w \in Workers, WorkTypes', Alone(w), RecordsFit, RecordsMove,
         LocksHold({w}), LockWasFree(w), WorkerAgrees(w)'
  PROVE  RecordsInv' /\ RecordsMove
<1>1. WorkersAgree'
  <2>1. ASSUME NEW u \in Workers, u # w PROVE WorkerAgrees(u)'
    <3>1. u \in Workers \ {w} /\ work'[u] = work[u]
      BY <2>1 DEF Alone
    <3>2. QED
      BY <3>1, OthersAgree
  <2>2. QED
    BY <2>1 DEF WorkersAgree
<1>2. OneHolder'
  <2> SUFFICES ASSUME NEW u \in Workers, NEW x \in Workers,
                      work'[u].at \in UnderOrderLock, work'[x].at \in UnderOrderLock,
                      work'[u].order = work'[x].order
               PROVE  u = x
    BY DEF OneHolder, UnderOrderLock
  <2>1. \A y \in Workers : y # w => work'[y] = work[y]
    BY DEF Alone
  <2>2. CASE u = w /\ x # w
    BY <2>1, <2>2 DEF LockWasFree, Locked, RecordsInv, OneHolder
  <2>3. CASE x = w /\ u # w
    BY <2>1, <2>3 DEF LockWasFree, Locked, RecordsInv, OneHolder
  <2>4. CASE u # w /\ x # w
    BY <2>1, <2>4 DEF RecordsInv, OneHolder
  <2>5. QED
    BY <2>2, <2>3, <2>4
<1>3. QED
  BY <1>1, <1>2 DEF RecordsFit, RecordsInv

LEMMA NobodyKeepsRecords ==
  ASSUME RecordsInv, UNCHANGED work, RecordsFit, RecordsMove, LocksHold({})
  PROVE  RecordsInv' /\ RecordsMove
<1>1. WorkersAgree'
  <2>1. ASSUME NEW u \in Workers PROVE WorkerAgrees(u)'
    BY OthersAgree
  <2>2. QED
    BY <2>1 DEF WorkersAgree
<1>2. QED
  BY <1>1 DEF RecordsFit, RecordsInv, OneHolder, WorkTypes

\* Steps that leave the records alone.
LEMMA RecordsRest ==
  ASSUME RecordsInv, UNCHANGED <<checkout, records, message, crashes>>,
         attempts' \in [Topics -> [Orders -> 0..MaxAttempts]]
  PROVE  RecordsFit /\ RecordsMove /\ \A W : LocksHold(W)
<1>1. UNCHANGED <<checkout, status, payment, receipt, message, crashes>>
  BY DEF records
<1>2. QED
  BY <1>1 DEF RecordsInv, RecordsFit, RecordsMove, LocksHold, RecordTypes, MessageTypes,
              RecordsAgree, MessagesAgree, Unpayable, Reconcilable

\* The steps of place_order.
LEMMA CheckoutKeepsRecords ==
  ASSUME RecordsInv, NEW o \in Orders, Checkout(o)
  PROVE  RecordsInv' /\ RecordsMove
<1> DEFINE Goal == RecordsFit /\ RecordsMove /\ LocksHold({})
<1>1. RecordTypes /\ MessageTypes /\ WorkTypes /\ RecordsAgree /\ WorkersAgree /\ MessagesAgree
  BY DEF RecordsInv
<1>2. UNCHANGED <<message, attempts, work, crashes>>
  BY DEF Checkout, SecureStock, BuildOrder, BuildFails, OpenSession, SessionFails, Compensate,
         Compensated, MarkReceipt, CancelUnpayable, outbox
<1>3. CASE SecureStock(o) \/ BuildFails(o) \/ SessionFails(o) \/ Compensated(o)
  <2>1. UNCHANGED <<status, payment, receipt>>
    BY <1>3 DEF SecureStock, BuildFails, SessionFails, Compensated, records
  <2>2. /\ checkout' \in [Orders -> CheckoutSteps]
        /\ \A p \in Orders : p # o => checkout'[p] = checkout[p]
        /\ \/ checkout[o] = "new" /\ checkout'[o] = "held"
           \/ checkout[o] = "held" /\ checkout'[o] = "abandoned"
           \/ checkout[o] = "ordered" /\ checkout'[o] = "unpayable"
           \/ checkout[o] = "unpayable" /\ checkout'[o] \in {"released", "stranded"}
    BY <1>1, <1>3 DEF SecureStock, BuildFails, SessionFails, Compensated, At, RecordTypes,
                      CheckoutSteps
  <2>3. RecordsAgree'
    BY <1>1, <2>1, <2>2 DEF RecordsAgree, Unpayable, RecordTypes, ReceiptNames
  <2>4. QED
    BY <1>1, <1>2, <2>1, <2>2, <2>3, NobodyKeepsRecords
       DEF RecordsFit, RecordsMove, LocksHold, RecordTypes, MessageTypes, MessagesAgree,
           Reconcilable, Unpayable
<1>4. CASE BuildOrder(o)
  <2>1. /\ UNCHANGED payment
        /\ status' = [status EXCEPT ![o] = "pending"]
        /\ receipt' = [receipt EXCEPT ![o] = "active"]
        /\ checkout[o] = "held" /\ checkout' = [checkout EXCEPT ![o] = "ordered"]
    BY <1>4 DEF BuildOrder, At
  <2>2. RecordTypes'
    BY <1>1, <2>1 DEF RecordTypes, StatusNames, ReceiptNames, CheckoutSteps
  <2>3. RecordsAgree'
    BY <1>1, <2>1 DEF RecordsAgree, Unpayable, RecordTypes
  <2>4. status[o] = "none" /\ payment[o] = "none" /\ receipt[o] = "none"
    BY <1>1, <2>1 DEF RecordsAgree, RecordTypes
  <2>5. RecordsMove /\ MessagesAgree'
    BY <1>1, <1>2, <2>1, <2>4 DEF RecordsMove, Reconcilable, Unpayable, MessagesAgree, RecordTypes
  <2>6. LocksHold({})
    BY <1>1, <2>1, <2>4 DEF LocksHold, WorkersAgree, WorkerAgrees, UnderOrderLock, RecordTypes
  <2>7. QED
    BY <1>1, <1>2, <2>2, <2>3, <2>5, <2>6, NobodyKeepsRecords DEF RecordsFit, MessageTypes
<1>5. CASE OpenSession(o)
  <2>1. /\ UNCHANGED <<status, receipt>>
        /\ payment' = [payment EXCEPT ![o] = "pending"]
        /\ checkout[o] = "ordered" /\ checkout' = [checkout EXCEPT ![o] = "done"]
    BY <1>5 DEF OpenSession, At
  <2>2. RecordTypes'
    BY <1>1, <2>1 DEF RecordTypes, PaymentNames, CheckoutSteps
  <2>3. RecordsAgree'
    BY <1>1, <2>1 DEF RecordsAgree, Unpayable, RecordTypes
  <2>4. payment[o] # "paid" /\ ~Unpayable(o)
    BY <1>1, <2>1 DEF RecordsAgree, Unpayable
  <2>5. RecordsMove /\ MessagesAgree'
    BY <1>1, <1>2, <2>1, <2>4 DEF RecordsMove, Reconcilable, Unpayable, MessagesAgree, RecordTypes
  <2>6. QED
    BY <1>1, <1>2, <2>1, <2>2, <2>3, <2>5, NobodyKeepsRecords
       DEF RecordsFit, MessageTypes, LocksHold
<1>6. CASE Compensate(o)
  <2>1. UNCHANGED <<checkout, records>>
    BY <1>6 DEF Compensate
  <2>2. QED
    BY <1>1, <1>2, <2>1, RecordsRest, NobodyKeepsRecords DEF MessageTypes
<1>7. CASE MarkReceipt(o)
  <2>1. /\ UNCHANGED <<status, payment>>
        /\ checkout[o] \in {"released", "stranded"}
        /\ checkout' = [checkout EXCEPT ![o] = "cancelling"]
        /\ \/ receipt' = [receipt EXCEPT ![o] = "released"]
           \/ receipt' = [receipt EXCEPT ![o] = "unknown"]
    BY <1>7 DEF MarkReceipt, At
  <2>2. RecordTypes'
    BY <1>1, <2>1 DEF RecordTypes, ReceiptNames, CheckoutSteps
  <2>3. payment[o] = "none" /\ status[o] # "none" /\ ~Unpayable(o)
    BY <1>1, <2>1 DEF RecordsAgree, Unpayable
  <2>4. RecordsAgree'
    BY <1>1, <2>1, <2>3 DEF RecordsAgree, Unpayable, RecordTypes
  <2>5. RecordsMove /\ MessagesAgree'
    BY <1>1, <1>2, <2>1, <2>3 DEF RecordsMove, Reconcilable, Unpayable, MessagesAgree, RecordTypes
  <2>6. QED
    BY <1>1, <1>2, <2>1, <2>2, <2>4, <2>5, NobodyKeepsRecords
       DEF RecordsFit, MessageTypes, LocksHold
<1>8. CASE CancelUnpayable(o)
  <2>1. /\ UNCHANGED <<payment, receipt>> /\ ~Locked(o)
        /\ checkout[o] = "cancelling" /\ checkout' = [checkout EXCEPT ![o] = "done"]
        /\ \/ status[o] = "pending" /\ status' = [status EXCEPT ![o] = "cancelled"]
           \/ status[o] # "pending" /\ UNCHANGED status
    BY <1>8 DEF CancelUnpayable, At
  <2>2. RecordTypes'
    BY <1>1, <2>1 DEF RecordTypes, StatusNames, CheckoutSteps
  <2>3. RecordsAgree'
    BY <1>1, <2>1 DEF RecordsAgree, Unpayable, RecordTypes
  <2>4. RecordsMove /\ MessagesAgree'
    BY <1>1, <1>2, <2>1 DEF RecordsMove, Reconcilable, Unpayable, MessagesAgree, RecordTypes
  <2>5. LocksHold({})
    <3>1. \A u \in Workers : work[u].at \in UnderOrderLock =>
            work[u].order \in Orders /\ work[u].order # o
      BY <1>1, <2>1 DEF Locked, WorkersAgree, WorkerAgrees, UnderOrderLock
    <3>2. QED
      BY <1>1, <2>1, <3>1 DEF LocksHold, RecordTypes
  <2>6. QED
    BY <1>1, <1>2, <2>2, <2>3, <2>4, <2>5, NobodyKeepsRecords DEF RecordsFit, MessageTypes
<1>9. QED
  BY <1>3, <1>4, <1>5, <1>6, <1>7, <1>8 DEF Checkout

\* A failed payment.
LEMMA FailureKeepsRecords ==
  ASSUME RecordsInv, NEW o \in Orders, PaymentFails(o)
  PROVE  RecordsInv' /\ RecordsMove
<1>1. RecordTypes /\ MessageTypes /\ WorkTypes /\ RecordsAgree /\ WorkersAgree /\ MessagesAgree
  BY DEF RecordsInv
<1>2. /\ UNCHANGED <<checkout, receipt, message, attempts, work, crashes>>
      /\ payment[o] = "pending" /\ payment' = [payment EXCEPT ![o] = "failed"]
      /\ status[o] = "pending" /\ status' = [status EXCEPT ![o] = "cancelled"]
      /\ ~Locked(o)
  BY DEF PaymentFails, outbox
<1>3. RecordTypes' /\ MessageTypes'
  BY <1>1, <1>2 DEF RecordTypes, MessageTypes, StatusNames, PaymentNames
<1>4. RecordsAgree' /\ MessagesAgree' /\ RecordsMove
  BY <1>1, <1>2 DEF RecordsAgree, Unpayable, RecordTypes, MessagesAgree, RecordsMove, Reconcilable
<1>5. \A u \in Workers : work[u].at \in UnderOrderLock =>
        work[u].order \in Orders /\ work[u].order # o
  BY <1>1, <1>2 DEF Locked, WorkersAgree, WorkerAgrees, UnderOrderLock
<1>6. LocksHold({})
  BY <1>1, <1>2, <1>5 DEF LocksHold, RecordTypes
<1>7. QED
  BY <1>2, <1>3, <1>4, <1>6, NobodyKeepsRecords DEF RecordsFit

\* A payment, and a refund: they begin a delivery.
LEMMA PaymentKeepsRecords ==
  ASSUME RecordsInv, NEW w \in Workers, NEW o \in Orders, ConfirmOrderPaid(w, o)
  PROVE  RecordsInv' /\ RecordsMove
<1>1. RecordTypes /\ MessageTypes /\ WorkTypes /\ RecordsAgree /\ WorkersAgree /\ MessagesAgree
  BY DEF RecordsInv
<1>2. /\ UNCHANGED <<checkout, receipt, attempts, crashes>>
      /\ payment[o] \in {"pending", "failed"} /\ payment' = [payment EXCEPT ![o] = "paid"]
      /\ status[o] = "pending" /\ status' = [status EXCEPT ![o] = "paid"]
      /\ message' = [message EXCEPT ![FulfilTopic][o] = "pending"]
      /\ Begin(w, o, "fulfil", FulfilTopic, 0)
      /\ ~Locked(o)
  BY DEF ConfirmOrderPaid, FulfilTopic
<1>3. /\ WorkTypes' /\ Alone(w)
      /\ work'[w].at = "fulfil" /\ work'[w].order = o /\ work'[w].topic = FulfilTopic
  BY <1>1, <1>2, WorkFields, FulfillmentAssumption, Beginning
<1>4. RecordTypes' /\ MessageTypes'
  BY <1>1, <1>2, WorkFields DEF RecordTypes, MessageTypes, StatusNames, PaymentNames
<1>5. RecordsAgree' /\ RecordsMove
  BY <1>1, <1>2 DEF RecordsAgree, Unpayable, RecordTypes, RecordsMove, Reconcilable
<1>6. MessagesAgree'
  BY <1>1, <1>2, WorkFields
     DEF MessagesAgree, MessageTypes, RecordTypes, FulfilTopic, RestoreTopic
<1>7. LocksHold({w})
  <2>1. \A u \in Workers : work[u].at \in UnderOrderLock =>
          work[u].order \in Orders /\ work[u].order # o
    BY <1>1, <1>2 DEF Locked, WorkersAgree, WorkerAgrees, UnderOrderLock
  <2>2. QED
    BY <1>1, <1>2, <2>1 DEF LocksHold, RecordTypes
<1>8. WorkerAgrees(w)' /\ LockWasFree(w)
  <2>1. payment'[o] = "paid"
    BY <1>1, <1>2 DEF RecordTypes
  <2>2. QED
    BY <1>3, <2>1 DEF WorkerAgrees, LockWasFree, UnderOrderLock, FulfilTopic, RestoreTopic
<1>9. QED
  BY <1>3, <1>4, <1>5, <1>6, <1>7, <1>8, WorkerKeepsRecords DEF RecordsFit

LEMMA RefundKeepsRecords ==
  ASSUME RecordsInv, NEW w \in Workers, NEW o \in Orders, MarkAsRefunded(w, o)
  PROVE  RecordsInv' /\ RecordsMove
<1>1. RecordTypes /\ MessageTypes /\ WorkTypes /\ RecordsAgree /\ WorkersAgree /\ MessagesAgree
  BY DEF RecordsInv
<1>2. /\ UNCHANGED <<checkout, payment, receipt, attempts, crashes>>
      /\ status[o] = "paid" /\ status' = [status EXCEPT ![o] = "refunded"]
      /\ message' = [message EXCEPT ![RestoreTopic][o] = "pending"]
      /\ Begin(w, o, "release", RestoreTopic, 0)
      /\ ~Locked(o)
  BY DEF MarkAsRefunded, RestoreTopic
<1>3. /\ WorkTypes' /\ Alone(w)
      /\ work'[w].at = "release" /\ work'[w].order = o /\ work'[w].topic = RestoreTopic
  <2>1. "release" \in Steps /\ RestoreTopic \in Topics \cup {"none"} /\ 0 \in 0..MaxAttempts
    BY WorkFields, FulfillmentAssumption
  <2>2. QED
    BY <1>1, <1>2, <2>1, Beginning
<1>4. RecordTypes' /\ MessageTypes'
  BY <1>1, <1>2, WorkFields DEF RecordTypes, MessageTypes, StatusNames
<1>5. RecordsAgree' /\ RecordsMove
  BY <1>1, <1>2 DEF RecordsAgree, Unpayable, RecordTypes, RecordsMove, Reconcilable
<1>6. MessagesAgree'
  BY <1>1, <1>2, WorkFields
     DEF MessagesAgree, MessageTypes, RecordTypes, FulfilTopic, RestoreTopic
<1>7. LocksHold({w})
  <2>1. \A u \in Workers : work[u].at \in UnderOrderLock =>
          work[u].order \in Orders /\ work[u].order # o
    BY <1>1, <1>2 DEF Locked, WorkersAgree, WorkerAgrees, UnderOrderLock
  <2>2. QED
    BY <1>1, <1>2, <2>1 DEF LocksHold, RecordTypes
<1>8. WorkerAgrees(w)' /\ LockWasFree(w)
  <2>1. status'[o] = "refunded"
    BY <1>1, <1>2 DEF RecordTypes
  <2>2. QED
    BY <1>3, <2>1 DEF WorkerAgrees, LockWasFree, UnderOrderLock, FulfilTopic, RestoreTopic
<1>9. QED
  BY <1>3, <1>4, <1>5, <1>6, <1>7, <1>8, WorkerKeepsRecords DEF RecordsFit

\* The other steps that begin something.
LEMMA StartKeepsRecords ==
  ASSUME RecordsInv, NEW w \in Workers, NEW o \in Orders,
         \/ CancelBegins(w, o) \/ ReconcileBegins(w, o)
         \/ \E t \in Topics : Claim(w, t, o)
  PROVE  RecordsInv' /\ RecordsMove
<1>1. RecordTypes /\ MessageTypes /\ WorkTypes /\ RecordsAgree /\ WorkersAgree /\ MessagesAgree
  BY DEF RecordsInv
<1>2. UNCHANGED <<checkout, records, message, crashes>>
  BY DEF CancelBegins, ReconcileBegins, Claim, outbox
<1>3. UNCHANGED <<checkout, status, payment, receipt, message, crashes>>
  BY <1>2 DEF records
<1>4. CASE CancelBegins(w, o)
  <2>1. /\ Begin(w, o, "cancel", "none", 0) /\ UNCHANGED attempts
        /\ status[o] = "pending" /\ ~Locked(o)
    BY <1>4 DEF CancelBegins, outbox
  <2>2. /\ WorkTypes' /\ Alone(w)
        /\ work'[w].at = "cancel" /\ work'[w].order = o /\ work'[w].topic = "none"
    BY <1>1, <2>1, WorkFields, FulfillmentAssumption, Beginning
  <2>3. WorkerAgrees(w)' /\ LockWasFree(w)
    BY <1>3, <2>1, <2>2 DEF WorkerAgrees, LockWasFree, FulfilTopic, RestoreTopic
  <2>4. QED
    BY <1>1, <1>2, <2>1, <2>2, <2>3, RecordsRest, WorkerKeepsRecords DEF MessageTypes
<1>5. CASE ReconcileBegins(w, o)
  <2>1. /\ Begin(w, o, "reconcile", "none", 0) /\ UNCHANGED attempts
        /\ receipt[o] = "unknown"
    BY <1>5 DEF ReconcileBegins, outbox
  <2>2. /\ WorkTypes' /\ Alone(w)
        /\ work'[w].at = "reconcile" /\ work'[w].order = o /\ work'[w].topic = "none"
    BY <1>1, <2>1, WorkFields, FulfillmentAssumption, Beginning
  <2>3. Unpayable(o)
    BY <1>1, <2>1 DEF RecordsAgree
  <2>4. WorkerAgrees(w)' /\ LockWasFree(w)
    BY <1>3, <2>1, <2>2, <2>3
       DEF WorkerAgrees, LockWasFree, Unpayable, UnderOrderLock, FulfilTopic, RestoreTopic
  <2>5. QED
    BY <1>1, <1>2, <2>1, <2>2, <2>4, RecordsRest, WorkerKeepsRecords DEF MessageTypes
<1>6. ASSUME NEW t \in Topics, Claim(w, t, o) PROVE RecordsInv' /\ RecordsMove
  <2> DEFINE nth == IF attempts[t][o] < MaxAttempts THEN attempts[t][o] + 1 ELSE MaxAttempts
  <2>1. /\ message[t][o] = "pending"
        /\ attempts' = [attempts EXCEPT ![t][o] = nth]
        /\ Begin(w, o, FirstStep[t], t, nth)
    BY <1>6 DEF Claim
  <2>2. nth \in 0..MaxAttempts
    BY <1>1, FulfillmentAssumption DEF MessageTypes
  <2>3. /\ FirstStep[t] \in Steps
        /\ t = FulfilTopic => FirstStep[t] = "fulfil"
        /\ t = RestoreTopic => FirstStep[t] = "release"
    BY WorkFields DEF FirstStep, FulfilTopic, RestoreTopic
  <2>4. attempts' \in [Topics -> [Orders -> 0..MaxAttempts]]
    BY <1>1, <2>1, <2>2 DEF MessageTypes
  <2> HIDE DEF nth
  <2>5. /\ WorkTypes' /\ Alone(w)
        /\ work'[w].at = FirstStep[t] /\ work'[w].order = o /\ work'[w].topic = t
    BY <1>1, <2>1, <2>2, <2>3, Beginning
  <2>6. /\ t = FulfilTopic => payment[o] = "paid"
        /\ t = RestoreTopic => status[o] = "refunded"
    BY <1>1, <2>1 DEF MessagesAgree
  <2>7. WorkerAgrees(w)' /\ LockWasFree(w)
    BY <1>3, <2>3, <2>5, <2>6, WorkFields
       DEF WorkerAgrees, LockWasFree, UnderOrderLock, FulfilTopic, RestoreTopic
  <2>8. QED
    BY <1>2, <2>4, <2>5, <2>7, RecordsRest, WorkerKeepsRecords
<1>7. QED
  BY <1>4, <1>5, <1>6

\* Steps that neither touch the records nor take a lock.
LEMMA QuietStepKeepsRecords ==
  ASSUME RecordsInv, NEW w \in Workers, WorkTypes', Alone(w),
         UNCHANGED <<checkout, records, message, attempts, crashes>>,
         WorkerAgrees(w)', LockWasFree(w)
  PROVE  RecordsInv' /\ RecordsMove
<1>1. attempts' \in [Topics -> [Orders -> 0..MaxAttempts]]
  BY DEF RecordsInv, MessageTypes
<1>2. QED
  BY <1>1, RecordsRest, WorkerKeepsRecords

\* Nothing is asked of a worker that is idle or has failed.
LEMMA RestingAgrees ==
  ASSUME RecordsInv, NEW w \in Workers, Alone(w),
         UNCHANGED <<status, payment>>,
         \/ work'[w].at = "idle" /\ work'[w].topic = "none"
         \/ /\ work'[w].at = "failed" /\ work'[w].order = work[w].order
            /\ work'[w].topic = work[w].topic /\ work[w].at \in Delivering
  PROVE  WorkerAgrees(w)' /\ LockWasFree(w)
<1>1. WorkerAgrees(w)
  BY DEF RecordsInv, WorkersAgree
<1>2. QED
  BY <1>1, WorkFields
     DEF WorkerAgrees, LockWasFree, UnderOrderLock, Delivering, FulfilTopic, RestoreTopic

\* A worker goes on with the same order.
LEMMA GoingOnAgrees ==
  ASSUME RecordsInv, NEW w \in Workers, UNCHANGED <<checkout, records>>,
         work'[w].order = work[w].order, work'[w].topic = work[w].topic,
         \/ work[w].at = "fulfil" /\ work'[w].at = "retire"
         \/ /\ work[w].at = "fulfil" /\ work'[w].at = "commit"
            /\ status[work[w].order] = "paid" /\ ~Locked(work[w].order)
         \/ work[w].at \in {"commit", "cover", "sell"} /\ work'[w].at \in {"cover", "sell"}
         \/ work[w].at = "release" /\ work'[w].at = "restore"
         \/ work[w].at = "restore" /\ work'[w].at = "retire"
         \/ work[w].at = "reconcile" /\ work'[w].at = "settle"
  PROVE  WorkerAgrees(w)' /\ LockWasFree(w)
<1>1. WorkerAgrees(w)
  BY DEF RecordsInv, WorkersAgree
<1>2. UNCHANGED <<checkout, status, payment, receipt>>
  BY DEF records
<1>3. LockWasFree(w)
  BY DEF LockWasFree, UnderOrderLock
<1>4. WorkerAgrees(w)'
  BY <1>1, <1>2, WorkFields DEF WorkerAgrees, Unpayable, FulfilTopic, RestoreTopic
<1>5. QED
  BY <1>3, <1>4

\* The end of a cancellation.
LEMMA CancelKeepsRecords ==
  ASSUME RecordsInv, NEW w \in Workers, CancelCommits(w)
  PROVE  RecordsInv' /\ RecordsMove
<1> DEFINE o == work[w].order
<1>1. /\ RecordTypes /\ MessageTypes /\ WorkTypes /\ RecordsAgree /\ WorkersAgree /\ MessagesAgree
      /\ OneHolder
  BY DEF RecordsInv
<1>2. /\ UNCHANGED <<checkout, payment, message, attempts, crashes>>
      /\ status' = [status EXCEPT ![o] = "cancelled"]
      /\ receipt' = [receipt EXCEPT ![o] = IF @ = "active" THEN "released" ELSE @]
      /\ work' = [work EXCEPT ![w] = Idle] /\ work[w].at = "cancel"
  BY DEF CancelCommits, outbox
<1>3. o \in Orders /\ status[o] = "pending"
  BY <1>1, <1>2 DEF WorkersAgree, WorkerAgrees
<1>4. /\ WorkTypes' /\ Alone(w) /\ work'[w].at = "idle" /\ work'[w].topic = "none"
  BY <1>1, <1>2, Ending
<1>5. \A u \in Workers \ {w} : work[u].at \in UnderOrderLock =>
        work[u].order \in Orders /\ work[u].order # o
  BY <1>1, <1>2 DEF OneHolder, WorkersAgree, WorkerAgrees, UnderOrderLock
<1> HIDE DEF o
<1>6. RecordTypes' /\ MessageTypes'
  BY <1>1, <1>2, <1>3 DEF RecordTypes, MessageTypes, StatusNames, ReceiptNames
<1>7. payment[o] # "paid" /\ receipt[o] # "none"
  BY <1>1, <1>3 DEF RecordsAgree, RecordTypes
<1>8. RecordsAgree' /\ MessagesAgree' /\ RecordsMove
  BY <1>1, <1>2, <1>3, <1>7
     DEF RecordsAgree, Unpayable, RecordTypes, MessagesAgree, RecordsMove, Reconcilable
<1>9. LocksHold({w})
  BY <1>1, <1>2, <1>3, <1>5 DEF LocksHold, RecordTypes
<1>10. WorkerAgrees(w)' /\ LockWasFree(w)
  BY <1>4 DEF WorkerAgrees, LockWasFree, UnderOrderLock, FulfilTopic, RestoreTopic
<1>11. QED
  BY <1>4, <1>6, <1>8, <1>9, <1>10, WorkerKeepsRecords DEF RecordsFit

\* The receipt is settled, by a delivery or by the reconciliation.
LEMMA SettlingKeepsRecords ==
  ASSUME RecordsInv, NEW w \in Workers, FinishFulfilment(w) \/ ReconcileSettles(w)
  PROVE  RecordsInv' /\ RecordsMove
<1> DEFINE o == work[w].order
<1>1. RecordTypes /\ MessageTypes /\ WorkTypes /\ RecordsAgree /\ WorkersAgree /\ MessagesAgree
  BY DEF RecordsInv
<1>2. UNCHANGED <<checkout, status, payment, message, attempts, crashes>>
  BY DEF FinishFulfilment, ReconcileSettles, outbox
<1>3. o \in Orders /\ WorkerAgrees(w)
  BY <1>1 DEF FinishFulfilment, ReconcileSettles, WorkersAgree, WorkerAgrees
<1>4. \/ receipt' = [receipt EXCEPT ![o] = "committed"]
      \/ receipt[o] # "active" /\ receipt' = receipt
  BY <1>1, <1>3 DEF FinishFulfilment, ReconcileSettles, RecordTypes
<1>5. receipt' # receipt =>
        (status[o] = "paid" /\ receipt[o] \in {"active", "committed"}) \/ Reconcilable(o)
  BY <1>1, <1>3 DEF FinishFulfilment, ReconcileSettles, WorkersAgree, WorkerAgrees, RecordsAgree,
                   RecordTypes, Reconcilable
<1>6. /\ WorkTypes' /\ Alone(w)
      /\ \/ work'[w].at = "idle" /\ work'[w].topic = "none"
         \/ /\ work'[w].at = "retire" /\ work'[w].order = o
            /\ work'[w].topic = FulfilTopic /\ work[w].topic = FulfilTopic
  <2>1. CASE FinishFulfilment(w)
    BY <1>1, <1>3, <2>1, Going, WorkFields DEF FinishFulfilment, WorkerAgrees, TurnsInto
  <2>2. CASE ReconcileSettles(w)
    BY <1>1, <2>2, Ending DEF ReconcileSettles
  <2>3. QED
    BY <2>1, <2>2
<1>7. WorkerAgrees(w)' /\ LockWasFree(w)
  BY <1>2, <1>3, <1>6, WorkFields
     DEF WorkerAgrees, LockWasFree, UnderOrderLock, FulfilTopic, RestoreTopic
<1> HIDE DEF o
<1>8. RecordTypes' /\ MessageTypes'
  BY <1>1, <1>2, <1>3, <1>4 DEF RecordTypes, MessageTypes, ReceiptNames
<1>9. RecordsAgree' /\ MessagesAgree' /\ RecordsMove
  <2>1. CASE receipt' = receipt
    BY <1>1, <1>2, <2>1
       DEF RecordsAgree, Unpayable, MessagesAgree, RecordsMove, Reconcilable
  <2>2. CASE receipt' = [receipt EXCEPT ![o] = "committed"] /\ Reconcilable(o)
    BY <1>1, <1>2, <1>3, <2>2
       DEF RecordsAgree, Unpayable, RecordTypes, MessagesAgree, RecordsMove, Reconcilable
  <2>3. CASE receipt' = [receipt EXCEPT ![o] = "committed"] /\ status[o] = "paid"
    BY <1>1, <1>2, <1>3, <2>3
       DEF RecordsAgree, Unpayable, RecordTypes, MessagesAgree, RecordsMove, Reconcilable
  <2>4. QED
    BY <1>4, <1>5, <2>1, <2>2, <2>3
<1>10. LocksHold({w})
  BY <1>2 DEF LocksHold
<1>11. QED
  BY <1>6, <1>7, <1>8, <1>9, <1>10, WorkerKeepsRecords DEF RecordsFit

\* The end of a message's delivery.
LEMMA RecordingKeepsRecords ==
  ASSUME RecordsInv, NEW w \in Workers, RecordFailure(w) \/ Retire(w)
  PROVE  RecordsInv' /\ RecordsMove
<1> DEFINE o == work[w].order
           t == work[w].topic
<1>1. RecordTypes /\ MessageTypes /\ WorkTypes /\ RecordsAgree /\ WorkersAgree /\ MessagesAgree
  BY DEF RecordsInv
<1>2. /\ UNCHANGED <<checkout, status, payment, receipt, attempts, crashes>>
      /\ work' = [work EXCEPT ![w] = Idle]
  BY DEF RecordFailure, Retire, records
<1>3. o \in Orders /\ t \in Topics /\ WorkerAgrees(w)
  BY <1>1 DEF RecordFailure, Retire, WorkersAgree, WorkerAgrees
<1>4. \/ UNCHANGED message
      \/ \E mark \in {"sent", "dead"} : message' = [message EXCEPT ![t][o] = mark]
  BY DEF RecordFailure, Retire
<1>5. /\ WorkTypes' /\ Alone(w) /\ work'[w].at = "idle" /\ work'[w].topic = "none"
  BY <1>1, <1>2, Ending
<1>6. /\ t = FulfilTopic => payment[o] = "paid"
      /\ t = RestoreTopic => status[o] = "refunded"
  BY <1>3 DEF WorkerAgrees
<1> HIDE DEF o, t
<1>7. RecordTypes' /\ MessageTypes'
  <2>1. message' \in [Topics -> [Orders -> {"none", "pending", "sent", "dead"}]]
    <3>1. ASSUME NEW mark \in {"sent", "dead"}, message' = [message EXCEPT ![t][o] = mark]
          PROVE  message' \in [Topics -> [Orders -> {"none", "pending", "sent", "dead"}]]
      BY <1>1, <1>3, <3>1 DEF MessageTypes
    <3>2. QED
      BY <1>1, <1>4, <3>1 DEF MessageTypes
  <2>2. QED
    BY <1>1, <1>2, <2>1 DEF RecordTypes, MessageTypes
<1>8. MessagesAgree'
  BY <1>1, <1>2, <1>3, <1>4, <1>6, WorkFields DEF MessagesAgree, MessageTypes
<1>9. RecordsAgree' /\ RecordsMove /\ LocksHold({w})
  BY <1>1, <1>2 DEF RecordsAgree, Unpayable, RecordsMove, Reconcilable, LocksHold
<1>10. WorkerAgrees(w)' /\ LockWasFree(w)
  BY <1>5 DEF WorkerAgrees, LockWasFree, UnderOrderLock, FulfilTopic, RestoreTopic
<1>11. QED
  BY <1>5, <1>7, <1>8, <1>9, <1>10, WorkerKeepsRecords DEF RecordsFit

\* A worker's step, whichever it is.
LEMMA WorkerStepKeepsRecords ==
  ASSUME RecordsInv, NEW w \in Workers, WorkerStep(w)
  PROVE  RecordsInv' /\ RecordsMove
<1> DEFINE Goal == RecordsInv' /\ RecordsMove
<1>1. MessageTypes /\ WorkTypes /\ WorkerAgrees(w)
  BY DEF RecordsInv, WorkersAgree
<1>2. work[w] \in WorkRecord
  BY <1>1 DEF WorkTypes
<1>3. CASE CancelReleases(w) \/ ReleaseCart(w)
  <2>1. UNCHANGED <<checkout, records, message, attempts, work, crashes>>
    BY <1>3 DEF CancelReleases, ReleaseCart, outbox
  <2>2. attempts' \in [Topics -> [Orders -> 0..MaxAttempts]]
    BY <1>1, <2>1 DEF MessageTypes
  <2>3. QED
    BY <2>1, <2>2, RecordsRest, NobodyKeepsRecords
<1>4. CASE CancelCommits(w)
  BY <1>4, CancelKeepsRecords
<1>5. CASE CancelFails(w)
  <2>1. /\ UNCHANGED <<checkout, records, message, attempts, crashes>>
        /\ work' = [work EXCEPT ![w] = Idle] /\ UNCHANGED <<status, payment>>
    BY <1>5 DEF CancelFails, outbox, records
  <2>2. QED
    BY <1>1, <2>1, Ending, RestingAgrees, QuietStepKeepsRecords
<1>6. CASE LockOrder(w)
  <2>1. /\ UNCHANGED <<checkout, records, message, attempts, crashes>>
        /\ work[w].at = "fulfil" /\ ~Locked(work[w].order)
    BY <1>6 DEF LockOrder, outbox
  <2>2. CASE Goto(w, "retire")
    <3>1. TurnsInto(w, "retire", work[w].short, work[w].line)
      BY <1>1, <2>2, WorkFields, Going
    <3>2. QED
      BY <2>1, <3>1, GoingOnAgrees, QuietStepKeepsRecords DEF TurnsInto
  <2>3. CASE status[work[w].order] = "paid" /\ Goto(w, "commit")
    <3>1. TurnsInto(w, "commit", work[w].short, work[w].line)
      BY <1>1, <2>3, WorkFields, Going
    <3>2. QED
      BY <2>1, <2>3, <3>1, GoingOnAgrees, QuietStepKeepsRecords DEF TurnsInto
  <2>4. QED
    BY <1>6, <2>2, <2>3 DEF LockOrder
<1>7. CASE CommitCart(w)
  <2>1. UNCHANGED <<checkout, records, message, attempts, crashes>> /\ work[w].at = "commit"
    BY <1>7 DEF CommitCart, outbox
  <2>2. TurnsInto(w, "cover", ShortLines(work[w].order), work[w].line)
    BY <1>1, <1>7, NotingSteps
  <2>3. QED
    BY <2>1, <2>2, GoingOnAgrees, QuietStepKeepsRecords DEF TurnsInto
<1>8. ASSUME NEW v \in Variants, ReserveReplacement(w, v) PROVE Goal
  <2>1. UNCHANGED <<checkout, records, message, attempts, crashes>> /\ work[w].at = "cover"
    BY <1>8 DEF ReserveReplacement, outbox
  <2>2. TurnsInto(w, "sell", work[w].short, v)
    BY <1>1, <1>8, NotingSteps
  <2>3. QED
    BY <2>1, <2>2, GoingOnAgrees, QuietStepKeepsRecords DEF TurnsInto
<1>9. CASE SellReplacement(w)
  <2>1. UNCHANGED <<checkout, records, message, attempts, crashes>> /\ work[w].at = "sell"
    BY <1>9 DEF SellReplacement, outbox
  <2>2. TurnsInto(w, "cover", work[w].short \ {work[w].line}, NoLine)
    BY <1>1, <1>9, NotingSteps
  <2>3. QED
    BY <2>1, <2>2, GoingOnAgrees, QuietStepKeepsRecords DEF TurnsInto
<1>10. CASE FinishFulfilment(w) \/ ReconcileSettles(w)
  BY <1>10, SettlingKeepsRecords
<1>11. ASSUME NEW from, NEW to, work[w].at = from, Goto(w, to),
              <<from, to>> \in {<<"release", "restore">>, <<"restore", "retire">>,
                                <<"reconcile", "settle">>},
              UNCHANGED <<checkout, records, message, attempts, crashes>>
       PROVE  Goal
  <2>1. TurnsInto(w, to, work[w].short, work[w].line)
    BY <1>1, <1>11, WorkFields, Going
  <2>2. QED
    BY <1>11, <2>1, GoingOnAgrees, QuietStepKeepsRecords DEF TurnsInto
<1>12. CASE CartReleased(w)
  BY <1>11, <1>12 DEF CartReleased, outbox
<1>13. CASE RestoreStock(w)
  BY <1>11, <1>13 DEF RestoreStock, outbox
<1>14. CASE ReconcileCommits(w)
  BY <1>11, <1>14 DEF ReconcileCommits, outbox
<1>15. CASE DeliveryFails(w)
  <2>1. /\ UNCHANGED <<checkout, records, message, attempts, crashes>>
        /\ UNCHANGED <<status, payment>>
        /\ work[w].at \in Delivering /\ Goto(w, "failed")
    BY <1>15 DEF DeliveryFails, outbox, records
  <2>2. TurnsInto(w, "failed", work[w].short, work[w].line)
    BY <1>1, <2>1, WorkFields, Going
  <2>3. QED
    BY <2>1, <2>2, RestingAgrees, QuietStepKeepsRecords DEF TurnsInto
<1>16. CASE RecordFailure(w) \/ Retire(w)
  BY <1>16, RecordingKeepsRecords
<1>17. QED
  BY <1>3, <1>4, <1>5, <1>6, <1>7, <1>8, <1>9, <1>10, <1>12, <1>13, <1>14, <1>15, <1>16
     DEF WorkerStep

\* Whatever happens, the records fit together.
LEMMA RecordsInductive ==
  ASSUME RecordsInv, [SagaNext]_sagaVars
  PROVE  RecordsInv' /\ RecordsMove
<1> DEFINE Goal == RecordsInv' /\ RecordsMove
<1>1. MessageTypes /\ WorkTypes
  BY DEF RecordsInv
<1>2. ASSUME NEW w \in Workers, Crash(w) PROVE Goal
  <2>1. /\ UNCHANGED <<checkout, status, payment, receipt, message, attempts>>
        /\ work' = [work EXCEPT ![w] = Idle]
        /\ crashes' = crashes + 1 /\ crashes < MaxCrashes
    BY <1>2 DEF Crash, outbox, records
  <2>2. WorkTypes' /\ Alone(w) /\ WorkerAgrees(w)' /\ LockWasFree(w)
    BY <1>1, <2>1, Ending, RestingAgrees
  <2>3. MessageTypes'
    BY <1>1, <2>1, FulfillmentAssumption DEF MessageTypes
  <2>4. RecordTypes' /\ RecordsAgree' /\ MessagesAgree' /\ RecordsMove /\ LocksHold({w})
    BY <2>1 DEF RecordsInv, RecordTypes, RecordsAgree, MessagesAgree, Unpayable, RecordsMove,
                Reconcilable, LocksHold
  <2>5. QED
    BY <2>2, <2>3, <2>4, WorkerKeepsRecords DEF RecordsFit
<1>3. ASSUME UNCHANGED <<checkout, records, outbox, work, crashes>> PROVE Goal
  <2>1. UNCHANGED <<checkout, records, message, attempts, work, crashes>>
    BY <1>3 DEF outbox
  <2>2. attempts' \in [Topics -> [Orders -> 0..MaxAttempts]]
    BY <1>1, <2>1 DEF MessageTypes
  <2>3. QED
    BY <2>1, <2>2, RecordsRest, NobodyKeepsRecords
<1>4. CASE Elsewhere
  BY <1>3, <1>4 DEF Elsewhere
<1>5. CASE UNCHANGED sagaVars
  BY <1>3, <1>5 DEF sagaVars
<1>6. QED
  BY <1>2, <1>4, <1>5, CheckoutKeepsRecords, FailureKeepsRecords, PaymentKeepsRecords,
     RefundKeepsRecords, StartKeepsRecords, WorkerStepKeepsRecords
     DEF SagaNext

\* Nothing has happened yet.
LEMMA RecordsInitially == SagaInit => RecordsInv
<1> SUFFICES ASSUME SagaInit PROVE RecordsInv
  OBVIOUS
<1>1. RecordTypes /\ MessageTypes
  BY FulfillmentAssumption
     DEF SagaInit, RecordTypes, MessageTypes, CheckoutSteps, StatusNames, PaymentNames,
         ReceiptNames
<1>2. WorkTypes /\ \A w \in Workers : work[w].at = "idle" /\ work[w].topic = "none"
  BY WorkFields DEF SagaInit, WorkTypes
<1>3. RecordsAgree /\ MessagesAgree
  BY WorkFields DEF SagaInit, RecordsAgree, MessagesAgree, Unpayable
<1>4. WorkersAgree /\ OneHolder
  BY <1>2 DEF WorkersAgree, WorkerAgrees, OneHolder, UnderOrderLock, FulfilTopic, RestoreTopic
<1>5. QED
  BY <1>1, <1>2, <1>3, <1>4 DEF RecordsInv

LEMMA RecordsHold == SagaSpec => []RecordsInv
<1>1. RecordsInv /\ [SagaNext]_sagaVars => RecordsInv'
  BY RecordsInductive
<1>2. QED
  BY <1>1, RecordsInitially, PTL DEF SagaSpec

-----------------------------------------------------------------------------
(* The rows of an order *)

Ended == {"released", "expired"}

\* An id nobody reserved has no rows.
NoRowsUnclaimed ==
  \A c \in Checkouts, v \in Variants : claim[c] = NoCart => hold[c][v] = NoRow

\* A cart is reserved with the order's lines, and sold to a payment or to the
\* reconciliation of a receipt that was lost.
CartRows ==
  \A o \in Orders :
    /\ checkout[o] # "new" => claim[CartOf[o]] # NoCart
    /\ claim[CartOf[o]] # NoCart => \A v \in Variants :
         /\ hold[CartOf[o]][v].qty = OrderLines[o][v]
         /\ OrderLines[o][v] > 0 => hold[CartOf[o]][v].status # "none"
    /\ checkout[o] = "released" \/ receipt[o] = "released" => ActiveLines(CartOf[o]) = {}
    /\ \A v \in Variants : hold[CartOf[o]][v].status = "committed" =>
         payment[o] = "paid" \/ receipt[o] \in {"unknown", "committed"}

\* A replacement is the whole of a line of a paid order whose cart's row is lost.
SpareRows ==
  \A o \in Orders, v \in Variants : claim[SpareOf[o][v]] # NoCart =>
    /\ payment[o] = "paid" /\ OrderLines[o][v] > 0
    /\ hold[CartOf[o]][v].status \in Ended
    /\ hold[SpareOf[o][v]][v].qty = OrderLines[o][v]
    /\ hold[SpareOf[o][v]][v].status \in {"active", "committed", "expired"}
    /\ \A w \in Variants \ {v} : hold[SpareOf[o][v]][w] = NoRow

\* A line is sold whole, and by one of its two rows.
LineSold(o, v) ==
  \/ hold[CartOf[o]][v].status = "committed"
  \/ hold[SpareOf[o][v]][v].status = "committed"
SoldWhole ==
  \A o \in Orders, v \in Variants :
    sold[o][v] = IF LineSold(o, v) THEN OrderLines[o][v] ELSE 0

RowsInv == NoRowsUnclaimed /\ CartRows /\ SpareRows /\ SoldWhole

-----------------------------------------------------------------------------
(* What deliveries have done *)

\* Nothing more can be done for line v of o.
LineDone(o, v) ==
  sold[o][v] = OrderLines[o][v] \/ hold[SpareOf[o][v]][v].status = "expired"

\* What a delivery knows at its step stays so until it ends.
WorkerDelivers(w) ==
  /\ work[w].at \in {"cover", "sell"} =>
       /\ ActiveLines(CartOf[work[w].order]) = {}
       /\ \A v \in work[w].short :
            /\ OrderLines[work[w].order][v] > 0
            /\ hold[CartOf[work[w].order]][v].status \in Ended
       /\ \A v \in Variants : v \notin work[w].short => LineDone(work[w].order, v)
  /\ work[w].at = "sell" =>
       /\ work[w].line \in work[w].short
       /\ claim[SpareOf[work[w].order][work[w].line]] # NoCart
  /\ work[w].at = "retire" /\ work[w].topic = FulfilTopic =>
       status[work[w].order] = "refunded" \/ \A v \in Variants : LineDone(work[w].order, v)
  /\ work[w].at = "retire" /\ work[w].topic = RestoreTopic => refund[work[w].order] # NoCart
DeliveriesAgree == \A w \in Workers : WorkerDelivers(w)

\* So do retired messages; a refund gave back all there was.
RetiredAgree ==
  \A o \in Orders :
    /\ message[FulfilTopic][o] = "sent" =>
         status[o] = "refunded" \/ \A v \in Variants : LineDone(o, v)
    /\ message[RestoreTopic][o] = "sent" => refund[o] # NoCart
    /\ refund[o] # NoCart =>
         status[o] = "refunded" /\ \A v \in Variants : returned[o][v] = sold[o][v]

DeliveryInv == DeliveriesAgree /\ RetiredAgree

-----------------------------------------------------------------------------
(* What the ledger's operations do to rows, keys and sales *)

\* A cart is held under a key of its own.
Placed(c, cart) ==
  /\ claim[c] = NoCart /\ claim'[c] = cart
  /\ \A v \in Variants : hold'[c][v] = IF cart[v] > 0 THEN NewRow(cart[v]) ELSE NoRow
  /\ \A d \in Checkouts : d # c => hold'[d] = hold[d] /\ claim'[d] = claim[d]
  /\ UNCHANGED <<sold, returned, refund>>

\* The ACTIVE rows of a checkout are sold to an order.
SoldTo(c, o) ==
  /\ \A v \in Variants :
       /\ ~IsActive(c, v) => hold'[c][v] = hold[c][v]
       /\ IsActive(c, v) => hold'[c][v] = EndedRow(hold[c][v], "committed", o)
       /\ sold'[o][v] = sold[o][v] + (IF IsActive(c, v) THEN hold[c][v].qty ELSE 0)
  /\ \A d \in Checkouts : d # c => hold'[d] = hold[d]
  /\ \A p \in Orders : p # o => sold'[p] = sold[p]
  /\ UNCHANGED <<claim, returned, refund>>

\* An ACTIVE row ends unsold.
EndedAs(c, v, ending) ==
  /\ IsActive(c, v)
  /\ hold'[c][v] = EndedRow(hold[c][v], ending, NoOrder)
  /\ \A w \in Variants : w # v => hold'[c][w] = hold[c][w]
  /\ \A d \in Checkouts : d # c => hold'[d] = hold[d]
  /\ UNCHANGED <<claim, sold, returned, refund>>

LEMMA ReserveDoes ==
  ASSUME TypeOK, NEW c \in Checkouts, NEW cart \in Carts, ReserveLines(c, cart)
  PROVE  Placed(c, cart)
BY DEF ReserveLines, PlaceRows, Placed, TypeOK, movements

LEMMA CommitDoes ==
  ASSUME TypeOK, NEW c \in Checkouts, NEW o \in Orders, CommitHolds(c, o)
  PROVE  SoldTo(c, o)
<1>1. /\ hold' = [hold EXCEPT ![c] = [v \in Variants |->
           IF v \in ActiveLines(c) THEN EndedRow(hold[c][v], "committed", o) ELSE hold[c][v]]]
      /\ sold' = [sold EXCEPT ![o] = [v \in Variants |->
           sold[o][v] + (IF v \in ActiveLines(c) THEN hold[c][v].qty ELSE 0)]]
      /\ UNCHANGED <<claim, returned, refund>>
  BY DEF CommitHolds, SellRows, keys
<1>2. \A v \in Variants : v \in ActiveLines(c) <=> IsActive(c, v)
  BY DEF ActiveLines
<1>3. /\ \A v \in Variants : hold'[c][v] =
           IF IsActive(c, v) THEN EndedRow(hold[c][v], "committed", o) ELSE hold[c][v]
      /\ \A d \in Checkouts : d # c => hold'[d] = hold[d]
  BY <1>1, <1>2 DEF TypeOK
<1>4. /\ \A v \in Variants :
           sold'[o][v] = sold[o][v] + (IF IsActive(c, v) THEN hold[c][v].qty ELSE 0)
      /\ \A p \in Orders : p # o => sold'[p] = sold[p]
  BY <1>1, <1>2 DEF TypeOK
<1>5. QED
  BY <1>1, <1>3, <1>4 DEF SoldTo

LEMMA EndDoes ==
  ASSUME TypeOK, NEW c \in Checkouts, NEW v \in Variants, NEW ending, IsActive(c, v),
         EndRow(c, v, ending)
  PROVE  EndedAs(c, v, ending)
BY DEF EndRow, EndedAs, TypeOK, keys, movements

\* No two orders share an id, and a replacement's is no cart's.
LEMMA IdsDiffer ==
  /\ \A o \in Orders : OrderLines[o] \in Carts /\ CartOf[o] \in Checkouts
  /\ \A o \in Orders, v \in Variants :
       /\ SpareOf[o][v] \in Checkouts
       /\ OrderLines[o][v] \in Nat /\ OrderLines[o][v] \in 0..MaxLine
  /\ \A o, p \in Orders, v \in Variants : CartOf[o] # SpareOf[p][v]
  /\ \A o, p \in Orders : CartOf[o] = CartOf[p] => o = p
  /\ \A o, p \in Orders, v, w \in Variants : SpareOf[o][v] = SpareOf[p][w] => o = p /\ v = w
<1>1. \A o \in Orders : OrderLines[o] \in Carts /\ CartOf[o] \in Checkouts
  BY FulfillmentAssumption
<1>2. \A o \in Orders, v \in Variants : OrderLines[o][v] \in Nat /\ OrderLines[o][v] \in 0..MaxLine
  BY <1>1, CartLine
<1>3. \A o, p \in Orders : CartOf[o] = CartOf[p] => o = p
  <2>1. \A o \in Orders : \E v \in Variants : TRUE
    BY <1>1 DEF Carts
  <2>2. QED
    BY <2>1, FulfillmentAssumption
<1>4. QED
  BY <1>1, <1>2, <1>3, FulfillmentAssumption

-----------------------------------------------------------------------------
(* The rows of orders, through the ledger's operations *)

\* A row that is not ACTIVE, under a key that is claimed, is final.
RowsMove ==
  \A c \in Checkouts : claim[c] # NoCart =>
    claim'[c] # NoCart /\ \A v \in Variants : ~IsActive(c, v) => hold'[c][v] = hold[c][v]

\* What there is to know of the rows the operations write.
LEMMA RowStates ==
  /\ NoRow.status = "none" /\ NoRow.qty = 0
  /\ \A n : NewRow(n).status = "active" /\ NewRow(n).qty = n /\ NewRow(n) # NoRow
  /\ \A row, ending, o : EndedRow(row, ending, o).status = ending
                         /\ EndedRow(row, ending, o).qty = row.qty
  /\ Ended = {"released", "expired"}
  /\ \A cart \in Carts : cart # NoCart
<1>1. \A cart \in Carts : cart # NoCart
  BY LedgerAssumption DEF Carts
<1>2. \A n : NewRow(n) # NoRow
  BY RowFields
<1>3. QED
  BY <1>1, <1>2, RowFields DEF Ended

\* The cart of a new order.
LEMMA CartPlaced ==
  ASSUME RecordsInv, RowsInv, NEW o \in Orders, Placed(CartOf[o], OrderLines[o]),
         checkout[o] = "new", checkout'[o] = "held",
         \A p \in Orders : p # o => checkout'[p] = checkout[p],
         UNCHANGED <<payment, receipt>>
  PROVE  RowsInv' /\ RowsMove
<1> DEFINE c == CartOf[o]
<1>1. NoRowsUnclaimed /\ CartRows /\ SpareRows /\ SoldWhole
  BY DEF RowsInv
<1>2. /\ c \in Checkouts /\ claim[c] = NoCart /\ claim'[c] = OrderLines[o]
      /\ OrderLines[o] # NoCart
      /\ \A v \in Variants : OrderLines[o][v] \in Nat
      /\ \A v \in Variants : hold[c][v] = NoRow
      /\ \A v \in Variants :
           hold'[c][v] = IF OrderLines[o][v] > 0 THEN NewRow(OrderLines[o][v]) ELSE NoRow
      /\ \A d \in Checkouts : d # c => hold'[d] = hold[d] /\ claim'[d] = claim[d]
      /\ UNCHANGED sold
  BY <1>1, IdsDiffer, RowStates DEF Placed, NoRowsUnclaimed
<1>3. \A v \in Variants : /\ hold'[c][v].qty = OrderLines[o][v]
                          /\ hold'[c][v].status \in {"none", "active"}
                          /\ OrderLines[o][v] > 0 => hold'[c][v].status # "none"
  BY <1>2, RowStates
<1>4. RowsMove /\ NoRowsUnclaimed'
  BY <1>1, <1>2 DEF RowsMove, NoRowsUnclaimed
<1>5. receipt[o] = "none"
  BY DEF RecordsInv, RecordsAgree
<1>6. CartRows'
  <2> SUFFICES ASSUME NEW p \in Orders
      PROVE  /\ checkout'[p] # "new" => claim'[CartOf[p]] # NoCart
             /\ claim'[CartOf[p]] # NoCart => \A v \in Variants :
                  /\ hold'[CartOf[p]][v].qty = OrderLines[p][v]
                  /\ OrderLines[p][v] > 0 => hold'[CartOf[p]][v].status # "none"
             /\ checkout'[p] = "released" \/ receipt'[p] = "released" =>
                  \A v \in Variants : hold'[CartOf[p]][v].status # "active"
             /\ \A v \in Variants : hold'[CartOf[p]][v].status = "committed" =>
                  payment'[p] = "paid" \/ receipt'[p] \in {"unknown", "committed"}
    BY DEF CartRows, ActiveLines, IsActive
  <2>1. CASE p = o
    BY <1>2, <1>3, <1>5, <2>1
  <2>2. CASE p # o
    <3>1. CartOf[p] # c /\ CartOf[p] \in Checkouts
      BY <2>2, IdsDiffer
    <3>2. hold'[CartOf[p]] = hold[CartOf[p]] /\ claim'[CartOf[p]] = claim[CartOf[p]]
      BY <1>2, <3>1
    <3>3. QED
      BY <1>1, <2>2, <3>2 DEF CartRows, ActiveLines, IsActive
  <2>3. QED
    BY <2>1, <2>2
<1>7. ASSUME NEW p \in Orders, NEW v \in Variants
      PROVE  /\ hold'[SpareOf[p][v]] = hold[SpareOf[p][v]]
             /\ claim'[SpareOf[p][v]] = claim[SpareOf[p][v]]
  BY <1>2, IdsDiffer
<1>8. ASSUME NEW p \in Orders, p # o PROVE hold'[CartOf[p]] = hold[CartOf[p]]
  BY <1>2, <1>8, IdsDiffer
<1>9. SpareRows'
  <2> SUFFICES ASSUME NEW p \in Orders, NEW v \in Variants, claim[SpareOf[p][v]] # NoCart
               PROVE  hold'[CartOf[p]] = hold[CartOf[p]]
    BY <1>1, <1>7 DEF SpareRows
  <2>1. hold[CartOf[p]][v].status \in Ended
    BY <1>1 DEF SpareRows
  <2>2. p # o
    BY <1>2, <2>1, RowStates
  <2>3. QED
    BY <1>8, <2>2
<1>10. SoldWhole'
  <2> SUFFICES ASSUME NEW p \in Orders, NEW v \in Variants
               PROVE  LineSold(p, v)' <=> LineSold(p, v)
    BY <1>1, <1>2 DEF SoldWhole
  <2>1. CASE p = o
    BY <1>2, <1>3, <1>7, <2>1, RowStates DEF LineSold
  <2>2. CASE p # o
    BY <1>7, <1>8, <2>2 DEF LineSold
  <2>3. QED
    BY <2>1, <2>2
<1>11. QED
  BY <1>4, <1>6, <1>9, <1>10 DEF RowsInv

\* The replacement of a line of a paid order.
LEMMA SparePlaced ==
  ASSUME RowsInv, NEW o \in Orders, NEW x \in Variants, NEW cart \in Carts,
         Placed(SpareOf[o][x], cart),
         \A v \in Variants : cart[v] = IF v = x THEN OrderLines[o][x] ELSE 0,
         OrderLines[o][x] > 0, payment[o] = "paid", hold[CartOf[o]][x].status \in Ended,
         UNCHANGED <<checkout, payment, receipt>>
  PROVE  RowsInv' /\ RowsMove
<1> DEFINE c == SpareOf[o][x]
<1>1. NoRowsUnclaimed /\ CartRows /\ SpareRows /\ SoldWhole
  BY DEF RowsInv
<1>2. /\ c \in Checkouts /\ claim[c] = NoCart /\ claim'[c] # NoCart
      /\ \A v \in Variants : hold[c][v] = NoRow
      /\ \A v \in Variants : hold'[c][v] = IF v = x THEN NewRow(OrderLines[o][x]) ELSE NoRow
      /\ \A d \in Checkouts : d # c => hold'[d] = hold[d] /\ claim'[d] = claim[d]
      /\ UNCHANGED sold
  BY <1>1, IdsDiffer, RowStates DEF Placed, NoRowsUnclaimed
<1>3. RowsMove /\ NoRowsUnclaimed'
  BY <1>1, <1>2 DEF RowsMove, NoRowsUnclaimed
<1>4. ASSUME NEW p \in Orders
      PROVE  hold'[CartOf[p]] = hold[CartOf[p]] /\ claim'[CartOf[p]] = claim[CartOf[p]]
  BY <1>2, IdsDiffer
<1>5. CartRows'
  BY <1>1, <1>4 DEF CartRows, ActiveLines, IsActive
<1>6. ASSUME NEW p \in Orders, NEW v \in Variants, p # o \/ v # x
      PROVE  /\ hold'[SpareOf[p][v]] = hold[SpareOf[p][v]]
             /\ claim'[SpareOf[p][v]] = claim[SpareOf[p][v]]
  BY <1>2, <1>6, IdsDiffer
<1>7. SpareRows'
  <2> SUFFICES ASSUME NEW p \in Orders, NEW v \in Variants, claim'[SpareOf[p][v]] # NoCart
      PROVE  /\ payment'[p] = "paid" /\ OrderLines[p][v] > 0
             /\ hold'[CartOf[p]][v].status \in Ended
             /\ hold'[SpareOf[p][v]][v].qty = OrderLines[p][v]
             /\ hold'[SpareOf[p][v]][v].status \in {"active", "committed", "expired"}
             /\ \A w \in Variants \ {v} : hold'[SpareOf[p][v]][w] = NoRow
    BY DEF SpareRows
  <2>1. CASE p = o /\ v = x
    BY <1>2, <1>4, <2>1, RowStates
  <2>2. CASE p # o \/ v # x
    BY <1>1, <1>4, <1>6, <2>2 DEF SpareRows
  <2>3. QED
    BY <2>1, <2>2
<1>8. SoldWhole'
  <2> SUFFICES ASSUME NEW p \in Orders, NEW v \in Variants
               PROVE  LineSold(p, v)' <=> LineSold(p, v)
    BY <1>1, <1>2 DEF SoldWhole
  <2>1. CASE p = o /\ v = x
    BY <1>2, <1>4, <2>1, RowStates DEF LineSold
  <2>2. CASE p # o \/ v # x
    BY <1>4, <1>6, <2>2 DEF LineSold
  <2>3. QED
    BY <2>1, <2>2
<1>9. QED
  BY <1>3, <1>5, <1>7, <1>8 DEF RowsInv

\* The cart is sold to its order, which is paid or reconciled.
LEMMA CartSold ==
  ASSUME TypeOK, RowsInv, NEW o \in Orders, SoldTo(CartOf[o], o), claim[CartOf[o]] # NoCart,
         payment[o] = "paid" \/ receipt[o] \in {"unknown", "committed"},
         UNCHANGED <<checkout, payment, receipt>>
  PROVE  RowsInv' /\ RowsMove
<1> DEFINE c == CartOf[o]
<1>1. NoRowsUnclaimed /\ CartRows /\ SpareRows /\ SoldWhole
  BY DEF RowsInv
<1>2. /\ c \in Checkouts
      /\ \A v \in Variants : IsActive(c, v) <=> hold[c][v].status = "active"
      /\ \A v \in Variants : ~IsActive(c, v) => hold'[c][v] = hold[c][v]
      /\ \A v \in Variants : IsActive(c, v) =>
           hold'[c][v].status = "committed" /\ hold'[c][v].qty = hold[c][v].qty
      /\ \A d \in Checkouts : d # c => hold'[d] = hold[d]
      /\ UNCHANGED claim
  BY IdsDiffer, RowStates DEF SoldTo, IsActive
<1>3. RowsMove /\ NoRowsUnclaimed'
  BY <1>1, <1>2, RowStates DEF RowsMove, NoRowsUnclaimed
<1>4. ASSUME NEW p \in Orders, p # o PROVE hold'[CartOf[p]] = hold[CartOf[p]]
  BY <1>2, <1>4, IdsDiffer
<1>5. CartRows'
  <2> SUFFICES ASSUME NEW p \in Orders
      PROVE  /\ checkout[p] # "new" => claim[CartOf[p]] # NoCart
             /\ claim[CartOf[p]] # NoCart => \A v \in Variants :
                  /\ hold'[CartOf[p]][v].qty = OrderLines[p][v]
                  /\ OrderLines[p][v] > 0 => hold'[CartOf[p]][v].status # "none"
             /\ checkout[p] = "released" \/ receipt[p] = "released" =>
                  \A v \in Variants : hold'[CartOf[p]][v].status # "active"
             /\ \A v \in Variants : hold'[CartOf[p]][v].status = "committed" =>
                  payment[p] = "paid" \/ receipt[p] \in {"unknown", "committed"}
    BY <1>2 DEF CartRows, ActiveLines, IsActive
  <2>1. CASE p = o
    <3>1. \A v \in Variants : /\ hold'[c][v].qty = hold[c][v].qty
                              /\ hold'[c][v].status # "active"
                              /\ hold'[c][v].status = "none" => hold[c][v].status = "none"
      BY <1>2
    <3>2. QED
      BY <1>1, <2>1, <3>1 DEF CartRows
  <2>2. CASE p # o
    BY <1>1, <1>4, <2>2 DEF CartRows, ActiveLines, IsActive
  <2>3. QED
    BY <2>1, <2>2
<1>6. ASSUME NEW p \in Orders, NEW v \in Variants PROVE hold'[SpareOf[p][v]] = hold[SpareOf[p][v]]
  BY <1>2, IdsDiffer
<1>7. SpareRows'
  <2> SUFFICES ASSUME NEW p \in Orders, NEW v \in Variants, claim[SpareOf[p][v]] # NoCart
               PROVE  hold'[CartOf[p]][v].status \in Ended
    BY <1>1, <1>2, <1>6 DEF SpareRows
  <2>1. hold[CartOf[p]][v].status \in Ended
    BY <1>1 DEF SpareRows
  <2>2. QED
    BY <1>2, <1>4, <2>1, RowStates
<1>8. SoldWhole'
  <2> SUFFICES ASSUME NEW p \in Orders, NEW v \in Variants
               PROVE  sold'[p][v] = IF LineSold(p, v)' THEN OrderLines[p][v] ELSE 0
    BY DEF SoldWhole
  <2>1. sold[p][v] = IF LineSold(p, v) THEN OrderLines[p][v] ELSE 0
    BY <1>1 DEF SoldWhole
  <2>2. CASE p # o
    <3>1. sold'[p] = sold[p]
      BY <2>2 DEF SoldTo
    <3>2. QED
      BY <1>4, <1>6, <2>1, <2>2, <3>1 DEF LineSold
  <2>3. CASE p = o /\ ~IsActive(c, v)
    <3>1. sold'[o][v] = sold[o][v]
      <4>1. sold[o][v] \in Nat
        BY DEF TypeOK
      <4>2. QED
        BY <2>3, <4>1 DEF SoldTo
    <3>2. hold'[c][v] = hold[c][v]
      BY <1>2, <2>3
    <3>3. QED
      BY <1>6, <2>1, <2>3, <3>1, <3>2 DEF LineSold
  <2>4. CASE p = o /\ IsActive(c, v)
    <3>1. claim[SpareOf[o][v]] = NoCart
      BY <1>1, <1>2, <2>4, RowStates DEF SpareRows
    <3>2. hold[SpareOf[o][v]][v] = NoRow
      BY <1>1, <3>1, IdsDiffer DEF NoRowsUnclaimed
    <3>3. ~LineSold(o, v) /\ LineSold(o, v)'
      BY <1>2, <2>4, <3>2, RowStates DEF LineSold
    <3>4. hold[c][v].qty = OrderLines[o][v] /\ OrderLines[o][v] \in Nat
      BY <1>1, IdsDiffer DEF CartRows
    <3>5. QED
      BY <2>1, <2>4, <3>3, <3>4 DEF SoldTo
  <2>5. QED
    BY <2>2, <2>3, <2>4
<1>9. QED
  BY <1>3, <1>5, <1>7, <1>8 DEF RowsInv

\* A replacement is sold to its order.
LEMMA SpareSold ==
  ASSUME TypeOK, RowsInv, NEW o \in Orders, NEW x \in Variants, SoldTo(SpareOf[o][x], o),
         claim[SpareOf[o][x]] # NoCart, UNCHANGED <<checkout, payment, receipt>>
  PROVE  RowsInv' /\ RowsMove
<1> DEFINE c == SpareOf[o][x]
<1>1. NoRowsUnclaimed /\ CartRows /\ SpareRows /\ SoldWhole
  BY DEF RowsInv
<1>2. /\ c \in Checkouts
      /\ \A v \in Variants : IsActive(c, v) <=> hold[c][v].status = "active"
      /\ \A v \in Variants : ~IsActive(c, v) => hold'[c][v] = hold[c][v]
      /\ \A v \in Variants : IsActive(c, v) =>
           hold'[c][v].status = "committed" /\ hold'[c][v].qty = hold[c][v].qty
      /\ \A d \in Checkouts : d # c => hold'[d] = hold[d]
      /\ UNCHANGED claim
  BY IdsDiffer, RowStates DEF SoldTo, IsActive
<1>3. RowsMove /\ NoRowsUnclaimed'
  BY <1>1, <1>2, RowStates DEF RowsMove, NoRowsUnclaimed
<1>4. ASSUME NEW p \in Orders PROVE hold'[CartOf[p]] = hold[CartOf[p]]
  BY <1>2, IdsDiffer
<1>5. CartRows'
  BY <1>1, <1>2, <1>4 DEF CartRows, ActiveLines, IsActive
<1>6. ASSUME NEW p \in Orders, NEW v \in Variants, p # o \/ v # x
      PROVE  hold'[SpareOf[p][v]] = hold[SpareOf[p][v]]
  BY <1>2, <1>6, IdsDiffer
<1>7. /\ OrderLines[o][x] \in Nat /\ hold[c][x].qty = OrderLines[o][x]
      /\ hold[c][x].status \in {"active", "committed", "expired"}
      /\ hold[CartOf[o]][x].status \in Ended
      /\ \A w \in Variants \ {x} : hold[c][w] = NoRow /\ ~IsActive(c, w)
  BY <1>1, <1>2, IdsDiffer, RowStates DEF SpareRows
<1>8. SpareRows'
  <2> SUFFICES ASSUME NEW p \in Orders, NEW v \in Variants, claim[SpareOf[p][v]] # NoCart
      PROVE  /\ hold'[SpareOf[p][v]][v].qty = OrderLines[p][v]
             /\ hold'[SpareOf[p][v]][v].status \in {"active", "committed", "expired"}
             /\ \A w \in Variants \ {v} : hold'[SpareOf[p][v]][w] = NoRow
    BY <1>1, <1>2, <1>4 DEF SpareRows
  <2>1. CASE p = o /\ v = x
    BY <1>2, <1>7, <2>1
  <2>2. CASE p # o \/ v # x
    BY <1>1, <1>6, <2>2 DEF SpareRows
  <2>3. QED
    BY <2>1, <2>2
<1>9. SoldWhole'
  <2> SUFFICES ASSUME NEW p \in Orders, NEW v \in Variants
               PROVE  sold'[p][v] = IF LineSold(p, v)' THEN OrderLines[p][v] ELSE 0
    BY DEF SoldWhole
  <2>1. sold[p][v] = (IF LineSold(p, v) THEN OrderLines[p][v] ELSE 0) /\ sold[p][v] \in Nat
    BY <1>1 DEF SoldWhole, TypeOK
  <2>2. CASE p # o
    <3>1. sold'[p] = sold[p]
      BY <2>2 DEF SoldTo
    <3>2. QED
      BY <1>4, <1>6, <2>1, <2>2, <3>1 DEF LineSold
  <2>3. CASE p = o /\ v # x
    <3>1. sold'[o][v] = sold[o][v]
      BY <1>7, <2>1, <2>3 DEF SoldTo
    <3>2. QED
      BY <1>4, <1>6, <2>1, <2>3, <3>1 DEF LineSold
  <2>4. CASE p = o /\ v = x /\ ~IsActive(c, x)
    <3>1. sold'[o][x] = sold[o][x] /\ hold'[c][x] = hold[c][x]
      BY <1>2, <2>1, <2>4 DEF SoldTo
    <3>2. QED
      BY <1>4, <2>1, <2>4, <3>1 DEF LineSold
  <2>5. CASE p = o /\ v = x /\ IsActive(c, x)
    <3>1. ~LineSold(o, x) /\ LineSold(o, x)'
      BY <1>2, <1>7, <2>5, RowStates DEF LineSold
    <3>2. QED
      BY <1>7, <2>1, <2>5, <3>1 DEF SoldTo
  <2>6. QED
    BY <2>2, <2>3, <2>4, <2>5
<1>10. QED
  BY <1>3, <1>5, <1>8, <1>9 DEF RowsInv

\* Rows end unsold: any by its TTL, a cart's by a release.
LEMMA RowEnded ==
  ASSUME RowsInv, NEW c \in Checkouts, NEW x \in Variants, NEW ending \in Ended,
         EndedAs(c, x, ending), ending = "expired" \/ \E o \in Orders : c = CartOf[o],
         UNCHANGED <<checkout, payment, receipt>>
  PROVE  RowsInv' /\ RowsMove
<1>1. NoRowsUnclaimed /\ CartRows /\ SpareRows /\ SoldWhole
  BY DEF RowsInv
<1>2. /\ hold[c][x].status = "active" /\ IsActive(c, x)
      /\ hold'[c][x].status = ending /\ hold'[c][x].qty = hold[c][x].qty
      /\ ending \in {"released", "expired"}
      /\ \A d \in Checkouts, v \in Variants : d # c \/ v # x => hold'[d][v] = hold[d][v]
      /\ UNCHANGED <<claim, sold>>
  BY RowStates DEF EndedAs, IsActive
<1>3. claim[c] # NoCart
  BY <1>1, <1>2, RowStates DEF NoRowsUnclaimed
<1>4. RowsMove /\ NoRowsUnclaimed'
  BY <1>1, <1>2, <1>3 DEF RowsMove, NoRowsUnclaimed
<1>5. ASSUME NEW d \in Checkouts, NEW v \in Variants
      PROVE  /\ hold'[d][v].qty = hold[d][v].qty
             /\ hold'[d][v].status = "none" => hold[d][v].status = "none"
             /\ hold'[d][v].status = "active" => hold[d][v].status = "active"
             /\ hold'[d][v].status = "committed" <=> hold[d][v].status = "committed"
             /\ hold[d][v].status \in Ended => hold'[d][v] = hold[d][v]
  BY <1>2, RowStates
<1>6. CartRows'
  <2> SUFFICES ASSUME NEW p \in Orders
      PROVE  /\ checkout[p] # "new" => claim[CartOf[p]] # NoCart
             /\ claim[CartOf[p]] # NoCart => \A v \in Variants :
                  /\ hold'[CartOf[p]][v].qty = OrderLines[p][v]
                  /\ OrderLines[p][v] > 0 => hold'[CartOf[p]][v].status # "none"
             /\ checkout[p] = "released" \/ receipt[p] = "released" =>
                  \A v \in Variants : hold'[CartOf[p]][v].status # "active"
             /\ \A v \in Variants : hold'[CartOf[p]][v].status = "committed" =>
                  payment[p] = "paid" \/ receipt[p] \in {"unknown", "committed"}
    BY <1>2 DEF CartRows, ActiveLines, IsActive
  <2>1. CartOf[p] \in Checkouts
    BY IdsDiffer
  <2>2. QED
    BY <1>1, <1>5, <2>1 DEF CartRows, ActiveLines, IsActive
<1>7. SpareRows'
  <2> SUFFICES ASSUME NEW p \in Orders, NEW v \in Variants, claim[SpareOf[p][v]] # NoCart
      PROVE  /\ hold'[CartOf[p]][v].status \in Ended
             /\ hold'[SpareOf[p][v]][v].qty = OrderLines[p][v]
             /\ hold'[SpareOf[p][v]][v].status \in {"active", "committed", "expired"}
             /\ \A w \in Variants \ {v} : hold'[SpareOf[p][v]][w] = NoRow
    BY <1>1, <1>2 DEF SpareRows
  <2>1. /\ hold[CartOf[p]][v].status \in Ended
        /\ hold[SpareOf[p][v]][v].qty = OrderLines[p][v]
        /\ hold[SpareOf[p][v]][v].status \in {"active", "committed", "expired"}
        /\ \A w \in Variants \ {v} : hold[SpareOf[p][v]][w] = NoRow
    BY <1>1 DEF SpareRows
  <2>2. CartOf[p] \in Checkouts /\ SpareOf[p][v] \in Checkouts
    BY IdsDiffer
  <2>3. SpareOf[p][v] = c => ending = "expired"
    BY IdsDiffer
  <2>4. \A w \in Variants \ {v} : SpareOf[p][v] # c \/ w # x
    BY <1>2, <2>1, RowStates
  <2>5. QED
    BY <1>2, <1>5, <2>1, <2>2, <2>3, <2>4
<1>8. SoldWhole'
  <2> SUFFICES ASSUME NEW p \in Orders, NEW v \in Variants
               PROVE  LineSold(p, v)' <=> LineSold(p, v)
    BY <1>1, <1>2 DEF SoldWhole
  <2>1. CartOf[p] \in Checkouts /\ SpareOf[p][v] \in Checkouts
    BY IdsDiffer
  <2>2. QED
    BY <1>5, <2>1 DEF LineSold
<1>9. QED
  BY <1>4, <1>6, <1>7, <1>8 DEF RowsInv

\* Steps of the records alone: what the rows rest on is kept.
LEMMA RecordsLeaveRows ==
  ASSUME RowsInv, UNCHANGED <<hold, claim, sold>>,
         \A o \in Orders :
           /\ payment[o] = "paid" => payment'[o] = "paid"
           /\ checkout'[o] # "new" => checkout[o] # "new"
           /\ receipt[o] \in {"unknown", "committed"} => receipt'[o] \in {"unknown", "committed"}
           /\ checkout'[o] = "released" \/ receipt'[o] = "released" =>
                ActiveLines(CartOf[o]) = {}
  PROVE  RowsInv' /\ RowsMove
<1>1. NoRowsUnclaimed /\ CartRows /\ SpareRows /\ SoldWhole
  BY DEF RowsInv
<1>2. RowsMove /\ NoRowsUnclaimed' /\ SoldWhole'
  BY <1>1 DEF RowsMove, NoRowsUnclaimed, SoldWhole, LineSold
<1>3. SpareRows'
  BY <1>1 DEF SpareRows
<1>4. \A o \in Orders : ActiveLines(CartOf[o])' = ActiveLines(CartOf[o])
  BY DEF ActiveLines, IsActive
<1>5. CartRows'
  BY <1>1, <1>4 DEF CartRows
<1>6. QED
  BY <1>2, <1>3, <1>5 DEF RowsInv

\* What the records may do while the rows stay: no step forgets a sale of a cart,
\* and a receipt is released only when its cart holds nothing.
RecordsAllow ==
  \A o \in Orders :
    /\ payment[o] = "paid" => payment'[o] = "paid"
    /\ checkout'[o] # "new" => checkout[o] # "new"
    /\ receipt[o] \in {"unknown", "committed"} => receipt'[o] \in {"unknown", "committed"}
    /\ checkout'[o] = "released" \/ receipt'[o] = "released" => ActiveLines(CartOf[o]) = {}

LEMMA RestAllows ==
  ASSUME RowsInv, UNCHANGED <<checkout, records>>
  PROVE  RecordsAllow
BY DEF RowsInv, CartRows, RecordsAllow, records

LEMMA CheckoutAllows ==
  ASSUME RecordsInv, RecordsMove, RowsInv, NEW o \in Orders, Checkout(o), ~SecureStock(o)
  PROVE  RecordsAllow
<1>1. RecordTypes /\ RecordsAgree /\ CartRows
  BY DEF RecordsInv, RowsInv
<1>2. \A p \in Orders : payment[p] = "paid" => payment'[p] = "paid"
  BY DEF RecordsMove
<1>3. CASE BuildOrder(o)
  BY <1>1, <1>2, <1>3
     DEF BuildOrder, At, RecordTypes, RecordsAgree, CartRows, RecordsAllow, Unpayable
<1>4. CASE BuildFails(o) \/ SessionFails(o) \/ Compensated(o)
  BY <1>1, <1>2, <1>4
     DEF BuildFails, SessionFails, Compensated, At, RecordTypes, CartRows, RecordsAllow, records
<1>5. CASE OpenSession(o) \/ CancelUnpayable(o)
  BY <1>1, <1>2, <1>5
     DEF OpenSession, CancelUnpayable, At, RecordTypes, CartRows, RecordsAllow
<1>6. CASE Compensate(o)
  BY <1>6, RestAllows DEF Compensate
<1>7. CASE MarkReceipt(o)
  <2>1. receipt[o] \in {"active", "released"} /\ checkout[o] \in {"released", "stranded"}
    BY <1>1, <1>7 DEF MarkReceipt, At, RecordsAgree
  <2>2. QED
    BY <1>1, <1>2, <1>7, <2>1 DEF MarkReceipt, At, RecordTypes, CartRows, RecordsAllow
<1>8. QED
  BY <1>3, <1>4, <1>5, <1>6, <1>7 DEF Checkout

LEMMA OthersAllow ==
  ASSUME RecordsInv, RecordsMove, RowsInv, [SagaNext]_sagaVars,
         \A o \in Orders : ~Checkout(o)
  PROVE  RecordsAllow
<1>1. RecordTypes /\ RecordsAgree /\ CartRows /\ WorkersAgree
  BY DEF RecordsInv, RowsInv
<1>2. \A p \in Orders : payment[p] = "paid" => payment'[p] = "paid"
  BY DEF RecordsMove
<1>3. ASSUME UNCHANGED <<checkout, receipt>> PROVE RecordsAllow
  BY <1>1, <1>2, <1>3 DEF RecordsAllow, CartRows
<1>4. ASSUME NEW w \in Workers, CancelCommits(w) PROVE RecordsAllow
  <2>1. work[w].order \in Orders
    BY <1>1, <1>4 DEF CancelCommits, WorkersAgree, WorkerAgrees
  <2>2. QED
    BY <1>1, <1>2, <1>4, <2>1 DEF CancelCommits, RecordTypes, RecordsAllow, CartRows
<1>5. ASSUME NEW w \in Workers, FinishFulfilment(w) \/ ReconcileSettles(w) PROVE RecordsAllow
  <2>1. work[w].order \in Orders
    BY <1>1, <1>5 DEF FinishFulfilment, ReconcileSettles, WorkersAgree, WorkerAgrees
  <2>2. QED
    BY <1>1, <1>2, <1>5, <2>1
       DEF FinishFulfilment, ReconcileSettles, RecordTypes, RecordsAllow, CartRows
<1>6. ASSUME NEW w \in Workers, WorkerStep(w) \/ Crash(w) PROVE RecordsAllow
  BY <1>3, <1>4, <1>5, <1>6
     DEF WorkerStep, CancelReleases, CancelFails, LockOrder, CommitCart, SellReplacement,
         ReserveReplacement, ReleaseCart, CartReleased, RestoreStock, DeliveryFails,
         RecordFailure, Retire, ReconcileCommits, Crash, records
<1>7. ASSUME NEW w \in Workers, NEW o \in Orders,
             \/ ConfirmOrderPaid(w, o) \/ MarkAsRefunded(w, o) \/ CancelBegins(w, o)
             \/ ReconcileBegins(w, o)
             \/ \E t \in Topics : Claim(w, t, o)
      PROVE  RecordsAllow
  BY <1>3, <1>7
     DEF ConfirmOrderPaid, MarkAsRefunded, CancelBegins, ReconcileBegins, Claim, records
<1>8. ASSUME NEW o \in Orders, PaymentFails(o) PROVE RecordsAllow
  BY <1>3, <1>8 DEF PaymentFails
<1>9. CASE Elsewhere \/ UNCHANGED sagaVars
  BY <1>3, <1>9 DEF Elsewhere, sagaVars, records
<1>10. QED
  BY <1>6, <1>7, <1>8, <1>9 DEF SagaNext

-----------------------------------------------------------------------------
(* Every step of the saga, as the ledger sees it *)

\* What a refund gave back, and how much of the order there was, is settled.
ReturnsMove ==
  \A o \in Orders :
    /\ refund[o] # NoCart =>
         UNCHANGED <<refund[o], returned[o], sold[o]>>
    /\ refund[o] = NoCart /\ refund'[o] # NoCart =>
         status[o] = "refunded" /\ \A v \in Variants : returned'[o][v] = sold'[o][v]

LedgerInv == TypeOK /\ NoOversell /\ ReturnedWasSold /\ RowsCounted
SagaInv == RecordsInv /\ LedgerInv /\ RowsInv /\ DeliveryInv

\* The ledger takes a step of its own, a row expires, or nothing happens to it.
LedgerMoves == [Next]_vars \/ \E c \in Checkouts, v \in Variants : ExpireHold(c, v)

\* A step that leaves the ledger's rows and sales alone.
LEMMA LedgerRests ==
  ASSUME RecordsAllow, RowsInv, UNCHANGED <<hold, claim, sold, returned, refund>>
  PROVE  RowsInv' /\ RowsMove /\ ReturnsMove
<1>1. RowsInv' /\ RowsMove
  BY RecordsLeaveRows DEF RecordsAllow
<1>2. QED
  BY <1>1 DEF ReturnsMove

\* The ledger's part of placing the order.
LEMMA CheckoutMovesRows ==
  ASSUME SagaInv, RecordsMove, NEW o \in Orders, Checkout(o)
  PROVE  RowsInv' /\ RowsMove /\ ReturnsMove /\ LedgerMoves
<1> DEFINE Goal == RowsInv' /\ RowsMove /\ ReturnsMove /\ LedgerMoves
<1>1. RecordsInv /\ TypeOK /\ RowsInv
  BY DEF SagaInv, LedgerInv
<1>2. CASE SecureStock(o)
  <2>1. ReserveLines(CartOf[o], OrderLines[o]) /\ OrderLines[o] \in Carts /\ CartOf[o] \in Checkouts
    BY <1>2, IdsDiffer DEF SecureStock
  <2>2. Placed(CartOf[o], OrderLines[o]) /\ LedgerMoves
    BY <1>1, <2>1, ReserveDoes DEF LedgerMoves, Next
  <2>3. /\ checkout[o] = "new" /\ checkout'[o] = "held"
        /\ \A p \in Orders : p # o => checkout'[p] = checkout[p]
        /\ UNCHANGED <<payment, receipt>>
    BY <1>1, <1>2 DEF SecureStock, At, records, RecordsInv, RecordTypes
  <2>4. RowsInv' /\ RowsMove
    BY <1>1, <2>2, <2>3, CartPlaced
  <2>5. QED
    BY <2>2, <2>4 DEF Placed, ReturnsMove
<1>3. CASE Compensate(o)
  <2>1. PICK v \in Variants : ReleaseReservation(CartOf[o], v)
    BY <1>3 DEF Compensate
  <2>2. CartOf[o] \in Checkouts /\ "released" \in Ended
    BY IdsDiffer, RowStates
  <2>3. EndedAs(CartOf[o], v, "released")
    BY <1>1, <2>1, <2>2, EndDoes DEF ReleaseReservation
  <2>4. LedgerMoves
    BY <2>1, <2>2 DEF LedgerMoves, Next
  <2>5. UNCHANGED <<checkout, payment, receipt>>
    BY <1>3 DEF Compensate, records
  <2>6. RowsInv' /\ RowsMove
    BY <1>1, <2>2, <2>3, <2>5, RowEnded
  <2>7. QED
    BY <2>3, <2>4, <2>6 DEF EndedAs, ReturnsMove
<1>4. CASE ~SecureStock(o) /\ ~Compensate(o)
  <2>1. UNCHANGED ledger
    BY <1>4 DEF Checkout, BuildOrder, BuildFails, OpenSession, SessionFails, Compensated,
                MarkReceipt, CancelUnpayable
  <2>2. UNCHANGED <<hold, claim, sold, returned, refund>> /\ LedgerMoves
    BY <2>1 DEF ledger, vars, keys, movements, LedgerMoves
  <2>3. QED
    BY <1>1, <1>4, <2>2, CheckoutAllows, LedgerRests
<1>5. QED
  BY <1>2, <1>3, <1>4

\* A replacement is the whole line.
LEMMA ReplacementCart ==
  ASSUME SagaInv, NEW w \in Workers, work[w].at = "cover", NEW v \in work[w].short
  PROVE  LET o == work[w].order
         IN /\ o \in Orders /\ v \in Variants /\ payment[o] = "paid"
            /\ OrderLines[o][v] > 0 /\ hold[CartOf[o]][v].status \in Ended
            /\ ShortCart(o, v) \in Carts
            /\ \A x \in Variants : ShortCart(o, v)[x] = IF x = v THEN OrderLines[o][v] ELSE 0
<1> DEFINE o == work[w].order
<1>1. /\ WorkTypes /\ WorkerAgrees(w) /\ RecordsAgree /\ WorkerDelivers(w)
  BY DEF SagaInv, RecordsInv, WorkersAgree, DeliveryInv, DeliveriesAgree
<1>2. o \in Orders /\ status[o] = "paid" /\ v \in Variants
  BY <1>1 DEF WorkerAgrees, WorkTypes, WorkRecord
<1>3. payment[o] = "paid"
  BY <1>1, <1>2 DEF RecordsAgree
<1>4. OrderLines[o][v] > 0 /\ hold[CartOf[o]][v].status \in Ended
  BY <1>1 DEF WorkerDelivers
<1>5. Committed(o, v) = 0
  BY <1>4, RowStates DEF Committed
<1>6. OrderLines[o][v] \in Nat /\ OrderLines[o][v] \in 0..MaxLine
  BY <1>2, IdsDiffer
<1>7. \A x \in Variants : ShortCart(o, v)[x] = IF x = v THEN OrderLines[o][v] ELSE 0
  BY <1>5, <1>6 DEF ShortCart
<1>8. ShortCart(o, v) \in [Variants -> 0..MaxLine]
  BY <1>5, <1>6, LedgerAssumption DEF ShortCart
<1>9. ShortCart(o, v) \in Carts
  BY <1>2, <1>4, <1>7, <1>8 DEF Carts
<1>10. QED
  BY <1>2, <1>3, <1>4, <1>7, <1>9

LEMMA LedgerStill ==
  ASSUME RowsInv, RecordsAllow, UNCHANGED ledger
  PROVE  RowsInv' /\ RowsMove /\ ReturnsMove /\ LedgerMoves
<1>1. UNCHANGED <<hold, claim, sold, returned, refund>> /\ LedgerMoves
  BY DEF ledger, vars, keys, movements, LedgerMoves
<1>2. QED
  BY <1>1, LedgerRests

\* Nothing is sold to an order whose refund was settled.
LEMMA SaleKeepsReturns ==
  ASSUME SagaInv, NEW c \in Checkouts, NEW o \in Orders, SoldTo(c, o), status[o] # "refunded"
  PROVE  ReturnsMove
<1>1. refund[o] = NoCart
  BY DEF SagaInv, DeliveryInv, RetiredAgree
<1>2. \A p \in Orders : p # o => sold'[p] = sold[p]
  BY DEF SoldTo
<1>3. UNCHANGED <<returned, refund>>
  BY DEF SoldTo
<1>4. QED
  BY <1>1, <1>2, <1>3 DEF ReturnsMove

\* A cart is committed: by a delivery, or by the reconciliation job.
LEMMA CommitMovesRows ==
  ASSUME SagaInv, RecordsAllow, NEW w \in Workers, CommitCart(w) \/ ReconcileCommits(w)
  PROVE  RowsInv' /\ RowsMove /\ ReturnsMove /\ LedgerMoves
<1> DEFINE o == work[w].order
           c == CartOf[o]
<1>1. RecordsAgree /\ WorkerAgrees(w) /\ TypeOK /\ RowsInv /\ CartRows
  BY DEF SagaInv, RecordsInv, WorkersAgree, LedgerInv, RowsInv
<1>2. /\ o \in Orders
      /\ status[o] # "refunded"
      /\ payment[o] = "paid" \/ receipt[o] \in {"unknown", "committed"}
      /\ checkout[o] # "new"
  <2>1. CASE CommitCart(w)
    <3>1. o \in Orders /\ status[o] = "paid"
      BY <1>1, <2>1 DEF CommitCart, WorkerAgrees
    <3>2. QED
      BY <1>1, <3>1 DEF RecordsAgree
  <2>2. CASE ReconcileCommits(w)
    <3>1. o \in Orders /\ Unpayable(o) /\ receipt[o] \in {"unknown", "committed"}
      BY <1>1, <2>2 DEF ReconcileCommits, WorkerAgrees
    <3>2. QED
      BY <1>1, <3>1 DEF RecordsAgree, Unpayable
  <2>3. QED
    BY <2>1, <2>2
<1>3. c \in Checkouts /\ claim[c] # NoCart
  BY <1>1, <1>2, IdsDiffer DEF CartRows
<1>4. UNCHANGED <<checkout, payment, receipt>>
  BY DEF CommitCart, ReconcileCommits, records
<1>5. CommitHolds(c, o) \/ UNCHANGED ledger
  BY DEF CommitCart, ReconcileCommits
<1>6. CASE CommitHolds(c, o)
  <2>1. SoldTo(c, o) /\ LedgerMoves
    BY <1>1, <1>2, <1>3, <1>6, CommitDoes DEF LedgerMoves, Next
  <2>2. RowsInv' /\ RowsMove
    BY <1>1, <1>2, <1>3, <1>4, <2>1, CartSold
  <2>3. QED
    BY <1>2, <1>3, <2>1, <2>2, SaleKeepsReturns
<1>7. CASE UNCHANGED ledger
  BY <1>1, <1>7, LedgerStill
<1>8. QED
  BY <1>5, <1>6, <1>7

\* A replacement is reserved, or answered for as it was.
LEMMA ReserveMovesRows ==
  ASSUME SagaInv, RecordsAllow, NEW w \in Workers, NEW v \in Variants, ReserveReplacement(w, v)
  PROVE  RowsInv' /\ RowsMove /\ ReturnsMove /\ LedgerMoves
<1> DEFINE o == work[w].order
           c == SpareOf[o][v]
<1>1. TypeOK /\ RowsInv
  BY DEF SagaInv, LedgerInv
<1>2. work[w].at = "cover" /\ v \in work[w].short
  BY DEF ReserveReplacement
<1>3. /\ o \in Orders /\ payment[o] = "paid"
      /\ OrderLines[o][v] > 0 /\ hold[CartOf[o]][v].status \in Ended
      /\ ShortCart(o, v) \in Carts
      /\ \A x \in Variants : ShortCart(o, v)[x] = IF x = v THEN OrderLines[o][v] ELSE 0
  BY <1>2, ReplacementCart
<1>4. c \in Checkouts
  BY <1>3, IdsDiffer
<1>5. UNCHANGED <<checkout, payment, receipt>>
  BY DEF ReserveReplacement, records
<1>6. ReserveLines(c, ShortCart(o, v)) \/ UNCHANGED ledger
  BY DEF ReserveReplacement
<1>7. CASE ReserveLines(c, ShortCart(o, v))
  <2>1. Placed(c, ShortCart(o, v)) /\ LedgerMoves
    BY <1>1, <1>3, <1>4, <1>7, ReserveDoes DEF LedgerMoves, Next
  <2>2. RowsInv' /\ RowsMove
    BY <1>1, <1>3, <1>5, <2>1, SparePlaced
  <2>3. QED
    BY <2>1, <2>2 DEF Placed, ReturnsMove
<1>8. CASE UNCHANGED ledger
  BY <1>1, <1>8, LedgerStill
<1>9. QED
  BY <1>6, <1>7, <1>8

\* It is sold.
LEMMA SellMovesRows ==
  ASSUME SagaInv, RecordsAllow, NEW w \in Workers, SellReplacement(w)
  PROVE  RowsInv' /\ RowsMove /\ ReturnsMove /\ LedgerMoves
<1> DEFINE o == work[w].order
           v == work[w].line
           c == SpareOf[o][v]
<1>1. TypeOK /\ RowsInv /\ WorkTypes /\ WorkerAgrees(w) /\ WorkerDelivers(w)
  BY DEF SagaInv, RecordsInv, LedgerInv, WorkersAgree, DeliveryInv, DeliveriesAgree
<1>2. work[w].at = "sell"
  BY DEF SellReplacement
<1>3. o \in Orders /\ status[o] = "paid" /\ v \in work[w].short /\ claim[c] # NoCart
  BY <1>1, <1>2 DEF WorkerAgrees, WorkerDelivers
<1>4. v \in Variants
  BY <1>1, <1>3 DEF WorkTypes, WorkRecord
<1>5. c \in Checkouts
  BY <1>3, <1>4, IdsDiffer
<1>6. UNCHANGED <<checkout, payment, receipt>>
  BY DEF SellReplacement, records
<1>7. CommitHolds(c, o) \/ UNCHANGED ledger
  BY DEF SellReplacement
<1>8. CASE CommitHolds(c, o)
  <2>1. SoldTo(c, o) /\ LedgerMoves
    BY <1>1, <1>3, <1>5, <1>8, CommitDoes DEF LedgerMoves, Next
  <2>2. RowsInv' /\ RowsMove
    BY <1>1, <1>3, <1>4, <1>6, <2>1, SpareSold
  <2>3. QED
    BY <1>3, <1>5, <2>1, <2>2, SaleKeepsReturns
<1>9. CASE UNCHANGED ledger
  BY <1>1, <1>9, LedgerStill
<1>10. QED
  BY <1>7, <1>8, <1>9

\* A cancel and a refund release the rows of the cart.
LEMMA ReleaseMovesRows ==
  ASSUME SagaInv, NEW w \in Workers, CancelReleases(w) \/ ReleaseCart(w)
  PROVE  RowsInv' /\ RowsMove /\ ReturnsMove /\ LedgerMoves
<1> DEFINE o == work[w].order
           c == CartOf[o]
<1>1. WorkerAgrees(w) /\ TypeOK /\ RowsInv
  BY DEF SagaInv, RecordsInv, WorkersAgree, LedgerInv
<1>2. o \in Orders
  BY <1>1 DEF CancelReleases, ReleaseCart, WorkerAgrees
<1>3. c \in Checkouts /\ "released" \in Ended
  BY <1>2, IdsDiffer, RowStates
<1>4. PICK v \in Variants : ReleaseReservation(c, v)
  BY DEF CancelReleases, ReleaseCart
<1>5. EndedAs(c, v, "released")
  BY <1>1, <1>3, <1>4, EndDoes DEF ReleaseReservation
<1>6. LedgerMoves
  BY <1>3, <1>4 DEF LedgerMoves, Next
<1>7. UNCHANGED <<checkout, payment, receipt>>
  BY DEF CancelReleases, ReleaseCart, records
<1>8. RowsInv' /\ RowsMove
  BY <1>1, <1>2, <1>3, <1>5, <1>7, RowEnded
<1>9. QED
  BY <1>5, <1>6, <1>8 DEF EndedAs, ReturnsMove

\* A refund puts back what was sold, which is no more than was ordered.
LEMMA RestoreMovesRows ==
  ASSUME SagaInv, RecordsAllow, NEW w \in Workers, RestoreStock(w)
  PROVE  RowsInv' /\ RowsMove /\ ReturnsMove /\ LedgerMoves
<1> DEFINE o == work[w].order
<1>1. WorkerAgrees(w) /\ TypeOK /\ RowsInv /\ SoldWhole /\ ReturnedWasSold
  BY DEF SagaInv, RecordsInv, WorkersAgree, LedgerInv, RowsInv
<1>2. o \in Orders /\ status[o] = "refunded"
  BY <1>1, WorkFields DEF RestoreStock, WorkerAgrees, RestoreTopic
<1>3. RestoreOrderStock(o, OrderLines[o]) \/ UNCHANGED ledger
  BY DEF RestoreStock
<1>4. CASE RestoreOrderStock(o, OrderLines[o])
  <2>1. LedgerMoves
    BY <1>2, <1>4, IdsDiffer DEF LedgerMoves, Next
  <2>2. /\ UNCHANGED <<hold, claim, sold>> /\ refund[o] = NoCart
        /\ refund' = [refund EXCEPT ![o] = OrderLines[o]]
        /\ returned' = [returned EXCEPT ![o] =
             [v \in Variants |-> returned[o][v] + Restorable(o, OrderLines[o])[v]]]
    BY <1>4 DEF RestoreOrderStock
  <2>3. ASSUME NEW p \in Orders, p # o PROVE refund'[p] = refund[p] /\ returned'[p] = returned[p]
    BY <2>2, <2>3
  <2>4. ASSUME NEW v \in Variants PROVE returned'[o][v] = sold[o][v]
    <3>1. /\ sold[o][v] \in Nat /\ returned[o][v] \in Nat /\ OrderLines[o][v] \in Nat
          /\ returned[o][v] <= sold[o][v] /\ sold[o][v] <= OrderLines[o][v]
      <4>1. sold[o][v] \in Nat /\ returned[o][v] \in Nat
        BY <1>1, <1>2 DEF TypeOK
      <4>2. OrderLines[o][v] \in Nat
        BY <1>2, IdsDiffer
      <4>3. sold[o][v] = IF LineSold(o, v) THEN OrderLines[o][v] ELSE 0
        BY <1>1, <1>2 DEF SoldWhole
      <4>4. returned[o][v] <= sold[o][v]
        BY <1>1, <1>2 DEF ReturnedWasSold
      <4>5. QED
        BY <4>1, <4>2, <4>3, <4>4
    <3>2. Restorable(o, OrderLines[o])[v] = Outstanding(o, v)
      BY <3>1 DEF Restorable, Outstanding
    <3>3. Outstanding(o, v) = sold[o][v] - returned[o][v]
      BY <3>1 DEF Outstanding
    <3>4. returned'[o][v] = returned[o][v] + Restorable(o, OrderLines[o])[v]
      BY <1>1, <1>2, <2>2 DEF TypeOK
    <3>5. QED
      BY <3>1, <3>2, <3>3, <3>4
  <2>5. RowsInv' /\ RowsMove
    BY <1>1, <2>2, RecordsLeaveRows DEF RecordsAllow
  <2>6. ReturnsMove
    BY <1>2, <2>2, <2>3, <2>4 DEF ReturnsMove
  <2>7. QED
    BY <2>1, <2>5, <2>6
<1>5. CASE UNCHANGED ledger
  BY <1>1, <1>5, LedgerStill
<1>6. QED
  BY <1>3, <1>4, <1>5

\* Rows expire, and staff correct the counters.
LEMMA ElsewhereMovesRows ==
  ASSUME SagaInv, RecordsAllow, Elsewhere
  PROVE  RowsInv' /\ RowsMove /\ ReturnsMove /\ LedgerMoves
<1>1. TypeOK /\ RowsInv
  BY DEF SagaInv, LedgerInv
<1>2. UNCHANGED <<checkout, payment, receipt>>
  BY DEF Elsewhere, records
<1>3. ASSUME NEW c \in Checkouts, PassExpiry(c)
      PROVE  RowsInv' /\ RowsMove /\ ReturnsMove /\ LedgerMoves
  <2>1. UNCHANGED <<hold, claim, sold, returned, refund>>
    BY <1>3 DEF PassExpiry, keys, movements
  <2>2. LedgerMoves
    BY <1>3 DEF LedgerMoves, Next
  <2>3. QED
    BY <1>1, <2>1, <2>2, LedgerRests
<1>4. ASSUME NEW v \in Variants, NEW delta \in Deltas, AdjustStock(v, delta, "adjustment")
      PROVE  RowsInv' /\ RowsMove /\ ReturnsMove /\ LedgerMoves
  <2>1. UNCHANGED <<hold, claim, sold, returned, refund>>
    BY <1>4 DEF AdjustStock, keys
  <2>2. LedgerMoves
    BY <1>4 DEF LedgerMoves, Next, Reasons
  <2>3. QED
    BY <1>1, <2>1, <2>2, LedgerRests
<1>5. ASSUME NEW c \in Checkouts, NEW v \in Variants, ExpireHold(c, v)
      PROVE  RowsInv' /\ RowsMove /\ ReturnsMove /\ LedgerMoves
  <2>1. EndedAs(c, v, "expired")
    BY <1>1, <1>5, EndDoes DEF ExpireHold, Sweepable
  <2>2. RowsInv' /\ RowsMove
    BY <1>1, <1>2, <2>1, RowEnded, RowStates
  <2>3. QED
    BY <1>5, <2>1, <2>2 DEF EndedAs, ReturnsMove, LedgerMoves
<1>6. QED
  BY <1>3, <1>4, <1>5 DEF Elsewhere

\* Whatever happens, the rows of orders fit their records.
LEMMA RowsInductive ==
  ASSUME SagaInv, [SagaNext]_sagaVars
  PROVE  RecordsInv' /\ RecordsMove /\ RowsInv' /\ RowsMove /\ ReturnsMove /\ LedgerMoves
<1>1. RecordsInv /\ RowsInv
  BY DEF SagaInv
<1>2. RecordsInv' /\ RecordsMove
  BY <1>1, RecordsInductive
<1>3. CASE \E o \in Orders : Checkout(o)
  BY <1>2, <1>3, CheckoutMovesRows
<1>4. CASE \A o \in Orders : ~Checkout(o)
  <2>1. RecordsAllow
    BY <1>1, <1>2, <1>4, OthersAllow
  <2>2. ASSUME UNCHANGED ledger PROVE RowsInv' /\ RowsMove /\ ReturnsMove /\ LedgerMoves
    BY <1>1, <2>1, <2>2, LedgerStill
  <2>3. ASSUME NEW w \in Workers, WorkerStep(w) \/ Crash(w)
        PROVE  RowsInv' /\ RowsMove /\ ReturnsMove /\ LedgerMoves
    <3>1. CASE CommitCart(w) \/ ReconcileCommits(w)
      BY <2>1, <3>1, CommitMovesRows
    <3>2. CASE \E v \in Variants : ReserveReplacement(w, v)
      BY <2>1, <3>2, ReserveMovesRows
    <3>3. CASE SellReplacement(w)
      BY <2>1, <3>3, SellMovesRows
    <3>4. CASE CancelReleases(w) \/ ReleaseCart(w)
      BY <3>4, ReleaseMovesRows
    <3>5. CASE RestoreStock(w)
      BY <2>1, <3>5, RestoreMovesRows
    <3>6. QED
      BY <2>2, <2>3, <3>1, <3>2, <3>3, <3>4, <3>5
         DEF WorkerStep, CancelCommits, CancelFails, LockOrder, FinishFulfilment, CartReleased,
             DeliveryFails, RecordFailure, Retire, ReconcileSettles, Crash
  <2>4. ASSUME NEW w \in Workers, NEW o \in Orders,
               \/ ConfirmOrderPaid(w, o) \/ MarkAsRefunded(w, o) \/ CancelBegins(w, o)
               \/ ReconcileBegins(w, o)
               \/ \E t \in Topics : Claim(w, t, o)
        PROVE  UNCHANGED ledger
    BY <2>4 DEF ConfirmOrderPaid, MarkAsRefunded, CancelBegins, ReconcileBegins, Claim
  <2>5. ASSUME NEW o \in Orders, PaymentFails(o) PROVE UNCHANGED ledger
    BY <2>5 DEF PaymentFails
  <2>6. CASE Elsewhere
    BY <1>2, <2>1, <2>6, ElsewhereMovesRows
  <2>7. CASE UNCHANGED sagaVars
    BY <1>2, <2>2, <2>7 DEF sagaVars
  <2>8. QED
    BY <1>2, <1>4, <2>2, <2>3, <2>4, <2>5, <2>6, <2>7 DEF SagaNext
<1>5. QED
  BY <1>2, <1>3, <1>4

\* The ledger keeps its invariant under its callers, and its step is the pool's.
LEMMA LedgerKeeps ==
  ASSUME LedgerInv, LedgerMoves
  PROVE  LedgerInv' /\ [Pool!PoolNext]_(Pool!pool)
<1>1. TypeOK /\ NoOversell /\ ReturnedWasSold /\ RowsCounted
  BY DEF LedgerInv
<1>2. CASE [Next]_vars
  BY <1>1, <1>2, TypeInductive, CountersInductive, RowsCountedInductive, StepImplements
     DEF LedgerInv
<1>3. ASSUME NEW c \in Checkouts, NEW v \in Variants, ExpireHold(c, v)
      PROVE  LedgerInv' /\ [Pool!PoolNext]_(Pool!pool)
  <2>1. IsActive(c, v) /\ EndRow(c, v, "expired") /\ UNCHANGED calls
    BY <1>3 DEF ExpireHold, Sweepable
  <2>2. TypeOK'
    BY <1>1, <2>1, EndRowType DEF calls, TypeOK, Terminal
  <2>3. NoOversell' /\ ReturnedWasSold'
    BY <1>1, <2>1, EndRowCounters
  <2>4. RowsCounted'
    BY <1>1, <2>1, <2>2, EndRowMoves, MovesAreCounted
  <2>5. Pool!GiveBack(c, v) \/ UNCHANGED Pool!pool
    BY <1>1, <2>1, EndRowGivesBack
  <2>6. QED
    BY <2>2, <2>3, <2>4, <2>5 DEF LedgerInv, Pool!PoolNext
<1>4. QED
  BY <1>2, <1>3 DEF LedgerMoves

-----------------------------------------------------------------------------
(* What deliveries have done, through every step *)

\* What every step has been shown to do.
RowsKept == SagaInv /\ RecordsMove /\ RowsInv' /\ RowsMove /\ ReturnsMove

\* A row that ended stays as it is.
LEMMA EndedStays ==
  ASSUME RowsInv, RowsMove, NEW c \in Checkouts, NEW v \in Variants,
         hold[c][v].status \notin {"none", "active"}
  PROVE  hold'[c][v] = hold[c][v]
<1>1. claim[c] # NoCart
  BY RowStates DEF RowsInv, NoRowsUnclaimed
<1>2. QED
  BY <1>1 DEF RowsMove, IsActive

\* What was done for a line stays done.
LEMMA LineStaysDone ==
  ASSUME RowsKept, NEW o \in Orders, NEW v \in Variants, LineDone(o, v)
  PROVE  LineDone(o, v)'
<1>1. /\ RowsInv /\ RowsInv' /\ RowsMove /\ SoldWhole /\ SoldWhole'
      /\ CartOf[o] \in Checkouts /\ SpareOf[o][v] \in Checkouts /\ OrderLines[o][v] \in Nat
  BY IdsDiffer DEF RowsKept, SagaInv, RowsInv
<1>2. CASE hold[SpareOf[o][v]][v].status = "expired"
  BY <1>1, <1>2, EndedStays DEF LineDone
<1>3. CASE LineSold(o, v)
  <2>1. LineSold(o, v)'
    BY <1>1, <1>3, EndedStays DEF LineSold
  <2>2. QED
    BY <1>1, <2>1 DEF SoldWhole, LineDone
<1>4. CASE ~LineSold(o, v) /\ hold[SpareOf[o][v]][v].status # "expired"
  <2>1. OrderLines[o][v] = 0
    BY <1>1, <1>4 DEF SoldWhole, LineDone
  <2>2. QED
    BY <1>1, <2>1 DEF SoldWhole, LineDone
<1>5. QED
  BY <1>2, <1>3, <1>4

\* What a delivery knows of its cart's rows stays true.
LEMMA CoverStays ==
  ASSUME RowsKept, NEW w \in Workers, work[w].at \in {"cover", "sell"},
         NEW o, o = work[w].order
  PROVE  /\ o \in Orders /\ work[w].short \in SUBSET Variants
         /\ ActiveLines(CartOf[o])' = {}
         /\ \A v \in work[w].short :
              OrderLines[o][v] > 0 /\ hold'[CartOf[o]][v].status \in Ended
         /\ \A v \in Variants : v \notin work[w].short => LineDone(o, v)'
<1> DEFINE c == CartOf[o]
<1>1. /\ WorkTypes /\ WorkerAgrees(w) /\ WorkerDelivers(w) /\ RecordsAgree
      /\ RowsInv /\ CartRows /\ RowsMove
  BY DEF RowsKept, SagaInv, RecordsInv, WorkersAgree, DeliveryInv, DeliveriesAgree, RowsInv
<1>2. o \in Orders /\ status[o] = "paid" /\ work[w].short \in SUBSET Variants
  BY <1>1 DEF WorkerAgrees, WorkTypes, WorkRecord
<1>3. c \in Checkouts /\ claim[c] # NoCart
  BY <1>1, <1>2, IdsDiffer DEF RecordsAgree, CartRows
<1>4. \A v \in Variants : hold'[c][v] = hold[c][v] /\ ~IsActive(c, v)
  BY <1>1, <1>3 DEF WorkerDelivers, ActiveLines, RowsMove
<1>5. ActiveLines(c)' = {}
  BY <1>4 DEF ActiveLines, IsActive
<1>6. ASSUME NEW v \in work[w].short
      PROVE  OrderLines[o][v] > 0 /\ hold'[c][v].status \in Ended
  BY <1>1, <1>2, <1>4 DEF WorkerDelivers
<1>7. ASSUME NEW v \in Variants, v \notin work[w].short PROVE LineDone(o, v)'
  BY <1>1, <1>2, <1>7, LineStaysDone DEF WorkerDelivers
<1>8. QED
  BY <1>2, <1>5, <1>6, <1>7

\* What somebody else's delivery knows stays true.
LEMMA OthersDeliver ==
  ASSUME RowsKept, NEW u \in Workers, work'[u] = work[u]
  PROVE  WorkerDelivers(u)'
<1>0. PICK o : o = work[u].order
  OBVIOUS
<1>1. /\ WorkTypes /\ WorkerAgrees(u) /\ WorkerDelivers(u) /\ RecordsMove /\ RowsMove /\ ReturnsMove
  BY DEF RowsKept, SagaInv, RecordsInv, WorkersAgree, DeliveryInv, DeliveriesAgree
<1>2. CASE work[u].at \in {"cover", "sell"}
  <2>1. /\ o \in Orders /\ work[u].short \in SUBSET Variants
        /\ ActiveLines(CartOf[o])' = {}
        /\ \A v \in work[u].short :
             OrderLines[o][v] > 0 /\ hold'[CartOf[o]][v].status \in Ended
        /\ \A v \in Variants : v \notin work[u].short => LineDone(o, v)'
    BY <1>0, <1>2, CoverStays
  <2>2. ASSUME work[u].at = "sell" PROVE claim'[SpareOf[o][work[u].line]] # NoCart
    <3>1. work[u].line \in Variants /\ claim[SpareOf[o][work[u].line]] # NoCart
      BY <1>0, <1>1, <2>1, <2>2 DEF WorkerDelivers
    <3>2. SpareOf[o][work[u].line] \in Checkouts
      BY <2>1, <3>1, IdsDiffer
    <3>3. QED
      BY <1>1, <3>1, <3>2 DEF RowsMove
  <2>3. work[u].at = "sell" => work[u].line \in work[u].short
    BY <1>1 DEF WorkerDelivers
  <2>4. QED
    BY <1>0, <1>2, <2>1, <2>2, <2>3 DEF WorkerDelivers
<1>3. CASE work[u].at = "retire"
  <2>1. o \in Orders
    BY <1>0, <1>1, <1>3 DEF WorkerAgrees
  <2>2. /\ status[o] = "refunded" => status'[o] = "refunded"
        /\ refund[o] # NoCart => refund'[o] # NoCart
        /\ \A v \in Variants : LineDone(o, v) => LineDone(o, v)'
    BY <1>1, <2>1, LineStaysDone DEF RecordsMove, ReturnsMove
  <2>3. QED
    BY <1>0, <1>1, <1>3, <2>2 DEF WorkerDelivers
<1>4. CASE work[u].at \notin {"cover", "sell", "retire"}
  BY <1>4 DEF WorkerDelivers
<1>5. QED
  BY <1>2, <1>3, <1>4

\* A message is retired when its work is done.
RetiresDone ==
  \A o \in Orders :
    /\ message'[FulfilTopic][o] = "sent" =>
         \/ message[FulfilTopic][o] = "sent"
         \/ status[o] = "refunded" \/ \A v \in Variants : LineDone(o, v)
    /\ message'[RestoreTopic][o] = "sent" =>
         message[RestoreTopic][o] = "sent" \/ refund[o] # NoCart

LEMMA RetiredStay ==
  ASSUME RowsKept, RetiresDone
  PROVE  RetiredAgree'
<1>1. RetiredAgree /\ RecordsMove /\ ReturnsMove
  BY DEF RowsKept, SagaInv, DeliveryInv
<1>2. SUFFICES ASSUME NEW o \in Orders
      PROVE  /\ message'[FulfilTopic][o] = "sent" =>
                  status'[o] = "refunded" \/ \A v \in Variants : LineDone(o, v)'
             /\ message'[RestoreTopic][o] = "sent" => refund'[o] # NoCart
             /\ refund'[o] # NoCart =>
                  status'[o] = "refunded" /\ \A v \in Variants : returned'[o][v] = sold'[o][v]
  BY DEF RetiredAgree
<1>3. \A v \in Variants : LineDone(o, v) => LineDone(o, v)'
  BY LineStaysDone
<1>4. /\ status[o] = "refunded" => status'[o] = "refunded"
      /\ refund[o] # NoCart => UNCHANGED <<refund[o], returned[o], sold[o]>>
      /\ refund[o] = NoCart /\ refund'[o] # NoCart =>
           status[o] = "refunded" /\ \A v \in Variants : returned'[o][v] = sold'[o][v]
  BY <1>1 DEF RecordsMove, ReturnsMove
<1>5. /\ message[FulfilTopic][o] = "sent" =>
           status[o] = "refunded" \/ \A v \in Variants : LineDone(o, v)
      /\ message[RestoreTopic][o] = "sent" => refund[o] # NoCart
      /\ refund[o] # NoCart =>
           status[o] = "refunded" /\ \A v \in Variants : returned[o][v] = sold[o][v]
  BY <1>1 DEF RetiredAgree
<1>6. /\ message'[FulfilTopic][o] = "sent" =>
           status[o] = "refunded" \/ \A v \in Variants : LineDone(o, v)
      /\ message'[RestoreTopic][o] = "sent" => refund[o] # NoCart
  BY <1>5 DEF RetiresDone
<1>7. QED
  BY <1>3, <1>4, <1>5, <1>6

\* A step of one worker keeps what is known of deliveries; so does one of nobody.
LEMMA WorkerKeepsDeliveries ==
  ASSUME RowsKept, RetiresDone, NEW w \in Workers, Alone(w), WorkerDelivers(w)'
  PROVE  DeliveryInv'
<1>1. ASSUME NEW u \in Workers, u # w PROVE WorkerDelivers(u)'
  <2>1. work'[u] = work[u]
    BY <1>1 DEF Alone
  <2>2. QED
    BY <2>1, OthersDeliver
<1>2. QED
  BY <1>1, RetiredStay DEF DeliveryInv, DeliveriesAgree

LEMMA NobodyKeepsDeliveries ==
  ASSUME RowsKept, UNCHANGED <<message, work>>
  PROVE  DeliveryInv'
<1>1. ASSUME NEW u \in Workers PROVE WorkerDelivers(u)'
  BY OthersDeliver
<1>2. RetiresDone
  BY DEF RetiresDone
<1>3. QED
  BY <1>1, <1>2, RetiredStay DEF DeliveryInv, DeliveriesAgree

\* A worker that does anything else knows nothing of deliveries.
LEMMA NothingKnown ==
  ASSUME NEW w \in Workers, work'[w].at \notin {"cover", "sell", "retire"}
  PROVE  WorkerDelivers(w)'
BY DEF WorkerDelivers

\* After the commit a line is sold, or its row had ended and it is short.
LEMMA CommitDelivers ==
  ASSUME RowsKept, NEW w \in Workers, CommitCart(w)
  PROVE  Alone(w) /\ WorkerDelivers(w)'
<1>1. PICK o : o = work[w].order
  OBVIOUS
<1> DEFINE c == CartOf[o]
<1>2. /\ WorkTypes /\ WorkerAgrees(w) /\ RecordsAgree /\ TypeOK /\ CartRows /\ SoldWhole'
  BY DEF RowsKept, SagaInv, RecordsInv, LedgerInv, WorkersAgree, RowsInv
<1>3. o \in Orders /\ status[o] = "paid"
  BY <1>1, <1>2 DEF CommitCart, WorkerAgrees
<1>4. receipt[o] \in {"active", "committed"} /\ checkout[o] # "new"
  BY <1>2, <1>3 DEF RecordsAgree
<1>5. /\ c \in Checkouts
      /\ \A v \in Variants : /\ hold[c][v].qty = OrderLines[o][v]
                             /\ OrderLines[o][v] > 0 => hold[c][v].status # "none"
                             /\ hold[c][v].status \in Statuses /\ OrderLines[o][v] \in Nat
  BY <1>2, <1>3, <1>4, IdsDiffer DEF CartRows, TypeOK, RowType
<1>6. \A v \in Variants : Committed(o, v) =
        IF hold[c][v].status \in {"active", "committed"} THEN OrderLines[o][v] ELSE 0
  BY <1>4, <1>5 DEF Committed
<1>7. /\ ShortLines(o) \in SUBSET Variants
      /\ \A v \in Variants : v \in ShortLines(o) <=>
           hold[c][v].status \notin {"active", "committed"} /\ OrderLines[o][v] > 0
  <2>1. ShortLines(o) \in SUBSET Variants
    BY DEF ShortLines
  <2>2. ASSUME NEW v \in Variants
        PROVE  v \in ShortLines(o) <=>
                 hold[c][v].status \notin {"active", "committed"} /\ OrderLines[o][v] > 0
    <3>1. v \in ShortLines(o) <=> Committed(o, v) < OrderLines[o][v]
      BY DEF ShortLines
    <3>2. QED
      BY <1>5, <1>6, <3>1
  <2>3. QED
    BY <2>1, <2>2
<1>8. TurnsInto(w, "cover", ShortLines(o), work[w].line)
  BY <1>1, <1>2, NotingSteps
<1>9. CommitHolds(c, o) \/ (ActiveLines(c) = {} /\ UNCHANGED hold)
  BY <1>1, <1>4 DEF CommitCart, ledger, vars
<1>10. \A v \in Variants :
         /\ hold[c][v].status \in {"active", "committed"} => hold'[c][v].status = "committed"
         /\ hold[c][v].status \notin {"active", "committed"} => hold'[c][v] = hold[c][v]
  <2>1. CASE CommitHolds(c, o)
    <3>1. SoldTo(c, o)
      BY <1>2, <1>3, <1>5, <2>1, CommitDoes
    <3>2. QED
      BY <3>1, RowStates DEF SoldTo, IsActive
  <2>2. CASE ActiveLines(c) = {} /\ UNCHANGED hold
    BY <2>2 DEF ActiveLines, IsActive
  <2>3. QED
    BY <1>9, <2>1, <2>2
<1>11. ActiveLines(c)' = {}
  <2>1. \A v \in Variants : hold'[c][v].status # "active"
    BY <1>10
  <2>2. QED
    BY <2>1 DEF ActiveLines, IsActive
<1>12. ASSUME NEW v \in ShortLines(o)
       PROVE  OrderLines[o][v] > 0 /\ hold'[c][v].status \in Ended
  BY <1>5, <1>7, <1>10 DEF Statuses, Terminal, Ended
<1>13. ASSUME NEW v \in Variants, v \notin ShortLines(o) PROVE LineDone(o, v)'
  <2>1. LineSold(o, v)' \/ OrderLines[o][v] = 0
    BY <1>5, <1>7, <1>10, <1>13 DEF LineSold
  <2>2. QED
    BY <1>2, <1>3, <2>1 DEF SoldWhole, LineDone
<1>14. QED
  BY <1>1, <1>8, <1>11, <1>12, <1>13 DEF TurnsInto, WorkerDelivers

\* A replacement is reserved under its id, now or by an attempt before.
LEMMA ReserveDelivers ==
  ASSUME RowsKept, NEW w \in Workers, NEW v \in Variants, ReserveReplacement(w, v)
  PROVE  Alone(w) /\ WorkerDelivers(w)'
<1>1. PICK o : o = work[w].order
  OBVIOUS
<1>2. WorkTypes /\ TypeOK /\ RowsMove
  BY DEF RowsKept, SagaInv, RecordsInv, LedgerInv
<1>3. work[w].at = "cover" /\ v \in work[w].short
  BY DEF ReserveReplacement
<1>4. /\ o \in Orders /\ work[w].short \in SUBSET Variants
      /\ ActiveLines(CartOf[o])' = {}
      /\ \A x \in work[w].short :
           OrderLines[o][x] > 0 /\ hold'[CartOf[o]][x].status \in Ended
      /\ \A x \in Variants : x \notin work[w].short => LineDone(o, x)'
  BY <1>1, <1>3, CoverStays
<1>5. TurnsInto(w, "sell", work[w].short, v)
  BY <1>2, NotingSteps
<1>6. SpareOf[o][v] \in Checkouts /\ ShortCart(o, v) \in Carts
  <2>1. ShortCart(o, v) \in Carts
    BY <1>1, <1>3, ReplacementCart DEF RowsKept
  <2>2. QED
    BY <1>4, <2>1, IdsDiffer
<1>7. claim'[SpareOf[o][v]] # NoCart
  <2>1. CASE ReserveLines(SpareOf[o][v], ShortCart(o, v))
    BY <1>2, <1>6, <2>1, ReserveDoes, RowStates DEF Placed
  <2>2. CASE claim[SpareOf[o][v]] = ShortCart(o, v)
    BY <1>2, <1>6, <2>2, RowStates DEF RowsMove
  <2>3. QED
    BY <1>1, <2>1, <2>2 DEF ReserveReplacement
<1>8. QED
  BY <1>1, <1>3, <1>4, <1>5, <1>7 DEF TurnsInto, WorkerDelivers

\* A replacement that was committed is sold, or it had expired.
LEMMA SellDelivers ==
  ASSUME RowsKept, NEW w \in Workers, SellReplacement(w)
  PROVE  Alone(w) /\ WorkerDelivers(w)'
<1>1. PICK o, v : o = work[w].order /\ v = work[w].line
  OBVIOUS
<1> DEFINE c == SpareOf[o][v]
<1>2. /\ WorkTypes /\ TypeOK /\ RowsMove /\ SpareRows /\ SoldWhole' /\ WorkerDelivers(w)
      /\ RowsInv
  BY DEF RowsKept, SagaInv, RecordsInv, LedgerInv, RowsInv, DeliveryInv, DeliveriesAgree
<1>3. work[w].at = "sell"
  BY DEF SellReplacement
<1>4. /\ o \in Orders /\ work[w].short \in SUBSET Variants
      /\ ActiveLines(CartOf[o])' = {}
      /\ \A x \in work[w].short :
           OrderLines[o][x] > 0 /\ hold'[CartOf[o]][x].status \in Ended
      /\ \A x \in Variants : x \notin work[w].short => LineDone(o, x)'
  BY <1>1, <1>3, CoverStays
<1>5. v \in work[w].short /\ claim[c] # NoCart
  BY <1>1, <1>2, <1>3 DEF WorkerDelivers
<1>6. v \in Variants /\ c \in Checkouts
  BY <1>4, <1>5, IdsDiffer
<1>7. TurnsInto(w, "cover", work[w].short \ {v}, NoLine)
  BY <1>1, <1>2, NotingSteps
<1>8. hold[c][v].status \in {"active", "committed", "expired"}
  BY <1>2, <1>4, <1>5, <1>6 DEF SpareRows
<1>9. CommitHolds(c, o) \/ (ActiveLines(c) = {} /\ UNCHANGED hold)
  BY <1>1 DEF SellReplacement, ledger, vars
<1>10. hold'[c][v].status \in {"committed", "expired"}
  <2>1. CASE CommitHolds(c, o)
    <3>1. SoldTo(c, o)
      BY <1>2, <1>4, <1>6, <2>1, CommitDoes
    <3>2. QED
      BY <1>6, <1>8, <3>1, RowStates DEF SoldTo, IsActive
  <2>2. CASE ActiveLines(c) = {} /\ UNCHANGED hold
    BY <1>6, <1>8, <2>2 DEF ActiveLines, IsActive
  <2>3. QED
    BY <1>9, <2>1, <2>2
<1>11. LineDone(o, v)'
  <2>1. hold'[c][v].status = "expired" \/ LineSold(o, v)'
    BY <1>10 DEF LineSold
  <2>2. QED
    BY <1>2, <1>4, <1>6, <2>1 DEF SoldWhole, LineDone
<1>12. QED
  BY <1>1, <1>4, <1>7, <1>11 DEF TurnsInto, WorkerDelivers

\* A delivery ends with every line done, with a refunded order, or with the
\* refund settled.
LEMMA EndDelivers ==
  ASSUME RowsKept, NEW w \in Workers,
         LockOrder(w) \/ FinishFulfilment(w) \/ RestoreStock(w)
  PROVE  Alone(w) /\ WorkerDelivers(w)'
<1>1. PICK o : o = work[w].order
  OBVIOUS
<1>2. /\ WorkTypes /\ WorkerAgrees(w) /\ WorkerDelivers(w) /\ RecordsAgree /\ RecordsMove
  BY DEF RowsKept, SagaInv, RecordsInv, WorkersAgree, DeliveryInv, DeliveriesAgree
<1>3. FulfilTopic # RestoreTopic
  BY DEF FulfilTopic, RestoreTopic
<1>4. CASE LockOrder(w) /\ Goto(w, "commit")
  BY <1>2, <1>4, WorkFields, Going, NothingKnown DEF TurnsInto
<1>5. CASE LockOrder(w) /\ ~Goto(w, "commit")
  <2>1. Goto(w, "retire") /\ status[o] \in {"cancelled", "refunded"} /\ work[w].at = "fulfil"
    BY <1>1, <1>5 DEF LockOrder
  <2>2. TurnsInto(w, "retire", work[w].short, work[w].line)
    BY <1>2, <2>1, WorkFields, Going
  <2>3. o \in Orders /\ work[w].topic = FulfilTopic /\ payment[o] = "paid"
    BY <1>1, <1>2, <2>1 DEF WorkerAgrees
  <2>4. status'[o] = "refunded"
    BY <1>2, <2>1, <2>3 DEF RecordsAgree, RecordsMove
  <2>5. QED
    BY <1>1, <1>3, <2>2, <2>3, <2>4 DEF TurnsInto, WorkerDelivers
<1>6. CASE FinishFulfilment(w)
  <2>1. Goto(w, "retire") /\ work[w].at = "cover" /\ work[w].short = {}
    BY <1>6 DEF FinishFulfilment
  <2>2. TurnsInto(w, "retire", work[w].short, work[w].line)
    BY <1>2, <2>1, WorkFields, Going
  <2>3. work[w].topic = FulfilTopic
    BY <1>2, <2>1 DEF WorkerAgrees
  <2>4. \A v \in Variants : LineDone(o, v)'
    BY <1>1, <2>1, CoverStays
  <2>5. QED
    BY <1>1, <1>3, <2>2, <2>3, <2>4 DEF TurnsInto, WorkerDelivers
<1>7. CASE RestoreStock(w)
  <2>1. Goto(w, "retire") /\ work[w].at = "restore"
    BY <1>7 DEF RestoreStock
  <2>2. TurnsInto(w, "retire", work[w].short, work[w].line)
    BY <1>2, <2>1, WorkFields, Going
  <2>3. o \in Orders /\ work[w].topic = RestoreTopic
    BY <1>1, <1>2, <2>1, WorkFields DEF WorkerAgrees
  <2>4. refund'[o] # NoCart
    <3>1. RestoreOrderStock(o, OrderLines[o]) \/ (refund[o] # NoCart /\ UNCHANGED ledger)
      BY <1>1, <1>7 DEF RestoreStock
    <3>2. refund \in [Orders -> Carts \cup {NoCart}] /\ OrderLines[o] # NoCart
      BY <2>3, IdsDiffer, RowStates DEF RowsKept, SagaInv, LedgerInv, TypeOK
    <3>3. QED
      BY <2>3, <3>1, <3>2 DEF RestoreOrderStock, ledger, vars, keys
  <2>5. QED
    BY <1>1, <1>3, <2>2, <2>3, <2>4 DEF TurnsInto, WorkerDelivers
<1>8. QED
  BY <1>4, <1>5, <1>6, <1>7

\* Every other step of a worker ends what it knew, or leaves it alone.
LEMMA QuietDelivers ==
  ASSUME RowsKept, NEW w \in Workers,
         \/ CancelCommits(w) \/ CancelFails(w) \/ CartReleased(w) \/ DeliveryFails(w)
         \/ RecordFailure(w) \/ Retire(w) \/ ReconcileCommits(w) \/ ReconcileSettles(w)
         \/ Crash(w)
  PROVE  Alone(w) /\ WorkerDelivers(w)'
<1>1. WorkTypes
  BY DEF RowsKept, SagaInv, RecordsInv
<1>2. ASSUME NEW step \in {"restore", "failed", "settle"}, Goto(w, step)
      PROVE  Alone(w) /\ WorkerDelivers(w)'
  <2>1. TurnsInto(w, step, work[w].short, work[w].line)
    BY <1>1, <1>2, WorkFields, Going
  <2>2. QED
    BY <1>2, <2>1, NothingKnown DEF TurnsInto
<1>3. CASE work' = [work EXCEPT ![w] = Idle]
  BY <1>1, <1>3, Ending, NothingKnown
<1>4. QED
  BY <1>2, <1>3 DEF CancelCommits, CancelFails, CartReleased, DeliveryFails, RecordFailure,
                    Retire, ReconcileCommits, ReconcileSettles, Crash

\* A worker that begins knows nothing yet.
LEMMA StartDelivers ==
  ASSUME RowsKept, NEW w \in Workers, NEW o \in Orders,
         \/ ConfirmOrderPaid(w, o) \/ MarkAsRefunded(w, o) \/ CancelBegins(w, o)
         \/ ReconcileBegins(w, o)
         \/ \E t \in Topics : Claim(w, t, o)
  PROVE  Alone(w) /\ WorkerDelivers(w)'
<1>1. WorkTypes /\ MessageTypes
  BY DEF RowsKept, SagaInv, RecordsInv
<1>2. ASSUME NEW step \in {"fulfil", "release", "cancel", "reconcile"},
             NEW topic \in Topics \cup {"none"}, NEW nth \in 0..MaxAttempts,
             Begin(w, o, step, topic, nth)
      PROVE  Alone(w) /\ WorkerDelivers(w)'
  <2>1. step \in Steps
    BY WorkFields
  <2>2. Alone(w) /\ work'[w].at = step
    BY <1>1, <1>2, <2>1, Beginning
  <2>3. QED
    BY <2>2, NothingKnown
<1>3. ASSUME NEW t \in Topics, Claim(w, t, o) PROVE Alone(w) /\ WorkerDelivers(w)'
  <2>1. FirstStep[t] \in {"fulfil", "release"}
    BY DEF FirstStep
  <2>2. attempts[t][o] \in 0..MaxAttempts /\ MaxAttempts \in Nat
    BY <1>1, FulfillmentAssumption DEF MessageTypes
  <2>3. \E nth \in 0..MaxAttempts : Begin(w, o, FirstStep[t], t, nth)
    BY <1>3, <2>2 DEF Claim
  <2>4. QED
    BY <1>2, <2>1, <2>3
<1>4. 0 \in 0..MaxAttempts /\ "order.fulfill_stock" \in Topics /\ "order.restore_stock" \in Topics
  BY FulfillmentAssumption DEF Topics
<1>5. QED
  BY <1>2, <1>3, <1>4 DEF ConfirmOrderPaid, MarkAsRefunded, CancelBegins, ReconcileBegins

\* A message turns SENT when its delivery says so.
LEMMA MessagesRetire ==
  ASSUME RowsKept, [SagaNext]_sagaVars
  PROVE  RetiresDone
<1>1. WorkTypes /\ MessageTypes /\ WorkersAgree /\ DeliveriesAgree
  BY DEF RowsKept, SagaInv, RecordsInv, DeliveryInv
<1>2. FulfilTopic \in Topics /\ RestoreTopic \in Topics /\ FulfilTopic # RestoreTopic
  BY WorkFields DEF FulfilTopic, RestoreTopic
<1>3. ASSUME UNCHANGED message PROVE RetiresDone
  BY <1>3 DEF RetiresDone
<1>4. ASSUME NEW t \in Topics, NEW o \in Orders, NEW mark \in {"pending", "dead"},
             message' = [message EXCEPT ![t][o] = mark]
      PROVE  RetiresDone
  <2>1. \A p \in Orders, x \in Topics : message'[x][p] = "sent" => message[x][p] = "sent"
    BY <1>1, <1>4 DEF MessageTypes
  <2>2. QED
    BY <1>2, <2>1 DEF RetiresDone
<1>5. ASSUME NEW w \in Workers, Retire(w) PROVE RetiresDone
  <2>1. PICK o, t : o = work[w].order /\ t = work[w].topic
    OBVIOUS
  <2>2. /\ work[w].at = "retire" /\ o \in Orders /\ t \in Topics
        /\ message' = [message EXCEPT ![t][o] = "sent"]
    BY <1>1, <1>5, <2>1 DEF Retire, WorkersAgree, WorkerAgrees
  <2>3. /\ t = FulfilTopic => status[o] = "refunded" \/ \A v \in Variants : LineDone(o, v)
        /\ t = RestoreTopic => refund[o] # NoCart
    BY <1>1, <2>1, <2>2 DEF DeliveriesAgree, WorkerDelivers
  <2>4. \A p \in Orders, x \in Topics : p # o \/ x # t => message'[x][p] = message[x][p]
    BY <1>1, <2>2 DEF MessageTypes
  <2>5. QED
    BY <1>2, <2>3, <2>4 DEF RetiresDone
<1>6. ASSUME NEW w \in Workers, RecordFailure(w) PROVE RetiresDone
  <2>1. work[w].order \in Orders /\ work[w].topic \in Topics
    BY <1>1, <1>6 DEF RecordFailure, WorkersAgree, WorkerAgrees
  <2>2. CASE work[w].nth = MaxAttempts
    <3>1. PICK o, t : o = work[w].order /\ t = work[w].topic
      OBVIOUS
    <3>2. message' = [message EXCEPT ![t][o] = "dead"]
      BY <1>6, <2>2, <3>1 DEF RecordFailure
    <3>3. QED
      BY <1>4, <2>1, <3>1, <3>2
  <2>3. CASE work[w].nth # MaxAttempts
    BY <1>3, <1>6, <2>3 DEF RecordFailure
  <2>4. QED
    BY <2>2, <2>3
<1>7. ASSUME NEW w \in Workers, WorkerStep(w) \/ Crash(w), ~RecordFailure(w), ~Retire(w)
      PROVE  UNCHANGED message
  BY <1>7
     DEF WorkerStep, CancelReleases, CancelCommits, CancelFails, LockOrder, CommitCart,
         SellReplacement, ReserveReplacement, FinishFulfilment, ReleaseCart, CartReleased,
         RestoreStock, DeliveryFails, ReconcileCommits, ReconcileSettles, Crash, outbox
<1>8. ASSUME NEW w \in Workers, NEW o \in Orders, ConfirmOrderPaid(w, o) \/ MarkAsRefunded(w, o)
      PROVE  RetiresDone
  BY <1>4, <1>8, WorkFields DEF ConfirmOrderPaid, MarkAsRefunded, FulfilTopic, RestoreTopic
<1>9. ASSUME NEW w \in Workers, NEW o \in Orders,
             CancelBegins(w, o) \/ ReconcileBegins(w, o) \/ \E t \in Topics : Claim(w, t, o)
      PROVE  RetiresDone
  BY <1>3, <1>9 DEF CancelBegins, ReconcileBegins, Claim, outbox
<1>10. ASSUME NEW o \in Orders, Checkout(o) \/ PaymentFails(o) PROVE UNCHANGED message
  BY <1>10 DEF Checkout, SecureStock, BuildOrder, BuildFails, OpenSession, SessionFails,
       Compensate, Compensated, MarkReceipt, CancelUnpayable, PaymentFails, outbox
<1>11. CASE Elsewhere \/ UNCHANGED sagaVars
  BY <1>3, <1>11 DEF Elsewhere, sagaVars, outbox
<1>12. QED
  BY <1>3, <1>5, <1>6, <1>7, <1>8, <1>9, <1>10, <1>11 DEF SagaNext

\* Whatever happens, what is known of deliveries stays true.
LEMMA DeliveryInductive ==
  ASSUME RowsKept, [SagaNext]_sagaVars
  PROVE  DeliveryInv'
<1>1. RetiresDone
  BY MessagesRetire
<1>2. ASSUME NEW w \in Workers, Alone(w) /\ WorkerDelivers(w)' PROVE DeliveryInv'
  BY <1>1, <1>2, WorkerKeepsDeliveries
<1>3. ASSUME NEW w \in Workers, CancelReleases(w) \/ ReleaseCart(w) PROVE DeliveryInv'
  <2>1. UNCHANGED <<message, work>>
    BY <1>3 DEF CancelReleases, ReleaseCart, outbox
  <2>2. QED
    BY <2>1, NobodyKeepsDeliveries
<1>4. ASSUME NEW w \in Workers, WorkerStep(w) \/ Crash(w) PROVE DeliveryInv'
  <2>1. CASE CommitCart(w)
    BY <1>2, <2>1, CommitDelivers
  <2>2. CASE \E v \in Variants : ReserveReplacement(w, v)
    BY <1>2, <2>2, ReserveDelivers
  <2>3. CASE SellReplacement(w)
    BY <1>2, <2>3, SellDelivers
  <2>4. CASE LockOrder(w) \/ FinishFulfilment(w) \/ RestoreStock(w)
    BY <1>2, <2>4, EndDelivers
  <2>5. CASE \/ CancelCommits(w) \/ CancelFails(w) \/ CartReleased(w) \/ DeliveryFails(w)
             \/ RecordFailure(w) \/ Retire(w) \/ ReconcileCommits(w) \/ ReconcileSettles(w)
             \/ Crash(w)
    BY <1>2, <2>5, QuietDelivers
  <2>6. QED
    BY <1>3, <1>4, <2>1, <2>2, <2>3, <2>4, <2>5 DEF WorkerStep
<1>5. ASSUME NEW w \in Workers, NEW o \in Orders,
             \/ ConfirmOrderPaid(w, o) \/ MarkAsRefunded(w, o) \/ CancelBegins(w, o)
             \/ ReconcileBegins(w, o)
             \/ \E t \in Topics : Claim(w, t, o)
      PROVE  DeliveryInv'
  BY <1>2, <1>5, StartDelivers
<1>6. ASSUME NEW o \in Orders, Checkout(o) \/ PaymentFails(o) PROVE DeliveryInv'
  <2>1. UNCHANGED <<message, work>>
    BY <1>6 DEF Checkout, SecureStock, BuildOrder, BuildFails, OpenSession, SessionFails,
         Compensate, Compensated, MarkReceipt, CancelUnpayable, PaymentFails, outbox
  <2>2. QED
    BY <2>1, NobodyKeepsDeliveries
<1>7. CASE Elsewhere \/ UNCHANGED sagaVars
  <2>1. UNCHANGED <<message, work>>
    BY <1>7 DEF Elsewhere, sagaVars, outbox
  <2>2. QED
    BY <2>1, NobodyKeepsDeliveries
<1>8. QED
  BY <1>4, <1>5, <1>6, <1>7 DEF SagaNext

-----------------------------------------------------------------------------
(* The saga's invariant *)

\* Nothing has happened yet.
LEMMA SagaInitially == SagaInit => SagaInv
<1> SUFFICES ASSUME SagaInit PROVE SagaInv
  OBVIOUS
<1>1. Init
  BY DEF SagaInit
<1>2. RecordsInv
  BY RecordsInitially
<1>3. LedgerInv
  <2>1. TypeOK /\ NoOversell /\ ReturnedWasSold
    BY <1>1, LedgerAssumption
       DEF Init, TypeOK, NoOversell, ReturnedWasSold, NoRow, RowType, Statuses, Terminal
  <2>2. QED
    BY <1>1, <2>1, RowsCountedInitially DEF LedgerInv
<1>4. /\ \A c \in Checkouts : claim[c] = NoCart
      /\ \A c \in Checkouts, v \in Variants : hold[c][v] = NoRow
      /\ \A o \in Orders : refund[o] = NoCart
      /\ \A o \in Orders, v \in Variants : sold[o][v] = 0
  BY <1>1 DEF Init
<1>5. RowsInv
  <2>1. \A o \in Orders : /\ claim[CartOf[o]] = NoCart /\ ActiveLines(CartOf[o]) = {}
                          /\ checkout[o] = "new"
                          /\ \A v \in Variants : hold[CartOf[o]][v].status = "none"
    BY <1>4, IdsDiffer, RowStates DEF ActiveLines, IsActive, SagaInit
  <2>2. \A o \in Orders, v \in Variants :
          claim[SpareOf[o][v]] = NoCart /\ hold[SpareOf[o][v]][v].status = "none"
    BY <1>4, IdsDiffer, RowStates
  <2>3. NoRowsUnclaimed /\ CartRows /\ SpareRows
    BY <1>4, <2>1, <2>2 DEF NoRowsUnclaimed, CartRows, SpareRows
  <2>4. SoldWhole
    BY <1>4, <2>1, <2>2 DEF SoldWhole, LineSold
  <2>5. QED
    BY <2>3, <2>4 DEF RowsInv
<1>6. DeliveryInv
  <2>1. \A w \in Workers : work[w].at = "idle"
    BY WorkFields DEF SagaInit
  <2>2. \A t \in Topics, o \in Orders : message[t][o] = "none"
    BY DEF SagaInit
  <2>3. DeliveriesAgree
    BY <2>1 DEF DeliveriesAgree, WorkerDelivers
  <2>4. RetiredAgree
    BY <1>4, <2>2, WorkFields DEF RetiredAgree
  <2>5. QED
    BY <2>3, <2>4 DEF DeliveryInv
<1>7. QED
  BY <1>2, <1>3, <1>5, <1>6 DEF SagaInv

\* Every step keeps it, and is a step or a stutter of the pool.
LEMMA SagaInductive ==
  SagaInv /\ [SagaNext]_sagaVars => SagaInv' /\ [Pool!PoolNext]_(Pool!pool)
<1> SUFFICES ASSUME SagaInv, [SagaNext]_sagaVars
             PROVE  SagaInv' /\ [Pool!PoolNext]_(Pool!pool)
  OBVIOUS
<1>1. RecordsInv' /\ RecordsMove /\ RowsInv' /\ RowsMove /\ ReturnsMove /\ LedgerMoves
  BY RowsInductive
<1>2. LedgerInv' /\ [Pool!PoolNext]_(Pool!pool)
  BY <1>1, LedgerKeeps DEF SagaInv
<1>3. DeliveryInv'
  BY <1>1, DeliveryInductive DEF RowsKept
<1>4. QED
  BY <1>1, <1>2, <1>3 DEF SagaInv

\* Every step books the units it moves.
LEMMA SagaBooks ==
  ASSUME SagaInv, [SagaNext]_sagaVars
  PROVE  TypeOK /\ Booked
<1>1. LedgerMoves /\ TypeOK
  BY RowsInductive DEF SagaInv, LedgerInv
<1>2. ASSUME NEW c \in Checkouts, NEW v \in Variants, ExpireHold(c, v) PROVE Booked
  BY <1>2 DEF ExpireHold, EndRow, movements, Booked
<1>3. QED
  BY <1>1, <1>2, StepBooks DEF LedgerMoves

LEMMA SagaHolds == SagaSpec => []SagaInv
<1>1. QED
  BY SagaInitially, SagaInductive, PTL DEF SagaSpec

-----------------------------------------------------------------------------
(* Theorems *)

\* Every record, message, worker and counter keeps to its type.
THEOREM SagaTypeCorrect == SagaSpec => []SagaTypeOK
<1>1. SagaInv => SagaTypeOK
  BY DEF SagaInv, RecordsInv, LedgerInv, SagaTypeOK, RecordTypes, MessageTypes, WorkTypes,
         WorkRecord, CheckoutSteps, StatusNames, PaymentNames, ReceiptNames
<1>2. QED
  BY <1>1, SagaHolds, PTL

\* However many workers deliver an order however often, and whatever dies in
\* between, no line is sold more than it was ordered.
THEOREM DeliveredOnce == SagaSpec => []OneSalePerOrder
<1>1. SagaInv => OneSalePerOrder
  <2> SUFFICES ASSUME SagaInv, NEW o \in Orders, NEW v \in Variants
               PROVE  sold[o][v] <= OrderLines[o][v]
    BY DEF OneSalePerOrder
  <2>1. sold[o][v] = IF LineSold(o, v) THEN OrderLines[o][v] ELSE 0
    BY DEF SagaInv, RowsInv, SoldWhole
  <2>2. QED
    BY <2>1, IdsDiffer
<1>2. QED
  BY <1>1, SagaHolds, PTL

\* A refund whose message is retired has put back all the order ever took, and
\* nothing is sold to the order afterwards.
THEOREM RefundsAreWhole == SagaSpec => []RefundRestores
<1>1. SagaInv => RefundRestores
  <2> SUFFICES ASSUME SagaInv, NEW o \in Orders, message["order.restore_stock"][o] = "sent"
               PROVE  returned[o] = sold[o]
    BY DEF RefundRestores
  <2>1. \A v \in Variants : returned[o][v] = sold[o][v]
    BY DEF SagaInv, DeliveryInv, RetiredAgree, RestoreTopic
  <2>2. returned[o] \in [Variants -> Nat] /\ sold[o] \in [Variants -> Nat]
    BY DEF SagaInv, LedgerInv, TypeOK
  <2>3. QED
    BY <2>1, <2>2
<1>2. QED
  BY <1>1, SagaHolds, PTL

\* The outbox retires the fulfilment of a paid order only when every line is sold
\* or its replacement expired.
THEOREM RetiredIsDone == SagaSpec => []RetiredIsSoldOrExpired
<1>1. SagaInv => RetiredIsSoldOrExpired
  BY DEF SagaInv, DeliveryInv, RetiredAgree, FulfilTopic, LineDone, RetiredIsSoldOrExpired
<1>2. QED
  BY <1>1, SagaHolds, PTL

\* A receipt that says RELEASED is right: the cart holds nothing and sold nothing.
THEOREM ReleasedMeansReleased == SagaSpec => []ReleasedReceiptHoldsNothing
<1>1. SagaInv => ReleasedReceiptHoldsNothing
  <2> SUFFICES ASSUME SagaInv, NEW o \in Orders, NEW v \in Variants, receipt[o] = "released"
               PROVE  hold[CartOf[o]][v].status \in {"none", "released", "expired"}
    BY DEF ReleasedReceiptHoldsNothing
  <2>1. RecordsAgree /\ CartRows /\ TypeOK
    BY DEF SagaInv, RecordsInv, RowsInv, LedgerInv
  <2>2. hold[CartOf[o]][v].status # "active"
    BY <2>1 DEF CartRows, ActiveLines, IsActive
  <2>3. payment[o] # "paid"
    BY <2>1 DEF RecordsAgree
  <2>4. hold[CartOf[o]][v].status # "committed"
    BY <2>1, <2>3 DEF CartRows
  <2>5. hold[CartOf[o]][v].status \in Statuses
    BY <2>1, IdsDiffer DEF TypeOK, RowType
  <2>6. QED
    BY <2>2, <2>4, <2>5 DEF Statuses, Terminal
<1>2. QED
  BY <1>1, SagaHolds, PTL

\* Units leave the shelf for a payment, or because a lost receipt is reconciled.
THEOREM SalesArePaidOrReconciled == SagaSpec => []UnpaidSaleIsReconciled
<1>1. SagaInv => UnpaidSaleIsReconciled
  <2> SUFFICES ASSUME SagaInv, NEW o \in Orders, NEW v \in Variants,
                      sold[o][v] > 0, payment[o] # "paid"
               PROVE  receipt[o] \in {"unknown", "committed"}
    BY DEF UnpaidSaleIsReconciled
  <2>1. CartRows /\ SpareRows /\ SoldWhole /\ NoRowsUnclaimed
    BY DEF SagaInv, RowsInv
  <2>2. LineSold(o, v)
    BY <2>1 DEF SoldWhole
  <2>3. claim[SpareOf[o][v]] = NoCart
    BY <2>1 DEF SpareRows
  <2>4. hold[SpareOf[o][v]][v].status = "none"
    BY <2>1, <2>3, IdsDiffer, RowStates DEF NoRowsUnclaimed
  <2>5. hold[CartOf[o]][v].status = "committed"
    BY <2>2, <2>4 DEF LineSold
  <2>6. QED
    BY <2>1, <2>5 DEF CartRows
<1>2. QED
  BY <1>1, SagaHolds, PTL

\* Under its real callers too, the ledger never promises a unit twice.
THEOREM SagaNeverOversells == SagaSpec => [](NoOversell /\ ReturnedWasSold)
<1>1. SagaInv => NoOversell /\ ReturnedWasSold
  BY DEF SagaInv, LedgerInv
<1>2. QED
  BY <1>1, SagaHolds, PTL

\* Nor do its counters ever disagree with its rows.
THEOREM SagaCountsItsRows == SagaSpec => [](ReservedIsHeld /\ SoldIsCommitted)
<1>1. SagaInv => ReservedIsHeld /\ SoldIsCommitted
  BY DEF SagaInv, LedgerInv, RowsCounted, ReservedIsHeld, SoldIsCommitted
<1>2. QED
  BY <1>1, SagaHolds, PTL

\* And the movements of a variant add up to its counter, whatever payments, refunds,
\* retries and crashes there were.
THEOREM SagaMovementsAddUp == SagaSpec => []AuditTrail
<1>1. SagaInit => BooksAgree
  BY BooksOpen DEF SagaInit
<1>2. SagaInv /\ BooksAgree /\ [SagaNext]_sagaVars => BooksAgree'
  BY SagaBooks, BooksMove
<1>3. SagaInv /\ BooksAgree => AuditTrail
  BY DEF SagaInv, LedgerInv, BooksAgree, OnShelf, AuditTrail, Column
<1>4. QED
  BY <1>1, <1>2, <1>3, SagaHolds, PTL DEF SagaSpec

\* Checkouts, payments, refunds, retries and crashes together move units as the
\* abstract pool does.
THEOREM SagaImplementsPool == SagaSpec => ImplementsUnitPool
<1>1. SagaInit => Pool!PoolInit
  BY InitImplements DEF SagaInit
<1>2. QED
  BY <1>1, SagaHolds, SagaInductive, PTL DEF SagaSpec, ImplementsUnitPool, Pool!PoolSpec

=============================================================================
