----------------------------- MODULE StockLedger -----------------------------
(***************************************************************************)
(* The in-process inventory provider (apps/inventory/providers/local.py).  *)
(*                                                                         *)
(* Every database transaction of the provider is one action: its row locks *)
(* are held to the commit, so nobody sees the middle of it.  What is NOT   *)
(* atomic in the code is not atomic here: the TTL sweep and release_holds  *)
(* read their candidate rows without a lock and then run one transaction   *)
(* per row, and anything may happen in between.                            *)
(*                                                                         *)
(* A Reservation row is identified by its checkout and its variant.  A call *)
(* that raises is rolled back, and one that replays an answered request     *)
(* only reads: neither is a step.                                           *)
(***************************************************************************)
EXTENDS Integers, FiniteSets, Functions

CONSTANTS
  Variants,   \* the SKUs that have a StockRecord
  Checkouts,  \* checkout ids; one more stands for each reservation without one
  Orders,     \* order primary keys
  NoOrder,    \* a reservation's order while it is NULL
  NoCart,     \* an idempotency key nobody has claimed
  Opening,    \* qty_on_hand of each variant at the start
  MaxLine,    \* bound: units on one cart line
  Deltas,     \* bound: the deltas adjust_stock is called with
  MaxOnHand,  \* bound: units of one variant an adjustment may reach
  Sweepers,   \* processes that run the TTL sweep
  Releasers   \* processes that run release_holds

ASSUME LedgerAssumption ==
  /\ NoOrder \notin Orders
  /\ MaxLine \in Nat /\ MaxOnHand \in Nat
  /\ NoCart \notin [Variants -> 0..MaxLine]
  /\ Opening \in [Variants -> Nat]
  /\ Deltas \subseteq Int

\* The movements of a variant are summed over the orders.
ASSUME OrdersAssumption == IsFiniteSet(Orders)

VARIABLES
  onHand,     \* StockRecord.qty_on_hand
  reserved,   \* StockRecord.qty_reserved
  hold,       \* hold[c][v]: the Reservation row of a checkout and a variant
  overdue,    \* overdue[c]: the checkout's expires_at has passed
  claim,      \* claim[c]: the cart fingerprinted under key reserve_lines:c
  refund,     \* refund[o]: the lines fingerprinted under key refund:o
  sold,       \* sold[o][v]: minus the sum of the SALE movements of o and v
  returned,   \* returned[o][v]: the sum of the RETURN movements of o and v
  adjusted,   \* adjusted[v]: the sum of the movements of v that name no order
  sweeping,   \* sweeping[s]: candidate rows the sweep s has still to visit
  releasing   \* releasing[p]: candidate rows the call p has still to release

counters == <<onHand, reserved>>
movements == <<sold, returned, adjusted>>
keys == <<claim, refund>>
calls == <<sweeping, releasing>>
vars == <<counters, hold, overdue, keys, movements, calls>>

Statuses == {"none", "active", "committed", "released", "expired"}
Terminal == {"committed", "released", "expired"}
Reasons == {"sale", "restock", "adjustment", "return"}
Carts == {cart \in [Variants -> 0..MaxLine] : \E v \in Variants : cart[v] > 0}
Rows == Checkouts \X Variants

RowType == [status : Statuses, qty : Nat, order : Orders \cup {NoOrder}]
NoRow == [status |-> "none", qty |-> 0, order |-> NoOrder]
NewRow(qty) == [status |-> "active", qty |-> qty, order |-> NoOrder]
EndedRow(row, status, order) == [status |-> status, qty |-> row.qty, order |-> order]

Available(v) == onHand[v] - reserved[v]
IsActive(c, v) == hold[c][v].status = "active"
ActiveLines(c) == {v \in Variants : IsActive(c, v)}

TypeOK ==
  /\ onHand \in [Variants -> Nat]
  /\ reserved \in [Variants -> Nat]
  /\ hold \in [Checkouts -> [Variants -> RowType]]
  /\ overdue \in [Checkouts -> BOOLEAN]
  /\ claim \in [Checkouts -> Carts \cup {NoCart}]
  /\ refund \in [Orders -> Carts \cup {NoCart}]
  /\ sold \in [Orders -> [Variants -> Nat]]
  /\ returned \in [Orders -> [Variants -> Nat]]
  /\ adjusted \in [Variants -> Int]
  /\ sweeping \in [Sweepers -> SUBSET Rows]
  /\ releasing \in [Releasers -> SUBSET Rows]

Init ==
  /\ onHand = Opening
  /\ reserved = [v \in Variants |-> 0]
  /\ hold = [c \in Checkouts |-> [v \in Variants |-> NoRow]]
  /\ overdue = [c \in Checkouts |-> FALSE]
  /\ claim = [c \in Checkouts |-> NoCart]
  /\ refund = [o \in Orders |-> NoCart]
  /\ sold = [o \in Orders |-> [v \in Variants |-> 0]]
  /\ returned = [o \in Orders |-> [v \in Variants |-> 0]]
  /\ adjusted = [v \in Variants |-> 0]
  /\ sweeping = [s \in Sweepers |-> {}]
  /\ releasing = [p \in Releasers |-> {}]

-----------------------------------------------------------------------------
(* Placing holds *)

\* The rows and the counter move together, under the stock locks.
PlaceRows(c, cart) ==
  /\ \A v \in Variants : hold[c][v] = NoRow /\ cart[v] <= Available(v)
  /\ reserved' = [v \in Variants |-> reserved[v] + cart[v]]
  /\ hold' = [hold EXCEPT ![c] =
       [v \in Variants |-> IF cart[v] > 0 THEN NewRow(cart[v]) ELSE NoRow]]
  /\ UNCHANGED <<onHand, overdue, refund, movements, calls>>

\* The key and every row are written in one transaction: a line that does not
\* fit rolls the key back too, so a later attempt is not taken for a replay.
ReserveLines(c, cart) ==
  /\ claim[c] = NoCart
  /\ PlaceRows(c, cart)
  /\ claim' = [claim EXCEPT ![c] = cart]

\* A single hold, guarded by no key.
ReserveStock(c, v, qty) ==
  /\ claim[c] = NoCart
  /\ PlaceRows(c, [w \in Variants |-> IF w = v THEN qty ELSE 0])
  /\ UNCHANGED claim

\* The clock passes expires_at, which all rows of a checkout share.
PassExpiry(c) ==
  /\ ActiveLines(c) # {}
  /\ ~overdue[c]
  /\ overdue' = [overdue EXCEPT ![c] = TRUE]
  /\ UNCHANGED <<counters, hold, keys, movements, calls>>

-----------------------------------------------------------------------------
(* Ending holds *)

\* Mutant of SellRows: the units leave the shelf without a SALE movement.
SellRowsUnrecorded(c, lines, o) ==
  LET qty(v) == IF v \in lines THEN hold[c][v].qty ELSE 0
  IN /\ \A v \in lines : qty(v) <= onHand[v] /\ qty(v) <= reserved[v]
     /\ onHand' = [v \in Variants |-> onHand[v] - qty(v)]
     /\ reserved' = [v \in Variants |-> reserved[v] - qty(v)]
     /\ hold' = [hold EXCEPT ![c] = [v \in Variants |->
          IF v \in lines THEN EndedRow(hold[c][v], "committed", o) ELSE hold[c][v]]]
     /\ UNCHANGED <<overdue, keys, sold, returned, adjusted, calls>>

\* commit_reservation's body for some ACTIVE rows of one checkout.
SellRows(c, lines, o) ==
  LET qty(v) == IF v \in lines THEN hold[c][v].qty ELSE 0
  IN /\ \A v \in lines : qty(v) <= onHand[v] /\ qty(v) <= reserved[v]
     /\ onHand' = [v \in Variants |-> onHand[v] - qty(v)]
     /\ reserved' = [v \in Variants |-> reserved[v] - qty(v)]
     /\ sold' = [sold EXCEPT ![o] = [v \in Variants |-> sold[o][v] + qty(v)]]
     /\ hold' = [hold EXCEPT ![c] = [v \in Variants |->
          IF v \in lines THEN EndedRow(hold[c][v], "committed", o) ELSE hold[c][v]]]
     /\ UNCHANGED <<overdue, keys, returned, adjusted, calls>>

\* Mutant of CommitHolds: a replay sells the committed rows again.
CommitHoldsReplayed(c, o) ==
  LET lines == {v \in Variants : hold[c][v].status \in {"active", "committed"}}
  IN /\ lines # {}
     /\ SellRows(c, lines, o)

\* One transaction over the whole group.  A row another order committed raises
\* and rolls the group back; a hold past its TTL that no sweep has visited is
\* still ACTIVE, and sells.
CommitHolds(c, o) ==
  /\ ActiveLines(c) # {}
  /\ \A v \in Variants : hold[c][v].status = "committed" => hold[c][v].order = o
  /\ SellRows(c, ActiveLines(c), o)

CommitReservation(c, v, o) ==
  /\ IsActive(c, v)
  /\ SellRows(c, {v}, o)

\* _end_active_reservation: the units of one ACTIVE row become available.
EndRow(c, v, status) ==
  /\ hold[c][v].qty <= reserved[v]
  /\ reserved' = [reserved EXCEPT ![v] = @ - hold[c][v].qty]
  /\ hold' = [hold EXCEPT ![c][v] = EndedRow(hold[c][v], status, NoOrder)]
  /\ UNCHANGED <<onHand, overdue, keys, movements>>

ReleaseReservation(c, v) ==
  /\ IsActive(c, v)
  /\ EndRow(c, v, "released")
  /\ UNCHANGED calls

-----------------------------------------------------------------------------
(* release_holds: an unlocked read, then one transaction per row *)

ReleaseBegin(p, c) ==
  /\ releasing[p] = {}
  /\ ActiveLines(c) # {}
  /\ releasing' = [releasing EXCEPT ![p] = {c} \X ActiveLines(c)]
  /\ UNCHANGED <<counters, hold, overdue, keys, movements, sweeping>>

\* Mutant of ReleaseRow: the row is released as it was read, without its lock.
ReleaseRowUnlocked(p, c, v) ==
  /\ <<c, v>> \in releasing[p]
  /\ EndRow(c, v, "released")
  /\ releasing' = [releasing EXCEPT ![p] = @ \ {<<c, v>>}]
  /\ UNCHANGED sweeping

\* A row somebody released or expired meanwhile is fine; one that was sold
\* meanwhile raises, and the rows after it are not visited.
ReleaseRow(p, c, v) ==
  /\ <<c, v>> \in releasing[p]
  /\ \/ /\ IsActive(c, v)
        /\ EndRow(c, v, "released")
        /\ releasing' = [releasing EXCEPT ![p] = @ \ {<<c, v>>}]
     \/ /\ hold[c][v].status \in {"released", "expired"}
        /\ releasing' = [releasing EXCEPT ![p] = @ \ {<<c, v>>}]
        /\ UNCHANGED <<counters, hold, overdue, keys, movements>>
     \/ /\ hold[c][v].status = "committed"
        /\ releasing' = [releasing EXCEPT ![p] = {}]
        /\ UNCHANGED <<counters, hold, overdue, keys, movements>>
  /\ UNCHANGED sweeping

-----------------------------------------------------------------------------
(* release_expired_reservations: the same shape, for overdue rows *)

\* Mutant of SweepCandidates: expires_at is compared the wrong way round.
SweepCandidatesFresh == {row \in Rows : IsActive(row[1], row[2]) /\ ~overdue[row[1]]}

SweepCandidates == {row \in Rows : IsActive(row[1], row[2]) /\ overdue[row[1]]}

SweepBegin(s) ==
  /\ sweeping[s] = {}
  /\ SweepCandidates # {}
  /\ sweeping' = [sweeping EXCEPT ![s] = SweepCandidates]
  /\ UNCHANGED <<counters, hold, overdue, keys, movements, releasing>>

\* Mutant of Sweepable: the status is not checked again.
SweepableUnchecked(c, v) == overdue[c]

\* The row is read again under its lock: a commit or a release may have won.
Sweepable(c, v) == IsActive(c, v) /\ overdue[c]
\* Mutant of SweepRow: the row is not read again, and the counter not checked.
SweepRowBlind(s, c, v) ==
  /\ <<c, v>> \in sweeping[s]
  /\ sweeping' = [sweeping EXCEPT ![s] = @ \ {<<c, v>>}]
  /\ reserved' = [reserved EXCEPT ![v] = @ - hold[c][v].qty]
  /\ hold' = [hold EXCEPT ![c][v] = EndedRow(hold[c][v], "expired", NoOrder)]
  /\ UNCHANGED <<onHand, overdue, keys, movements, releasing>>

SweepRow(s, c, v) ==
  /\ <<c, v>> \in sweeping[s]
  /\ sweeping' = [sweeping EXCEPT ![s] = @ \ {<<c, v>>}]
  /\ \/ Sweepable(c, v) /\ EndRow(c, v, "expired")
     \/ ~Sweepable(c, v) /\ UNCHANGED <<counters, hold, overdue, keys, movements>>
  /\ UNCHANGED releasing

\* A row whose transaction fails is logged and left to the next sweep.
SweepRowFails(s, c, v) ==
  /\ <<c, v>> \in sweeping[s]
  /\ sweeping' = [sweeping EXCEPT ![s] = @ \ {<<c, v>>}]
  /\ UNCHANGED <<counters, hold, overdue, keys, movements, releasing>>

-----------------------------------------------------------------------------
(* Physical changes *)

\* Mutant of AdjustStock: the floor is zero, not what is reserved.
AdjustStockUnchecked(v, delta, reason) ==
  /\ delta # 0
  /\ reason # "sale"
  /\ reason \in {"restock", "return"} => delta > 0
  /\ onHand[v] + delta >= 0
  /\ delta > 0 => onHand[v] + delta <= MaxOnHand
  /\ onHand' = [onHand EXCEPT ![v] = @ + delta]
  /\ adjusted' = [adjusted EXCEPT ![v] = @ + delta]
  /\ UNCHANGED <<reserved, hold, overdue, keys, sold, returned, calls>>

\* adjust_stock as staff call it, without an order.
AdjustStock(v, delta, reason) ==
  /\ delta # 0
  /\ reason # "sale"
  /\ reason \in {"restock", "return"} => delta > 0
  /\ onHand[v] + delta >= reserved[v]
  /\ delta > 0 => onHand[v] + delta <= MaxOnHand
  /\ onHand' = [onHand EXCEPT ![v] = @ + delta]
  /\ adjusted' = [adjusted EXCEPT ![v] = @ + delta]
  /\ UNCHANGED <<reserved, hold, overdue, keys, sold, returned, calls>>

\* Mutant of Outstanding: earlier returns and the sale are not looked at.
OutstandingAll(o, v) == MaxLine

\* What a refund puts back: no line more than the order still has of it.
Outstanding(o, v) == IF sold[o][v] > returned[o][v] THEN sold[o][v] - returned[o][v] ELSE 0
Restorable(o, cart) ==
  [v \in Variants |-> IF cart[v] < Outstanding(o, v) THEN cart[v] ELSE Outstanding(o, v)]

\* Mutant of RestoreOrderStock: the RETURN movement without the units.
RestoreWithoutStock(o, cart) ==
  /\ refund[o] = NoCart
  /\ refund' = [refund EXCEPT ![o] = cart]
  /\ returned' = [returned EXCEPT ![o] =
       [v \in Variants |-> returned[o][v] + Restorable(o, cart)[v]]]
  /\ UNCHANGED <<onHand, reserved, hold, overdue, claim, sold, adjusted, calls>>

\* restore_order_stock: once per order, whatever was sold at that moment.
RestoreOrderStock(o, cart) ==
  /\ refund[o] = NoCart
  /\ refund' = [refund EXCEPT ![o] = cart]
  /\ LET back == Restorable(o, cart)
     IN /\ onHand' = [v \in Variants |-> onHand[v] + back[v]]
        /\ returned' = [returned EXCEPT ![o] = [v \in Variants |-> returned[o][v] + back[v]]]
  /\ UNCHANGED <<reserved, hold, overdue, claim, sold, adjusted, calls>>

-----------------------------------------------------------------------------
Sweep(s) ==
  \/ SweepBegin(s)
  \/ \E c \in Checkouts, v \in Variants : SweepRow(s, c, v) \/ SweepRowFails(s, c, v)

Next ==
  \/ \E c \in Checkouts, cart \in Carts : ReserveLines(c, cart)
  \/ \E c \in Checkouts, v \in Variants, qty \in 1..MaxLine : ReserveStock(c, v, qty)
  \/ \E c \in Checkouts : PassExpiry(c)
  \/ \E c \in Checkouts, o \in Orders : CommitHolds(c, o)
  \/ \E c \in Checkouts, v \in Variants, o \in Orders : CommitReservation(c, v, o)
  \/ \E c \in Checkouts, v \in Variants : ReleaseReservation(c, v)
  \/ \E p \in Releasers, c \in Checkouts : ReleaseBegin(p, c)
  \/ \E p \in Releasers, c \in Checkouts, v \in Variants : ReleaseRow(p, c, v)
  \/ \E s \in Sweepers : Sweep(s)
  \/ \E v \in Variants, delta \in Deltas, reason \in Reasons :
       AdjustStock(v, delta, reason)
  \/ \E o \in Orders, cart \in Carts : RestoreOrderStock(o, cart)

Spec == Init /\ [][Next]_vars

\* The scheduler keeps sweeping (interval job, jobs/scheduler.py), and a row's
\* transaction does not fail for ever.
FairSpec ==
  /\ Spec
  /\ \A s \in Sweepers : WF_vars(SweepBegin(s))
  /\ \A s \in Sweepers, c \in Checkouts, v \in Variants : SF_vars(SweepRow(s, c, v))

-----------------------------------------------------------------------------
(* Properties *)

\* The shop never promises a unit it does not have: what is reserved is on the
\* shelf, whatever the order of reserves, commits, releases, sweeps, refunds
\* and corrections (Hard Invariant 1; the CHECK on StockRecord).
NoOversell == \A v \in Variants : reserved[v] <= onHand[v]

\* The reserved counter and the ACTIVE rows never disagree, although sweep,
\* release and commit compete for the same row from unlocked reads: no unit is
\* given back twice, and none is lost.
RowUnits(c, v) == {c} \X (1..hold[c][v].qty)
HeldUnits(v) == UNION {RowUnits(c, v) : c \in {d \in Checkouts : IsActive(d, v)}}
ReservedIsHeld == \A v \in Variants : reserved[v] = Cardinality(HeldUnits(v))

\* The checks that would refuse to end or sell a hold never fire: the counters
\* always cover every ACTIVE row ("counters can only underflow if some code path
\* bypassed this module").
CountersCoverHolds ==
  \A c \in Checkouts, v \in Variants :
    IsActive(c, v) => hold[c][v].qty <= reserved[v] /\ hold[c][v].qty <= onHand[v]

\* What the audit trail says an order bought is exactly the holds committed to
\* it: a replayed or repeated commit never sells a hold twice or to two orders.
SoldUnits(o, v) == UNION {RowUnits(c, v) : c \in
  {d \in Checkouts : hold[d][v].status = "committed" /\ hold[d][v].order = o}}
SoldIsCommitted ==
  \A o \in Orders, v \in Variants : sold[o][v] = Cardinality(SoldUnits(o, v))

\* A refund puts back no more than the order took, whenever it runs relative to
\* the order's commits.
ReturnedWasSold ==
  \A o \in Orders, v \in Variants : returned[o][v] <= sold[o][v]

\* The movements add up to the counter (Invariant 4), and no order is credited
\* with more than it took.
AuditTrail ==
  /\ ReturnedWasSold
  /\ \A v \in Variants :
       onHand[v] = Opening[v] + adjusted[v]
         + SumFunction([o \in Orders |-> returned[o][v]])
         - SumFunction([o \in Orders |-> sold[o][v]])

\* "The three non-active states are terminal": no step of a sweep, a release or
\* a commit working from what it read earlier rewrites a row that has ended.
EndedRowsStay ==
  [][\A c \in Checkouts, v \in Variants :
       hold[c][v].status \in Terminal => hold'[c][v] = hold[c][v]]_vars

\* An abandoned hold does not keep units from other buyers for ever, although
\* a row's sweep may fail any number of times.
OverdueHoldsEnd ==
  \A c \in Checkouts, v \in Variants :
    (IsActive(c, v) /\ overdue[c]) ~> ~IsActive(c, v)

\* The counters, rows and movements implement the pool of units.
freeUnits == [v \in Variants |-> Available(v)]
heldUnits ==
  [c \in Checkouts |-> [v \in Variants |-> IF IsActive(c, v) THEN hold[c][v].qty ELSE 0]]
boughtUnits == [o \in Orders |-> [v \in Variants |-> sold[o][v] - returned[o][v]]]

Pool == INSTANCE UnitPool
          WITH free <- freeUnits, held <- heldUnits, sold <- boughtUnits

ImplementsUnitPool == Pool!PoolSpec
=============================================================================
