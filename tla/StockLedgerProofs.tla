-------------------------- MODULE StockLedgerProofs --------------------------
(***************************************************************************)
(* What StockLedger guarantees for every set of variants, checkouts and     *)
(* orders, every opening stock and any number of sweeps and releases.       *)
(*                                                                         *)
(* Types and counters first, then the agreement of counters and movements   *)
(* with the rows: a step changes the rows of at most one checkout, so the   *)
(* units of all others are the same set before and after, and only that     *)
(* checkout's share of a variant has to be compared with the counter.       *)
(***************************************************************************)
EXTENDS StockLedger, FiniteSetTheorems, WellFoundedInduction, TLAPS

\* The helpers of the actions keep to their types.
LEMMA CartLine ==
  ASSUME NEW cart \in Carts, NEW v \in Variants
  PROVE  cart[v] \in Nat /\ cart[v] \in 0..MaxLine
BY LedgerAssumption DEF Carts

\* What a refund puts back is a number of units, at most what is outstanding.
LEMMA RestorableType ==
  ASSUME TypeOK, NEW o \in Orders, NEW cart \in Carts
  PROVE  /\ Restorable(o, cart) \in [Variants -> Nat]
         /\ \A v \in Variants : Restorable(o, cart)[v] <= Outstanding(o, v)
BY CartLine DEF Restorable, Outstanding, TypeOK

\* Placing rows keeps the types.
LEMMA PlaceRowsType ==
  ASSUME TypeOK, NEW c \in Checkouts, NEW cart \in [Variants -> Nat], PlaceRows(c, cart),
         claim' \in [Checkouts -> Carts \cup {NoCart}]
  PROVE  TypeOK'
<1>1. reserved' \in [Variants -> Nat]
  BY DEF TypeOK, PlaceRows
<1>2. [v \in Variants |-> IF cart[v] > 0 THEN NewRow(cart[v]) ELSE NoRow]
        \in [Variants -> RowType]
  BY DEF NewRow, NoRow, RowType, Statuses
<1>3. hold' \in [Checkouts -> [Variants -> RowType]]
  BY <1>2 DEF TypeOK, PlaceRows
<1>4. QED
  BY <1>1, <1>3 DEF TypeOK, PlaceRows, movements, calls

\* Selling rows keeps the types.
LEMMA SellRowsType ==
  ASSUME TypeOK, NEW c \in Checkouts, NEW lines \in SUBSET Variants, NEW o \in Orders,
         SellRows(c, lines, o)
  PROVE  TypeOK'
<1> DEFINE qty(v) == IF v \in lines THEN hold[c][v].qty ELSE 0
<1>1. \A v \in Variants : hold[c][v] \in RowType /\ qty(v) \in Nat
  BY DEF TypeOK, RowType
<1>2. \A v \in Variants : v \in lines => qty(v) <= onHand[v] /\ qty(v) <= reserved[v]
  BY DEF SellRows
<1>3. \A v \in Variants : onHand[v] - qty(v) \in Nat /\ reserved[v] - qty(v) \in Nat
  BY <1>1, <1>2 DEF TypeOK
<1>4. onHand' \in [Variants -> Nat] /\ reserved' \in [Variants -> Nat]
  BY <1>3 DEF SellRows
<1>5. sold' \in [Orders -> [Variants -> Nat]]
  BY <1>1 DEF TypeOK, SellRows
<1>6. \A v \in Variants : EndedRow(hold[c][v], "committed", o) \in RowType
  BY <1>1 DEF EndedRow, RowType, Statuses
<1>7. hold' \in [Checkouts -> [Variants -> RowType]]
  BY <1>1, <1>6 DEF TypeOK, SellRows
<1>8. QED
  BY <1>4, <1>5, <1>7 DEF TypeOK, SellRows, keys, calls

\* Ending a row keeps the types.
LEMMA EndRowType ==
  ASSUME TypeOK, NEW c \in Checkouts, NEW v \in Variants, NEW status \in Terminal,
         EndRow(c, v, status),
         sweeping' \in [Sweepers -> SUBSET Rows], releasing' \in [Releasers -> SUBSET Rows]
  PROVE  TypeOK'
<1>1. hold[c][v] \in RowType /\ hold[c] \in [Variants -> RowType]
  BY DEF TypeOK
<1>2. reserved' \in [Variants -> Nat]
  BY <1>1 DEF TypeOK, EndRow, RowType
<1>3. EndedRow(hold[c][v], status, NoOrder) \in RowType
  BY <1>1 DEF EndedRow, RowType, Statuses, Terminal
<1>4. hold' \in [Checkouts -> [Variants -> RowType]]
  BY <1>3 DEF TypeOK, EndRow
<1>5. QED
  BY <1>2, <1>4 DEF TypeOK, EndRow, keys, movements

-----------------------------------------------------------------------------
\* Every operation keeps every variable in its type.
LEMMA TypeInductive == TypeOK /\ [Next]_vars => TypeOK'
<1> SUFFICES ASSUME TypeOK, [Next]_vars PROVE TypeOK'
  OBVIOUS
<1>1. ASSUME NEW c \in Checkouts, NEW cart \in Carts, ReserveLines(c, cart) PROVE TypeOK'
  <2>1. cart \in [Variants -> Nat]
    BY LedgerAssumption DEF Carts
  <2>2. claim' \in [Checkouts -> Carts \cup {NoCart}]
    BY <1>1 DEF ReserveLines, TypeOK
  <2>3. QED
    BY <1>1, <2>1, <2>2, PlaceRowsType DEF ReserveLines
<1>2. ASSUME NEW c \in Checkouts, NEW v \in Variants, NEW qty \in 1..MaxLine,
             ReserveStock(c, v, qty)
      PROVE  TypeOK'
  <2>1. [w \in Variants |-> IF w = v THEN qty ELSE 0] \in [Variants -> Nat]
    BY LedgerAssumption
  <2>2. QED
    BY <1>2, <2>1, PlaceRowsType DEF ReserveStock, TypeOK
<1>3. ASSUME NEW c \in Checkouts, PassExpiry(c) PROVE TypeOK'
  BY <1>3 DEF PassExpiry, TypeOK, counters, keys, movements, calls
<1>4. ASSUME NEW c \in Checkouts, NEW o \in Orders, CommitHolds(c, o) PROVE TypeOK'
  BY <1>4, SellRowsType DEF CommitHolds, ActiveLines
<1>5. ASSUME NEW c \in Checkouts, NEW v \in Variants, NEW o \in Orders,
             CommitReservation(c, v, o)
      PROVE  TypeOK'
  BY <1>5, SellRowsType DEF CommitReservation
<1>6. ASSUME NEW c \in Checkouts, NEW v \in Variants, ReleaseReservation(c, v) PROVE TypeOK'
  BY <1>6, EndRowType DEF ReleaseReservation, Terminal, TypeOK, calls
<1>7. ASSUME NEW p \in Releasers, NEW c \in Checkouts, ReleaseBegin(p, c) PROVE TypeOK'
  <2>1. {c} \X ActiveLines(c) \in SUBSET Rows
    BY DEF ActiveLines, Rows
  <2>2. QED
    BY <1>7, <2>1 DEF ReleaseBegin, TypeOK, counters, keys, movements
<1>8. ASSUME NEW p \in Releasers, NEW c \in Checkouts, NEW v \in Variants,
             ReleaseRow(p, c, v)
      PROVE  TypeOK'
  <2>1. releasing' \in [Releasers -> SUBSET Rows] /\ sweeping' \in [Sweepers -> SUBSET Rows]
    BY <1>8 DEF ReleaseRow, TypeOK
  <2>2. CASE EndRow(c, v, "released")
    BY <2>1, <2>2, EndRowType DEF Terminal
  <2>3. CASE UNCHANGED <<counters, hold, overdue, keys, movements>>
    BY <2>1, <2>3 DEF TypeOK, counters, keys, movements
  <2>4. QED
    BY <1>8, <2>2, <2>3 DEF ReleaseRow
<1>9. ASSUME NEW s \in Sweepers, Sweep(s) PROVE TypeOK'
  <2>1. CASE SweepBegin(s)
    BY <2>1 DEF SweepBegin, SweepCandidates, TypeOK, counters, keys, movements
  <2>2. ASSUME NEW c \in Checkouts, NEW v \in Variants, SweepRow(s, c, v) PROVE TypeOK'
    <3>1. releasing' \in [Releasers -> SUBSET Rows] /\ sweeping' \in [Sweepers -> SUBSET Rows]
      BY <2>2 DEF SweepRow, TypeOK
    <3>2. CASE EndRow(c, v, "expired")
      BY <3>1, <3>2, EndRowType DEF Terminal
    <3>3. CASE UNCHANGED <<counters, hold, overdue, keys, movements>>
      BY <3>1, <3>3 DEF TypeOK, counters, keys, movements
    <3>4. QED
      BY <2>2, <3>2, <3>3 DEF SweepRow
  <2>3. ASSUME NEW c \in Checkouts, NEW v \in Variants, SweepRowFails(s, c, v) PROVE TypeOK'
    BY <2>3 DEF SweepRowFails, TypeOK, counters, keys, movements
  <2>4. QED
    BY <1>9, <2>1, <2>2, <2>3 DEF Sweep
<1>10. ASSUME NEW v \in Variants, NEW delta \in Deltas, NEW reason \in Reasons,
              AdjustStock(v, delta, reason)
       PROVE  TypeOK'
  <2>1. delta \in Int
    BY LedgerAssumption
  <2>2. onHand[v] + delta \in Nat
    BY <1>10, <2>1 DEF AdjustStock, TypeOK
  <2>3. QED
    BY <1>10, <2>1, <2>2 DEF AdjustStock, TypeOK, keys, calls
<1>11. ASSUME NEW o \in Orders, NEW cart \in Carts, RestoreOrderStock(o, cart) PROVE TypeOK'
  <2>1. Restorable(o, cart) \in [Variants -> Nat]
    BY RestorableType
  <2>2. onHand' \in [Variants -> Nat] /\ returned' \in [Orders -> [Variants -> Nat]]
    BY <1>11, <2>1 DEF RestoreOrderStock, TypeOK
  <2>3. QED
    BY <1>11, <2>2 DEF RestoreOrderStock, TypeOK, calls
<1>12. CASE UNCHANGED vars
  BY <1>12 DEF vars, counters, keys, movements, calls, TypeOK
<1>13. QED
  BY <1>1, <1>2, <1>3, <1>4, <1>5, <1>6, <1>7, <1>8, <1>9, <1>10, <1>11, <1>12 DEF Next

\* Every variable keeps its type, through every operation.
THEOREM TypeCorrect == Spec => []TypeOK
<1>1. Init => TypeOK
  BY LedgerAssumption DEF Init, TypeOK, NoRow, RowType, Statuses, Rows
<1>2. QED
  BY <1>1, TypeInductive, PTL DEF Spec

-----------------------------------------------------------------------------
(* The counters: no unit is promised twice, no return exceeds its sale *)

\* Placing rows reserves what is available.
LEMMA PlaceRowsCounters ==
  ASSUME TypeOK, NoOversell, ReturnedWasSold,
         NEW c \in Checkouts, NEW cart \in [Variants -> Nat], PlaceRows(c, cart)
  PROVE  NoOversell' /\ ReturnedWasSold'
<1>1. NoOversell'
  BY DEF PlaceRows, Available, NoOversell, TypeOK
<1>2. QED
  BY <1>1 DEF PlaceRows, ReturnedWasSold, movements

\* A sale takes as many units from the shelf as from the reservation.
LEMMA SellRowsCounters ==
  ASSUME TypeOK, NoOversell, ReturnedWasSold,
         NEW c \in Checkouts, NEW lines \in SUBSET Variants, NEW o \in Orders,
         SellRows(c, lines, o)
  PROVE  NoOversell' /\ ReturnedWasSold'
<1> DEFINE qty(v) == IF v \in lines THEN hold[c][v].qty ELSE 0
<1>1. \A v \in Variants : qty(v) \in Nat
  BY DEF TypeOK, RowType
<1>2. NoOversell'
  BY <1>1 DEF SellRows, NoOversell, TypeOK
<1>3. \A p \in Orders, v \in Variants :
        returned'[p][v] = returned[p][v] /\ sold'[p][v] >= sold[p][v]
  BY <1>1 DEF SellRows, TypeOK
<1>4. \A p \in Orders, v \in Variants : returned[p][v] <= sold[p][v] /\ returned[p][v] \in Nat
        /\ sold[p][v] \in Nat
  BY DEF ReturnedWasSold, TypeOK
<1>5. sold' \in [Orders -> [Variants -> Nat]]
  BY SellRowsType DEF TypeOK
<1>6. QED
  BY <1>2, <1>3, <1>4, <1>5 DEF ReturnedWasSold

\* The end of a row only frees units.
LEMMA EndRowCounters ==
  ASSUME TypeOK, NoOversell, ReturnedWasSold,
         NEW c \in Checkouts, NEW v \in Variants, NEW status, EndRow(c, v, status)
  PROVE  NoOversell' /\ ReturnedWasSold'
<1>1. hold[c][v].qty \in Nat
  BY DEF TypeOK, RowType
<1>2. NoOversell'
  BY <1>1 DEF EndRow, NoOversell, TypeOK
<1>3. QED
  BY <1>2 DEF EndRow, ReturnedWasSold, movements

\* A refund puts back no more than was sold and not yet returned.
LEMMA RestoreCounters ==
  ASSUME TypeOK, NoOversell, ReturnedWasSold,
         NEW o \in Orders, NEW cart \in Carts, RestoreOrderStock(o, cart)
  PROVE  NoOversell' /\ ReturnedWasSold'
<1> DEFINE back == Restorable(o, cart)
<1>1. /\ back \in [Variants -> Nat]
      /\ \A v \in Variants : back[v] <= Outstanding(o, v)
  BY RestorableType
<1>2. onHand' = [v \in Variants |-> onHand[v] + back[v]] /\ reserved' = reserved
  BY DEF RestoreOrderStock
<1>3. NoOversell'
  BY <1>1, <1>2 DEF NoOversell, TypeOK
<1>4. /\ returned' = [returned EXCEPT ![o] = [v \in Variants |-> returned[o][v] + back[v]]]
      /\ sold' = sold
  BY DEF RestoreOrderStock
<1>5. \A v \in Variants : returned[o][v] + back[v] <= sold[o][v]
  BY <1>1 DEF Outstanding, ReturnedWasSold, TypeOK
<1>6. ReturnedWasSold'
  BY <1>4, <1>5 DEF ReturnedWasSold, TypeOK
<1>7. QED
  BY <1>3, <1>6

\* No step oversells or returns what was not sold.
LEMMA CountersInductive ==
  TypeOK /\ NoOversell /\ ReturnedWasSold /\ [Next]_vars => NoOversell' /\ ReturnedWasSold'
<1> SUFFICES ASSUME TypeOK, NoOversell, ReturnedWasSold, [Next]_vars
             PROVE  NoOversell' /\ ReturnedWasSold'
  OBVIOUS
<1>1. ASSUME NEW c \in Checkouts, NEW cart \in [Variants -> Nat], PlaceRows(c, cart)
      PROVE  NoOversell' /\ ReturnedWasSold'
  BY <1>1, PlaceRowsCounters
<1>2. ASSUME UNCHANGED <<counters, movements>> PROVE NoOversell' /\ ReturnedWasSold'
  BY <1>2 DEF counters, movements, NoOversell, ReturnedWasSold
<1>3. ASSUME NEW c \in Checkouts, NEW cart \in Carts, ReserveLines(c, cart)
      PROVE  NoOversell' /\ ReturnedWasSold'
  <2>1. cart \in [Variants -> Nat]
    BY LedgerAssumption DEF Carts
  <2>2. QED
    BY <1>1, <1>3, <2>1 DEF ReserveLines
<1>4. ASSUME NEW c \in Checkouts, NEW v \in Variants, NEW qty \in 1..MaxLine,
             ReserveStock(c, v, qty)
      PROVE  NoOversell' /\ ReturnedWasSold'
  <2>1. [w \in Variants |-> IF w = v THEN qty ELSE 0] \in [Variants -> Nat]
    BY LedgerAssumption
  <2>2. QED
    BY <1>1, <1>4, <2>1 DEF ReserveStock
<1>5. ASSUME NEW c \in Checkouts, PassExpiry(c) PROVE NoOversell' /\ ReturnedWasSold'
  BY <1>2, <1>5 DEF PassExpiry
<1>6. ASSUME NEW c \in Checkouts, NEW o \in Orders, CommitHolds(c, o)
      PROVE  NoOversell' /\ ReturnedWasSold'
  BY <1>6, SellRowsCounters DEF CommitHolds, ActiveLines
<1>7. ASSUME NEW c \in Checkouts, NEW v \in Variants, NEW o \in Orders, CommitReservation(c, v, o)
      PROVE  NoOversell' /\ ReturnedWasSold'
  BY <1>7, SellRowsCounters DEF CommitReservation
<1>8. ASSUME NEW c \in Checkouts, NEW v \in Variants, ReleaseReservation(c, v)
      PROVE  NoOversell' /\ ReturnedWasSold'
  BY <1>8, EndRowCounters DEF ReleaseReservation
<1>9. ASSUME NEW p \in Releasers, NEW c \in Checkouts, ReleaseBegin(p, c)
      PROVE  NoOversell' /\ ReturnedWasSold'
  BY <1>2, <1>9 DEF ReleaseBegin
<1>10. ASSUME NEW p \in Releasers, NEW c \in Checkouts, NEW v \in Variants, ReleaseRow(p, c, v)
       PROVE  NoOversell' /\ ReturnedWasSold'
  BY <1>2, <1>10, EndRowCounters DEF ReleaseRow
<1>11. ASSUME NEW s \in Sweepers, Sweep(s) PROVE NoOversell' /\ ReturnedWasSold'
  BY <1>2, <1>11, EndRowCounters DEF Sweep, SweepBegin, SweepRow, SweepRowFails
<1>12. ASSUME NEW v \in Variants, NEW delta \in Deltas, NEW reason \in Reasons,
              AdjustStock(v, delta, reason)
       PROVE  NoOversell' /\ ReturnedWasSold'
  <2>1. NoOversell'
    BY <1>12, LedgerAssumption DEF AdjustStock, NoOversell, TypeOK
  <2>2. QED
    BY <1>12, <2>1 DEF AdjustStock, ReturnedWasSold
<1>13. ASSUME NEW o \in Orders, NEW cart \in Carts, RestoreOrderStock(o, cart)
       PROVE  NoOversell' /\ ReturnedWasSold'
  BY <1>13, RestoreCounters
<1>14. CASE UNCHANGED vars
  BY <1>2, <1>14 DEF vars
<1>15. QED
  BY <1>3, <1>4, <1>5, <1>6, <1>7, <1>8, <1>9, <1>10, <1>11, <1>12, <1>13, <1>14 DEF Next

\* No interleaving of the provider's transactions promises a unit it does not
\* have, and no refund restores more than was sold, whatever the sizes involved.
THEOREM NoUnitPromisedTwice == Spec => [](NoOversell /\ ReturnedWasSold)
<1>1. Init => NoOversell /\ ReturnedWasSold
  BY LedgerAssumption DEF Init, NoOversell, ReturnedWasSold
<1>2. QED
  BY <1>1, CountersInductive, TypeCorrect, PTL DEF Spec

-----------------------------------------------------------------------------
(* Counting units *)

\* The units of the members of L, q[c] of them for c.
UnitsOf(L, q) == UNION {{c} \X (1..q[c]) : c \in L}
\* How many of them are c's.
Share(L, q, c) == IF c \in L THEN q[c] ELSE 0

\* One member's units are as many as its quantity.
LEMMA LineUnits ==
  ASSUME NEW c, NEW n \in Nat
  PROVE  IsFiniteSet({c} \X (1..n)) /\ Cardinality({c} \X (1..n)) = n
<1>1. IsFiniteSet({c}) /\ Cardinality({c}) = 1
  BY FS_Singleton
<1>2. IsFiniteSet(1..n) /\ Cardinality(1..n) = n
  BY FS_Interval
<1>3. /\ IsFiniteSet({c} \X (1..n))
      /\ Cardinality({c} \X (1..n)) = Cardinality({c}) * Cardinality(1..n)
  <2> DEFINE S == {c}
             T == 1..n
  <2> HIDE DEF S, T
  <2>1. IsFiniteSet(S) /\ IsFiniteSet(T)
    BY <1>1, <1>2 DEF S, T
  <2>2. IsFiniteSet(S \X T) /\ Cardinality(S \X T) = Cardinality(S) * Cardinality(T)
    BY <2>1, FS_Product
  <2>3. QED
    BY <2>2 DEF S, T
<1>4. QED
  BY <1>1, <1>2, <1>3

\* A set of units splits into those of c and those of the others.
LEMMA UnitsSplit ==
  ASSUME NEW L, NEW c, NEW q, \A d \in L : q[d] \in Nat, q[c] \in Nat,
         IsFiniteSet(UnitsOf(L \ {c}, q))
  PROVE  /\ IsFiniteSet(UnitsOf(L, q))
         /\ Cardinality(UnitsOf(L, q)) = Cardinality(UnitsOf(L \ {c}, q)) + Share(L, q, c)
         /\ Cardinality(UnitsOf(L \ {c}, q)) \in Nat
<1> DEFINE rest == UnitsOf(L \ {c}, q)
           own == {c} \X (1..q[c])
<1>1. Cardinality(rest) \in Nat
  BY FS_CardinalityType
<1>2. CASE c \in L
  <2>1. IsFiniteSet(own) /\ Cardinality(own) = q[c]
    BY LineUnits
  <2>2. UnitsOf(L, q) = rest \cup own
    BY <1>2 DEF UnitsOf
  <2>3. rest \cap own = {}
    BY DEF UnitsOf
  <2>4. /\ IsFiniteSet(rest \cup own)
        /\ Cardinality(rest \cup own) = Cardinality(rest) + Cardinality(own)
             - Cardinality(rest \cap own)
    BY <2>1, FS_Union
  <2>5. Cardinality(rest \cap own) = 0
    BY <2>3, FS_EmptySet
  <2>6. QED
    BY <1>1, <1>2, <2>1, <2>2, <2>4, <2>5 DEF Share
<1>3. CASE c \notin L
  <2>1. L \ {c} = L
    BY <1>3
  <2>2. QED
    BY <1>1, <1>3, <2>1 DEF Share
<1>4. QED
  BY <1>2, <1>3

\* When only c's share changes, the count changes by the difference.
LEMMA UnitsStep ==
  ASSUME NEW L, NEW M, NEW q, NEW r, NEW c,
         \A d \in L : q[d] \in Nat, \A d \in M : r[d] \in Nat, q[c] \in Nat, r[c] \in Nat,
         L \ {c} = M \ {c}, \A d \in L \ {c} : q[d] = r[d],
         IsFiniteSet(UnitsOf(L, q))
  PROVE  /\ IsFiniteSet(UnitsOf(M, r))
         /\ Cardinality(UnitsOf(M, r)) =
              Cardinality(UnitsOf(L, q)) - Share(L, q, c) + Share(M, r, c)
<1>1. UnitsOf(L \ {c}, q) \in SUBSET UnitsOf(L, q)
  BY DEF UnitsOf
<1>2. IsFiniteSet(UnitsOf(L \ {c}, q))
  BY <1>1, FS_Subset
<1>3. UnitsOf(M \ {c}, r) = UnitsOf(L \ {c}, q)
  BY DEF UnitsOf
<1>4. /\ Cardinality(UnitsOf(L, q)) = Cardinality(UnitsOf(L \ {c}, q)) + Share(L, q, c)
      /\ Cardinality(UnitsOf(L \ {c}, q)) \in Nat
  BY <1>2, UnitsSplit
<1>5. /\ IsFiniteSet(UnitsOf(M, r))
      /\ Cardinality(UnitsOf(M, r)) = Cardinality(UnitsOf(L \ {c}, q)) + Share(M, r, c)
  BY <1>2, <1>3, UnitsSplit
<1>6. Share(L, q, c) \in Nat /\ Share(M, r, c) \in Nat
  BY DEF Share
<1>7. QED
  BY <1>4, <1>5, <1>6
-----------------------------------------------------------------------------
(* What one step does to the rows *)

HeldShare(c, v) == IF IsActive(c, v) THEN hold[c][v].qty ELSE 0
Bought(c, o, v) == hold[c][v].status = "committed" /\ hold[c][v].order = o
BoughtShare(c, o, v) == IF Bought(c, o, v) THEN hold[c][v].qty ELSE 0

\* The rows of c alone may change, the counter and the SALE movements follow
\* them, and an ended row of c stays as it is.
OnlyMoves(c) ==
  /\ \A d \in Checkouts : d # c => hold'[d] = hold[d]
  /\ \A v \in Variants : reserved'[v] = reserved[v] - HeldShare(c, v) + HeldShare(c, v)'
  /\ \A o \in Orders, v \in Variants :
       sold'[o][v] = sold[o][v] - BoughtShare(c, o, v) + BoughtShare(c, o, v)'
  /\ \A v \in Variants : hold[c][v].status \in Terminal => hold'[c][v] = hold[c][v]

\* The fields of the rows the actions write.
LEMMA RowFields ==
  /\ NoRow.status = "none" /\ NoRow.qty = 0
  /\ \A n : NewRow(n).status = "active" /\ NewRow(n).qty = n
  /\ \A row, status, order :
       /\ EndedRow(row, status, order).status = status
       /\ EndedRow(row, status, order).qty = row.qty
       /\ EndedRow(row, status, order).order = order
BY DEF NoRow, NewRow, EndedRow

\* Placing rows moves units of one checkout only.
LEMMA PlaceRowsMoves ==
  ASSUME TypeOK, NEW c \in Checkouts, NEW cart \in [Variants -> Nat], PlaceRows(c, cart)
  PROVE  OnlyMoves(c)
<1>1. \A v \in Variants : hold[c][v] = NoRow
  BY DEF PlaceRows
<1>2. hold' = [hold EXCEPT ![c] =
        [v \in Variants |-> IF cart[v] > 0 THEN NewRow(cart[v]) ELSE NoRow]]
  BY DEF PlaceRows
<1>3. /\ \A d \in Checkouts : d # c => hold'[d] = hold[d]
      /\ \A v \in Variants : hold'[c][v] = IF cart[v] > 0 THEN NewRow(cart[v]) ELSE NoRow
  BY <1>2 DEF TypeOK
<1>4a. \A v \in Variants :
        /\ hold[c][v].status = "none"
        /\ hold'[c][v].status = IF cart[v] > 0 THEN "active" ELSE "none"
        /\ hold'[c][v].qty = cart[v]
  BY <1>1, <1>3, RowFields
<1>4. \A v \in Variants : HeldShare(c, v) = 0 /\ HeldShare(c, v)' = cart[v]
  BY <1>4a DEF HeldShare, IsActive
<1>5. \A v \in Variants : reserved'[v] = reserved[v] - HeldShare(c, v) + HeldShare(c, v)'
  BY <1>4 DEF PlaceRows, TypeOK
<1>6. \A o \in Orders, v \in Variants : BoughtShare(c, o, v) = 0 /\ BoughtShare(c, o, v)' = 0
  BY <1>4a DEF BoughtShare, Bought
<1>7. sold' = sold
  BY DEF PlaceRows, movements
<1>8. \A o \in Orders, v \in Variants :
        sold'[o][v] = sold[o][v] - BoughtShare(c, o, v) + BoughtShare(c, o, v)'
  BY <1>6, <1>7 DEF TypeOK
<1>9. \A v \in Variants : hold[c][v].status \notin Terminal
  BY <1>1 DEF NoRow, Terminal
<1>10. QED
  BY <1>3, <1>5, <1>8, <1>9 DEF OnlyMoves

\* Selling rows moves units of one checkout only.
LEMMA SellRowsMoves ==
  ASSUME TypeOK, NEW c \in Checkouts, NEW lines \in SUBSET ActiveLines(c), NEW o \in Orders,
         SellRows(c, lines, o)
  PROVE  OnlyMoves(c)
<1> DEFINE qty(v) == IF v \in lines THEN hold[c][v].qty ELSE 0
<1>1. \A v \in Variants : hold[c][v] \in RowType /\ qty(v) \in Nat
  BY DEF TypeOK, RowType
<1>2. \A v \in lines : v \in Variants /\ hold[c][v].status = "active"
  BY DEF ActiveLines, IsActive
<1>3. /\ \A d \in Checkouts : d # c => hold'[d] = hold[d]
      /\ \A v \in Variants : hold'[c][v] =
           IF v \in lines THEN EndedRow(hold[c][v], "committed", o) ELSE hold[c][v]
  BY DEF SellRows, TypeOK
<1>4. \A v \in Variants : HeldShare(c, v)' = HeldShare(c, v) - qty(v) /\ HeldShare(c, v) \in Nat
  <2> SUFFICES ASSUME NEW v \in Variants
               PROVE  HeldShare(c, v)' = HeldShare(c, v) - qty(v) /\ HeldShare(c, v) \in Nat
    OBVIOUS
  <2>1. CASE v \in lines
    BY <1>1, <1>2, <1>3, <2>1, RowFields DEF HeldShare, IsActive
  <2>2. CASE v \notin lines
    BY <1>1, <1>3, <2>2 DEF HeldShare, IsActive, RowType
  <2>3. QED
    BY <2>1, <2>2
<1>5. \A v \in Variants : reserved'[v] = reserved[v] - HeldShare(c, v) + HeldShare(c, v)'
  BY <1>1, <1>4 DEF SellRows, TypeOK
<1>6. \A p \in Orders, v \in Variants :
        /\ BoughtShare(c, p, v) \in Nat
        /\ BoughtShare(c, p, v)' = BoughtShare(c, p, v) + (IF p = o THEN qty(v) ELSE 0)
  <2> SUFFICES ASSUME NEW p \in Orders, NEW v \in Variants
               PROVE  /\ BoughtShare(c, p, v) \in Nat
                      /\ BoughtShare(c, p, v)' =
                           BoughtShare(c, p, v) + (IF p = o THEN qty(v) ELSE 0)
    OBVIOUS
  <2>1. CASE v \in lines
    BY <1>1, <1>2, <1>3, <2>1, RowFields DEF BoughtShare, Bought
  <2>2. CASE v \notin lines
    BY <1>1, <1>3, <2>2 DEF BoughtShare, Bought, RowType
  <2>3. QED
    BY <2>1, <2>2
<1>7. \A p \in Orders, v \in Variants :
        sold'[p][v] = sold[p][v] + (IF p = o THEN qty(v) ELSE 0) /\ sold[p][v] \in Nat
  BY <1>1 DEF SellRows, TypeOK
<1>8. \A p \in Orders, v \in Variants :
        sold'[p][v] = sold[p][v] - BoughtShare(c, p, v) + BoughtShare(c, p, v)'
  BY <1>1, <1>6, <1>7
<1>9. \A v \in Variants : hold[c][v].status \in Terminal => hold'[c][v] = hold[c][v]
  BY <1>2, <1>3 DEF Terminal
<1>10. QED
  BY <1>3, <1>5, <1>8, <1>9 DEF OnlyMoves

\* So does ending a row.
LEMMA EndRowMoves ==
  ASSUME TypeOK, NEW c \in Checkouts, NEW v \in Variants, IsActive(c, v),
         NEW status \in {"released", "expired"}, EndRow(c, v, status)
  PROVE  OnlyMoves(c)
<1>1. \A w \in Variants : hold[c][w] \in RowType
  BY DEF TypeOK
<1>2. /\ \A d \in Checkouts : d # c => hold'[d] = hold[d]
      /\ \A w \in Variants : hold'[c][w] =
           IF w = v THEN EndedRow(hold[c][v], status, NoOrder) ELSE hold[c][w]
  BY DEF EndRow, TypeOK
<1>3. \A w \in Variants : /\ HeldShare(c, w) \in Nat
                          /\ HeldShare(c, w)' = IF w = v THEN 0 ELSE HeldShare(c, w)
  BY <1>1, <1>2 DEF HeldShare, IsActive, EndedRow, RowType
<1>4. HeldShare(c, v) = hold[c][v].qty
  BY DEF HeldShare
<1>5. \A w \in Variants : reserved'[w] = reserved[w] - HeldShare(c, w) + HeldShare(c, w)'
  BY <1>3, <1>4 DEF EndRow, TypeOK
<1>6. \A o \in Orders, w \in Variants :
        BoughtShare(c, o, w) \in Nat /\ BoughtShare(c, o, w)' = BoughtShare(c, o, w)
  BY <1>1, <1>2 DEF BoughtShare, Bought, IsActive, EndedRow, RowType
<1>7. sold' = sold
  BY DEF EndRow, movements
<1>8. \A o \in Orders, w \in Variants :
        sold'[o][w] = sold[o][w] - BoughtShare(c, o, w) + BoughtShare(c, o, w)'
  BY <1>6, <1>7 DEF TypeOK
<1>9. \A w \in Variants : hold[c][w].status \in Terminal => hold'[c][w] = hold[c][w]
  BY <1>2 DEF IsActive, Terminal
<1>10. QED
  BY <1>2, <1>5, <1>8, <1>9 DEF OnlyMoves

\* Every step leaves the rows alone or moves those of one checkout.
LEMMA StepMoves ==
  ASSUME TypeOK, [Next]_vars
  PROVE  UNCHANGED <<hold, reserved, sold>> \/ \E c \in Checkouts : OnlyMoves(c)
<1> DEFINE Goal == UNCHANGED <<hold, reserved, sold>> \/ \E c \in Checkouts : OnlyMoves(c)
<1>1. ASSUME NEW c \in Checkouts, NEW cart \in Carts, ReserveLines(c, cart) PROVE Goal
  <2>1. cart \in [Variants -> Nat]
    BY LedgerAssumption DEF Carts
  <2>2. QED
    BY <1>1, <2>1, PlaceRowsMoves DEF ReserveLines
<1>2. ASSUME NEW c \in Checkouts, NEW v \in Variants, NEW qty \in 1..MaxLine,
             ReserveStock(c, v, qty)
      PROVE  Goal
  <2>1. [w \in Variants |-> IF w = v THEN qty ELSE 0] \in [Variants -> Nat]
    BY LedgerAssumption
  <2>2. QED
    BY <1>2, <2>1, PlaceRowsMoves DEF ReserveStock
<1>3. ASSUME NEW c \in Checkouts, NEW o \in Orders, CommitHolds(c, o) PROVE Goal
  BY <1>3, SellRowsMoves DEF CommitHolds
<1>4. ASSUME NEW c \in Checkouts, NEW v \in Variants, NEW o \in Orders, CommitReservation(c, v, o)
      PROVE  Goal
  <2>1. {v} \in SUBSET ActiveLines(c)
    BY <1>4 DEF CommitReservation, ActiveLines
  <2>2. QED
    BY <1>4, <2>1, SellRowsMoves DEF CommitReservation
<1>5. ASSUME NEW c \in Checkouts, NEW v \in Variants, ReleaseReservation(c, v) PROVE Goal
  BY <1>5, EndRowMoves DEF ReleaseReservation
<1>6. ASSUME NEW p \in Releasers, NEW c \in Checkouts, NEW v \in Variants, ReleaseRow(p, c, v)
      PROVE  Goal
  BY <1>6, EndRowMoves DEF ReleaseRow, counters, movements
<1>7. ASSUME NEW s \in Sweepers, NEW c \in Checkouts, NEW v \in Variants, SweepRow(s, c, v)
      PROVE  Goal
  BY <1>7, EndRowMoves DEF SweepRow, Sweepable, counters, movements
<1>8. ASSUME NEW s \in Sweepers, NEW c \in Checkouts, NEW v \in Variants, SweepRowFails(s, c, v)
      PROVE  Goal
  BY <1>8 DEF SweepRowFails, counters, movements
<1>9. ASSUME NEW s \in Sweepers, SweepBegin(s) PROVE Goal
  BY <1>9 DEF SweepBegin, counters, movements
<1>10. ASSUME NEW p \in Releasers, NEW c \in Checkouts, ReleaseBegin(p, c) PROVE Goal
  BY <1>10 DEF ReleaseBegin, counters, movements
<1>11. ASSUME NEW c \in Checkouts, PassExpiry(c) PROVE Goal
  BY <1>11 DEF PassExpiry, counters, movements
<1>12. ASSUME NEW v \in Variants, NEW delta \in Deltas, NEW reason \in Reasons,
              AdjustStock(v, delta, reason)
       PROVE  Goal
  BY <1>12 DEF AdjustStock
<1>13. ASSUME NEW o \in Orders, NEW cart \in Carts, RestoreOrderStock(o, cart) PROVE Goal
  BY <1>13 DEF RestoreOrderStock
<1>14. CASE UNCHANGED vars
  BY <1>14 DEF vars, counters, movements
<1>15. QED
  BY <1>1, <1>2, <1>3, <1>4, <1>5, <1>6, <1>7, <1>8, <1>9, <1>10, <1>11, <1>12, <1>13, <1>14
     DEF Next, Sweep

-----------------------------------------------------------------------------
(* The theorems *)

\* The inductive invariant: the units of the rows are finite in number, and the
\* counter and the movements count them.
RowsCounted ==
  /\ \A v \in Variants :
       IsFiniteSet(HeldUnits(v)) /\ reserved[v] = Cardinality(HeldUnits(v))
  /\ \A o \in Orders, v \in Variants :
       IsFiniteSet(SoldUnits(o, v)) /\ sold[o][v] = Cardinality(SoldUnits(o, v))

ActiveOf(v) == {d \in Checkouts : IsActive(d, v)}
BoughtOf(o, v) == {d \in Checkouts : Bought(d, o, v)}
Quantities(v) == [d \in Checkouts |-> hold[d][v].qty]

\* The sets of units of the rows, as sets of units of members.
LEMMA UnitsOfRows ==
  /\ \A v : HeldUnits(v) = UnitsOf(ActiveOf(v), Quantities(v))
  /\ \A o, v : SoldUnits(o, v) = UnitsOf(BoughtOf(o, v), Quantities(v))
BY DEF HeldUnits, SoldUnits, RowUnits, UnitsOf, ActiveOf, BoughtOf, Bought, Quantities

\* A step that moves the rows of one checkout keeps the counts right.
LEMMA MovesAreCounted ==
  ASSUME TypeOK, TypeOK', RowsCounted, NEW c \in Checkouts, OnlyMoves(c)
  PROVE  RowsCounted'
<1>1. ASSUME NEW v \in Variants
      PROVE  /\ \A d \in Checkouts : Quantities(v)[d] \in Nat /\ Quantities(v)'[d] \in Nat
             /\ \A d \in Checkouts \ {c} : Quantities(v)[d] = Quantities(v)'[d]
  BY DEF OnlyMoves, Quantities, TypeOK, RowType
<1>2. ASSUME NEW v \in Variants
      PROVE  IsFiniteSet(HeldUnits(v))' /\ (reserved[v] = Cardinality(HeldUnits(v)))'
  <2>1. ActiveOf(v) \ {c} = ActiveOf(v)' \ {c}
    BY DEF OnlyMoves, ActiveOf, IsActive
  <2>2. /\ Share(ActiveOf(v), Quantities(v), c) = HeldShare(c, v)
        /\ Share(ActiveOf(v)', Quantities(v)', c) = HeldShare(c, v)'
    BY DEF Share, ActiveOf, Quantities, HeldShare
  <2>3. /\ IsFiniteSet(UnitsOf(ActiveOf(v), Quantities(v)))
        /\ reserved[v] = Cardinality(UnitsOf(ActiveOf(v), Quantities(v)))
    BY UnitsOfRows DEF RowsCounted
  <2>4. ActiveOf(v) \subseteq Checkouts /\ ActiveOf(v)' \subseteq Checkouts
    BY DEF ActiveOf
  <2>5. /\ IsFiniteSet(UnitsOf(ActiveOf(v)', Quantities(v)'))
        /\ Cardinality(UnitsOf(ActiveOf(v)', Quantities(v)')) =
             Cardinality(UnitsOf(ActiveOf(v), Quantities(v)))
               - Share(ActiveOf(v), Quantities(v), c)
               + Share(ActiveOf(v)', Quantities(v)', c)
    BY <1>1, <2>1, <2>3, <2>4, UnitsStep
  <2>6. reserved'[v] = Cardinality(UnitsOf(ActiveOf(v)', Quantities(v)'))
    BY <2>2, <2>3, <2>5 DEF OnlyMoves
  <2>7. HeldUnits(v)' = UnitsOf(ActiveOf(v)', Quantities(v)')
    BY DEF HeldUnits, RowUnits, UnitsOf, ActiveOf, Quantities
  <2>8. QED
    BY <2>5, <2>6, <2>7
<1>3. ASSUME NEW o \in Orders, NEW v \in Variants
      PROVE  IsFiniteSet(SoldUnits(o, v))' /\ (sold[o][v] = Cardinality(SoldUnits(o, v)))'
  <2>1. BoughtOf(o, v) \ {c} = BoughtOf(o, v)' \ {c}
    BY DEF OnlyMoves, BoughtOf, Bought
  <2>2. /\ Share(BoughtOf(o, v), Quantities(v), c) = BoughtShare(c, o, v)
        /\ Share(BoughtOf(o, v)', Quantities(v)', c) = BoughtShare(c, o, v)'
    BY DEF Share, BoughtOf, Quantities, BoughtShare
  <2>3. /\ IsFiniteSet(UnitsOf(BoughtOf(o, v), Quantities(v)))
        /\ sold[o][v] = Cardinality(UnitsOf(BoughtOf(o, v), Quantities(v)))
    BY UnitsOfRows DEF RowsCounted
  <2>4. BoughtOf(o, v) \subseteq Checkouts /\ BoughtOf(o, v)' \subseteq Checkouts
    BY DEF BoughtOf
  <2>5. /\ IsFiniteSet(UnitsOf(BoughtOf(o, v)', Quantities(v)'))
        /\ Cardinality(UnitsOf(BoughtOf(o, v)', Quantities(v)')) =
             Cardinality(UnitsOf(BoughtOf(o, v), Quantities(v)))
               - Share(BoughtOf(o, v), Quantities(v), c)
               + Share(BoughtOf(o, v)', Quantities(v)', c)
    BY <1>1, <2>1, <2>3, <2>4, UnitsStep
  <2>6. sold'[o][v] = Cardinality(UnitsOf(BoughtOf(o, v)', Quantities(v)'))
    BY <2>2, <2>3, <2>5 DEF OnlyMoves
  <2>7. SoldUnits(o, v)' = UnitsOf(BoughtOf(o, v)', Quantities(v)')
    BY DEF SoldUnits, RowUnits, UnitsOf, BoughtOf, Bought, Quantities
  <2>8. QED
    BY <2>5, <2>6, <2>7
<1>4. QED
  BY <1>2, <1>3 DEF RowsCounted

\* Every step keeps the counters equal to what the rows say.
LEMMA RowsCountedInductive ==
  ASSUME TypeOK, TypeOK', RowsCounted, [Next]_vars
  PROVE  RowsCounted'
<1>1. CASE UNCHANGED <<hold, reserved, sold>>
  BY <1>1 DEF RowsCounted, HeldUnits, SoldUnits, RowUnits, IsActive
<1>2. QED
  BY <1>1, MovesAreCounted, StepMoves

\* Initially there are no rows and no units counted.
LEMMA RowsCountedInitially == Init => RowsCounted
<1> SUFFICES ASSUME Init PROVE RowsCounted
  OBVIOUS
<1>1. ASSUME NEW v \in Variants PROVE HeldUnits(v) = {}
  BY DEF Init, NoRow, HeldUnits, IsActive
<1>2. ASSUME NEW o \in Orders, NEW v \in Variants PROVE SoldUnits(o, v) = {}
  BY DEF Init, NoRow, SoldUnits
<1>3. QED
  BY <1>1, <1>2, FS_EmptySet DEF RowsCounted, Init

\* The counters equal what the rows say in every reachable state.
LEMMA RowsAreCounted == Spec => []RowsCounted
<1>1. TypeOK /\ TypeOK' /\ RowsCounted /\ [Next]_vars => RowsCounted'
  BY RowsCountedInductive
<1>2. QED
  BY <1>1, RowsCountedInitially, TypeCorrect, PTL DEF Spec

\* Sweeps, releases and commits that compete for a row never give a unit back
\* twice nor lose one: the counter is what the ACTIVE rows hold.
THEOREM HoldsAreCounted == Spec => []ReservedIsHeld
<1>1. RowsCounted => ReservedIsHeld
  BY DEF RowsCounted, ReservedIsHeld
<1>2. QED
  BY <1>1, RowsAreCounted, PTL

\* The SALE movements of an order are the holds committed to it, however often
\* a commit is replayed.
THEOREM SalesAreCounted == Spec => []SoldIsCommitted
<1>1. RowsCounted => SoldIsCommitted
  BY DEF RowsCounted, SoldIsCommitted
<1>2. QED
  BY <1>1, RowsAreCounted, PTL

\* The checks that would refuse to end or sell a hold never fire.
THEOREM HoldsAreCovered == Spec => []CountersCoverHolds
<1>1. TypeOK /\ NoOversell /\ RowsCounted => CountersCoverHolds
  <2> SUFFICES ASSUME TypeOK, NoOversell, RowsCounted,
                      NEW c \in Checkouts, NEW v \in Variants, IsActive(c, v)
               PROVE  hold[c][v].qty <= reserved[v] /\ hold[c][v].qty <= onHand[v]
    BY DEF CountersCoverHolds
  <2>1. hold[c][v].qty \in Nat
    BY DEF TypeOK, RowType
  <2>2. Cardinality(RowUnits(c, v)) = hold[c][v].qty
    BY <2>1, LineUnits DEF RowUnits
  <2>3. RowUnits(c, v) \in SUBSET HeldUnits(v)
    BY DEF HeldUnits
  <2>4. Cardinality(RowUnits(c, v)) <= reserved[v]
    BY <2>3, FS_Subset DEF RowsCounted
  <2>5. QED
    BY <2>1, <2>2, <2>4 DEF NoOversell, TypeOK
<1>2. QED
  BY <1>1, RowsAreCounted, TypeCorrect, NoUnitPromisedTwice, PTL

\* No step, from whatever it read earlier, rewrites a row that has ended.
THEOREM EndedRowsAreFinal == Spec => EndedRowsStay
<1>1. TypeOK /\ [Next]_vars =>
        [\A c \in Checkouts, v \in Variants :
           hold[c][v].status \in Terminal => hold'[c][v] = hold[c][v]]_vars
  BY StepMoves DEF OnlyMoves
<1>2. QED
  BY <1>1, TypeCorrect, PTL DEF Spec, EndedRowsStay

-----------------------------------------------------------------------------
(* StockLedger implements UnitPool: read as free, held and bought units, no    *)
(* behaviour of counters, rows, keys and interleaved sweeps and releases is    *)
(* anything but a sequence of the pool's moves. The mapping subtracts (free =  *)
(* onHand - reserved, bought = sold - returned), so that a return stays within *)
(* what the order still has needs ReturnedWasSold, and that a correction       *)
(* leaves free units non-negative is adjust_stock's own check.                 *)

\* The initial states are the pool's.
LEMMA InitImplements == Init => Pool!PoolInit
<1> SUFFICES ASSUME Init PROVE Pool!PoolInit
  OBVIOUS
<1>1. freeUnits = Opening
  BY LedgerAssumption DEF Init, freeUnits, Available
<1>2. heldUnits = [c \in Checkouts |-> [v \in Variants |-> 0]]
  BY DEF Init, heldUnits, IsActive, NoRow
<1>3. boughtUnits = [o \in Orders |-> [v \in Variants |-> 0]]
  BY DEF Init, boughtUnits
<1>4. QED
  BY <1>1, <1>2, <1>3 DEF Pool!PoolInit

\* Steps that touch neither counters, rows nor orders' movements stutter.
LEMMA PoolStutters ==
  ASSUME UNCHANGED <<onHand, reserved, hold, sold, returned>>
  PROVE  UNCHANGED Pool!pool
BY DEF Pool!pool, freeUnits, heldUnits, boughtUnits, Available, IsActive

\* When only the rows of c change, only c's entry of heldUnits does.
LEMMA HeldUpdate ==
  ASSUME NEW c \in Checkouts, \A d \in Checkouts : d # c => hold'[d] = hold[d]
  PROVE  heldUnits' = [heldUnits EXCEPT ![c] = [v \in Variants |-> HeldShare(c, v)']]
<1>1. /\ heldUnits = [d \in Checkouts |-> [v \in Variants |-> HeldShare(d, v)]]
      /\ heldUnits' = [d \in Checkouts |-> [v \in Variants |-> HeldShare(d, v)']]
  BY DEF heldUnits, HeldShare
<1>2. \A d \in Checkouts : d # c =>
        [v \in Variants |-> HeldShare(d, v)'] = [v \in Variants |-> HeldShare(d, v)]
  BY DEF HeldShare, IsActive
<1>3. QED
  BY <1>1, <1>2

\* Placing rows takes their units.
LEMMA PlaceRowsTakes ==
  ASSUME TypeOK, NEW c \in Checkouts, NEW cart \in [Variants -> 0..MaxLine],
         PlaceRows(c, cart)
  PROVE  Pool!Take(c, cart)
<1>1. \A v \in Variants : cart[v] \in Nat
  BY LedgerAssumption
<1>2. \A v \in Variants : hold[c][v] = NoRow /\ cart[v] <= onHand[v] - reserved[v]
  BY DEF PlaceRows, Available
<1>3. hold' = [hold EXCEPT ![c] =
        [v \in Variants |-> IF cart[v] > 0 THEN NewRow(cart[v]) ELSE NoRow]]
  BY DEF PlaceRows
<1>4. \A v \in Variants : heldUnits[c][v] = 0 /\ cart[v] <= freeUnits[v]
  BY <1>2 DEF heldUnits, freeUnits, Available, IsActive, NoRow
<1>5. freeUnits' = [v \in Variants |-> freeUnits[v] - cart[v]]
  BY <1>1 DEF PlaceRows, freeUnits, Available, TypeOK
<1>6. \A v \in Variants : HeldShare(c, v)' = cart[v]
  <2>1. \A v \in Variants : hold'[c][v] = IF cart[v] > 0 THEN NewRow(cart[v]) ELSE NoRow
    BY <1>3 DEF TypeOK
  <2>2. \A v \in Variants :
          /\ hold'[c][v].status = IF cart[v] > 0 THEN "active" ELSE "none"
          /\ hold'[c][v].qty = cart[v]
    BY <1>1, <2>1, RowFields
  <2>3. QED
    BY <1>1, <2>2 DEF HeldShare, IsActive
<1>7. \A d \in Checkouts : d # c => hold'[d] = hold[d]
  BY <1>3 DEF TypeOK
<1>8. heldUnits' = [heldUnits EXCEPT ![c] = cart]
  <2>1. [v \in Variants |-> HeldShare(c, v)'] = cart
    BY <1>6
  <2>2. QED
    BY <1>7, <2>1, HeldUpdate
<1>9. boughtUnits' = boughtUnits
  BY DEF PlaceRows, boughtUnits, movements
<1>10. QED
  BY <1>4, <1>5, <1>8, <1>9 DEF Pool!Take

\* Selling rows moves their units from the checkout to the order.
LEMMA SellRowsSells ==
  ASSUME TypeOK, NEW c \in Checkouts, NEW lines \in SUBSET ActiveLines(c), NEW o \in Orders,
         SellRows(c, lines, o)
  PROVE  Pool!Sell(c, lines, o)
<1> DEFINE qty(v) == IF v \in lines THEN hold[c][v].qty ELSE 0
<1>1. \A v \in Variants : qty(v) \in Nat
  BY DEF TypeOK, RowType
<1>2. \A v \in lines : hold[c][v].status = "active"
  BY DEF ActiveLines, IsActive
<1>3. freeUnits' = freeUnits
  BY <1>1 DEF SellRows, freeUnits, Available, TypeOK
<1>4. /\ \A d \in Checkouts : d # c => hold'[d] = hold[d]
      /\ \A v \in Variants : v \notin lines => hold'[c][v] = hold[c][v]
      /\ \A v \in Variants : v \in lines => hold'[c][v] = EndedRow(hold[c][v], "committed", o)
  BY DEF SellRows, TypeOK
<1>5. \A v \in Variants : v \in lines => hold'[c][v].status # "active"
  BY <1>4, RowFields
<1>6. heldUnits' = [heldUnits EXCEPT ![c] =
        [v \in Variants |-> IF v \in lines THEN 0 ELSE heldUnits[c][v]]]
  <2>1. \A v \in Variants :
          HeldShare(c, v)' = IF v \in lines THEN 0 ELSE heldUnits[c][v]
    BY <1>4, <1>5 DEF HeldShare, heldUnits, IsActive
  <2>2. QED
    BY <1>4, <2>1, HeldUpdate
<1>7. \A v \in Variants : (IF v \in lines THEN heldUnits[c][v] ELSE 0) = qty(v)
  BY <1>2 DEF heldUnits, IsActive
<1>8. /\ sold' = [sold EXCEPT ![o] = [v \in Variants |-> sold[o][v] + qty(v)]]
      /\ returned' = returned
  BY DEF SellRows
<1>9. boughtUnits' = [boughtUnits EXCEPT ![o] =
        [v \in Variants |-> boughtUnits[o][v] + qty(v)]]
  <2>1. \A p \in Orders, v \in Variants :
          sold'[p][v] - returned'[p][v] =
            IF p = o THEN sold[p][v] - returned[p][v] + qty(v) ELSE sold[p][v] - returned[p][v]
    BY <1>1, <1>8 DEF TypeOK
  <2>2. \A p \in Orders : p # o =>
          [v \in Variants |-> sold'[p][v] - returned'[p][v]] =
          [v \in Variants |-> sold[p][v] - returned[p][v]]
    BY <2>1
  <2>3. [v \in Variants |-> sold'[o][v] - returned'[o][v]] =
          [v \in Variants |-> boughtUnits[o][v] + qty(v)]
    BY <2>1 DEF boughtUnits
  <2>4. QED
    BY <2>2, <2>3 DEF boughtUnits
<1>10. boughtUnits' = [boughtUnits EXCEPT ![o] =
         [v \in Variants |-> boughtUnits[o][v] + IF v \in lines THEN heldUnits[c][v] ELSE 0]]
  BY <1>7, <1>9
<1>11. QED
  BY <1>3, <1>6, <1>10 DEF Pool!Sell

\* Ending a row gives its units back.
LEMMA EndRowGivesBack ==
  ASSUME TypeOK, NEW c \in Checkouts, NEW v \in Variants, IsActive(c, v),
         NEW status \in {"released", "expired"}, EndRow(c, v, status)
  PROVE  Pool!GiveBack(c, v) \/ UNCHANGED Pool!pool
<1> DEFINE qty == hold[c][v].qty
<1>1. qty \in Nat
  BY DEF TypeOK, RowType
<1>2. heldUnits[c][v] = qty
  BY DEF heldUnits, IsActive
<1>3. freeUnits' = [freeUnits EXCEPT ![v] = freeUnits[v] + qty]
  <2>1. \A w \in Variants : Available(w)' = IF w = v THEN Available(w) + qty ELSE Available(w)
    BY <1>1 DEF EndRow, Available, TypeOK
  <2>2. QED
    BY <2>1 DEF freeUnits
<1>4. /\ \A d \in Checkouts : d # c => hold'[d] = hold[d]
      /\ \A w \in Variants : w # v => hold'[c][w] = hold[c][w]
      /\ hold'[c][v] = EndedRow(hold[c][v], status, NoOrder)
  BY DEF EndRow, TypeOK
<1>5. heldUnits' = [heldUnits EXCEPT ![c] = [heldUnits[c] EXCEPT ![v] = 0]]
  <2>1. \A w \in Variants : HeldShare(c, w)' = IF w = v THEN 0 ELSE heldUnits[c][w]
    BY <1>4, RowFields DEF HeldShare, heldUnits, IsActive
  <2>2. [w \in Variants |-> HeldShare(c, w)'] = [heldUnits[c] EXCEPT ![v] = 0]
    BY <2>1 DEF heldUnits
  <2>3. QED
    BY <1>4, <2>2, HeldUpdate
<1>6. boughtUnits' = boughtUnits
  BY DEF EndRow, boughtUnits, movements
<1>7. CASE qty > 0
  BY <1>2, <1>3, <1>5, <1>6, <1>7 DEF Pool!GiveBack
<1>8. CASE qty = 0
  <2>1. heldUnits' = heldUnits
    BY <1>2, <1>5, <1>8 DEF heldUnits
  <2>2. freeUnits' = freeUnits
    <3>1. freeUnits[v] + qty = freeUnits[v]
      BY <1>8 DEF freeUnits, Available, TypeOK
    <3>2. QED
      BY <1>3, <3>1 DEF freeUnits
  <2>3. QED
    BY <1>6, <2>1, <2>2 DEF Pool!pool
<1>9. QED
  BY <1>1, <1>7, <1>8

\* A refund returns units the order still has.
LEMMA RestoreReturns ==
  ASSUME TypeOK, ReturnedWasSold, NEW o \in Orders, NEW cart \in Carts,
         RestoreOrderStock(o, cart)
  PROVE  \E back \in [Variants -> 0..MaxLine] : Pool!GiveReturn(o, back)
<1> DEFINE back == Restorable(o, cart)
<1>1. back \in [Variants -> Nat] /\ \A v \in Variants : back[v] <= Outstanding(o, v)
  BY RestorableType
<1>2. \A v \in Variants : back[v] <= cart[v] /\ cart[v] \in 0..MaxLine
  BY CartLine DEF Restorable, Outstanding, TypeOK
<1>3. back \in [Variants -> 0..MaxLine]
  BY <1>1, <1>2, LedgerAssumption DEF Restorable
<1>4. \A v \in Variants : back[v] <= boughtUnits[o][v]
  BY <1>1 DEF Outstanding, ReturnedWasSold, boughtUnits, TypeOK
<1>5. /\ onHand' = [v \in Variants |-> onHand[v] + back[v]]
      /\ returned' = [returned EXCEPT ![o] = [v \in Variants |-> returned[o][v] + back[v]]]
      /\ UNCHANGED <<reserved, hold, sold>>
  BY DEF RestoreOrderStock
<1>6. freeUnits' = [v \in Variants |-> freeUnits[v] + back[v]]
  BY <1>1, <1>5 DEF freeUnits, Available, TypeOK
<1>7. boughtUnits' = [boughtUnits EXCEPT ![o] =
        [v \in Variants |-> boughtUnits[o][v] - back[v]]]
  <2>1. \A p \in Orders, v \in Variants :
          sold'[p][v] - returned'[p][v] =
            IF p = o THEN sold[p][v] - returned[p][v] - back[v] ELSE sold[p][v] - returned[p][v]
    BY <1>1, <1>5 DEF TypeOK
  <2>2. \A p \in Orders : p # o =>
          [v \in Variants |-> sold'[p][v] - returned'[p][v]] =
          [v \in Variants |-> sold[p][v] - returned[p][v]]
    BY <2>1
  <2>3. [v \in Variants |-> sold'[o][v] - returned'[o][v]] =
          [v \in Variants |-> boughtUnits[o][v] - back[v]]
    BY <2>1 DEF boughtUnits
  <2>4. QED
    BY <2>2, <2>3 DEF boughtUnits
<1>8. heldUnits' = heldUnits
  BY <1>5 DEF heldUnits, IsActive
<1>9. Pool!GiveReturn(o, back)
  BY <1>4, <1>6, <1>7, <1>8 DEF Pool!GiveReturn
<1>10. QED
  BY <1>3, <1>9

\* A correction is one in the pool.
LEMMA AdjustCorrects ==
  ASSUME TypeOK, NEW v \in Variants, NEW delta \in Deltas, NEW reason \in Reasons,
         AdjustStock(v, delta, reason)
  PROVE  Pool!Correct(v, delta)
<1>1. delta \in Int
  BY LedgerAssumption
<1>2. /\ onHand' = [onHand EXCEPT ![v] = onHand[v] + delta]
      /\ onHand[v] + delta >= reserved[v]
      /\ UNCHANGED <<reserved, hold, sold, returned>>
  BY DEF AdjustStock
<1>3. freeUnits[v] + delta >= 0
  BY <1>1, <1>2 DEF freeUnits, Available, TypeOK
<1>4. freeUnits' = [freeUnits EXCEPT ![v] = freeUnits[v] + delta]
  <2>1. \A w \in Variants :
          Available(w)' = IF w = v THEN Available(w) + delta ELSE Available(w)
    BY <1>1, <1>2 DEF Available, TypeOK
  <2>2. QED
    BY <2>1 DEF freeUnits
<1>5. heldUnits' = heldUnits /\ boughtUnits' = boughtUnits
  BY <1>2 DEF heldUnits, boughtUnits, IsActive
<1>6. QED
  BY <1>3, <1>4, <1>5 DEF Pool!Correct

\* Every step of the ledger is a move of the pool or leaves it alone.
LEMMA StepImplements ==
  ASSUME TypeOK, ReturnedWasSold, [Next]_vars
  PROVE  [Pool!PoolNext]_(Pool!pool)
<1> DEFINE Goal == Pool!PoolNext \/ UNCHANGED Pool!pool
<1>1. ASSUME NEW c \in Checkouts, NEW cart \in [Variants -> 0..MaxLine], PlaceRows(c, cart)
      PROVE  Goal
  BY <1>1, PlaceRowsTakes DEF Pool!PoolNext
<1>2. ASSUME NEW c \in Checkouts, NEW lines \in SUBSET ActiveLines(c), NEW o \in Orders,
             SellRows(c, lines, o)
      PROVE  Goal
  <2>1. lines \in SUBSET Variants
    BY DEF ActiveLines
  <2>2. Pool!Sell(c, lines, o)
    BY <1>2, SellRowsSells
  <2>3. QED
    BY <2>1, <2>2 DEF Pool!PoolNext
<1>3. ASSUME NEW c \in Checkouts, NEW v \in Variants, IsActive(c, v),
             NEW status \in {"released", "expired"}, EndRow(c, v, status)
      PROVE  Goal
  BY <1>3, EndRowGivesBack DEF Pool!PoolNext
<1>4. ASSUME UNCHANGED <<onHand, reserved, hold, sold, returned>> PROVE Goal
  BY <1>4, PoolStutters
<1>5. ASSUME NEW c \in Checkouts, NEW cart \in Carts, ReserveLines(c, cart) PROVE Goal
  <2>1. cart \in [Variants -> 0..MaxLine]
    BY DEF Carts
  <2>2. QED
    BY <1>1, <1>5, <2>1 DEF ReserveLines
<1>6. ASSUME NEW c \in Checkouts, NEW v \in Variants, NEW qty \in 1..MaxLine,
             ReserveStock(c, v, qty)
      PROVE  Goal
  <2>1. [w \in Variants |-> IF w = v THEN qty ELSE 0] \in [Variants -> 0..MaxLine]
    BY LedgerAssumption
  <2>2. QED
    BY <1>1, <1>6, <2>1 DEF ReserveStock
<1>7. ASSUME NEW c \in Checkouts, NEW o \in Orders, CommitHolds(c, o) PROVE Goal
  BY <1>2, <1>7 DEF CommitHolds
<1>8. ASSUME NEW c \in Checkouts, NEW v \in Variants, NEW o \in Orders, CommitReservation(c, v, o)
      PROVE  Goal
  <2>1. {v} \in SUBSET ActiveLines(c)
    BY <1>8 DEF CommitReservation, ActiveLines
  <2>2. QED
    BY <1>2, <1>8, <2>1 DEF CommitReservation
<1>9. ASSUME NEW c \in Checkouts, NEW v \in Variants, ReleaseReservation(c, v) PROVE Goal
  BY <1>3, <1>9 DEF ReleaseReservation
<1>10. ASSUME NEW p \in Releasers, NEW c \in Checkouts, NEW v \in Variants, ReleaseRow(p, c, v)
       PROVE  Goal
  BY <1>3, <1>4, <1>10 DEF ReleaseRow, counters, movements
<1>11. ASSUME NEW s \in Sweepers, NEW c \in Checkouts, NEW v \in Variants, SweepRow(s, c, v)
       PROVE  Goal
  BY <1>3, <1>4, <1>11 DEF SweepRow, Sweepable, counters, movements
<1>12. ASSUME NEW s \in Sweepers, NEW c \in Checkouts, NEW v \in Variants,
              SweepBegin(s) \/ SweepRowFails(s, c, v)
       PROVE  Goal
  BY <1>4, <1>12 DEF SweepBegin, SweepRowFails, counters, movements
<1>13. ASSUME NEW s \in Sweepers, Sweep(s) PROVE Goal
  <2>1. CASE SweepBegin(s)
    BY <1>4, <2>1 DEF SweepBegin, counters, movements
  <2>2. QED
    BY <1>11, <1>12, <1>13, <2>1 DEF Sweep
<1>14. ASSUME NEW p \in Releasers, NEW c \in Checkouts, ReleaseBegin(p, c) PROVE Goal
  BY <1>4, <1>14 DEF ReleaseBegin, counters, movements
<1>15. ASSUME NEW c \in Checkouts, PassExpiry(c) PROVE Goal
  BY <1>4, <1>15 DEF PassExpiry, counters, movements
<1>16. ASSUME NEW v \in Variants, NEW delta \in Deltas, NEW reason \in Reasons,
              AdjustStock(v, delta, reason)
       PROVE  Goal
  BY <1>16, AdjustCorrects DEF Pool!PoolNext
<1>17. ASSUME NEW o \in Orders, NEW cart \in Carts, RestoreOrderStock(o, cart) PROVE Goal
  BY <1>17, RestoreReturns DEF Pool!PoolNext
<1>18. CASE UNCHANGED vars
  BY <1>4, <1>18 DEF vars, counters, movements
<1>19. QED
  BY <1>5, <1>6, <1>7, <1>8, <1>9, <1>10, <1>13, <1>14, <1>15, <1>16, <1>17, <1>18 DEF Next

\* The provider's transactions, in any interleaving, are moves of whole units
\* between the shelf, checkouts and orders.
THEOREM LedgerImplementsPool == Spec => ImplementsUnitPool
<1>1. TypeOK /\ ReturnedWasSold /\ [Next]_vars => [Pool!PoolNext]_(Pool!pool)
  BY StepImplements
<1>2. QED
  BY <1>1, InitImplements, TypeCorrect, NoUnitPromisedTwice, PTL
     DEF Spec, ImplementsUnitPool, Pool!PoolSpec

-----------------------------------------------------------------------------
(* Sums *)

\* Induction over the natural numbers, said of a set instead of a predicate.
LEMMA NatSetInduction ==
  ASSUME NEW T, 0 \in T, \A n \in Nat : n \in T => n + 1 \in T
  PROVE  Nat \subseteq T
<1> DEFINE Missing == Nat \ T
<1>1. SUFFICES ASSUME Missing # {} PROVE FALSE
  BY <1>1
<1>2. PICK m \in Missing : \A n \in Missing : <<n, m>> \notin OpToRel(<, Nat)
  BY <1>1, NatLessThanWellFounded, WFMin
<1>3. m \in Nat /\ m # 0
  BY <1>2
<1>4. m - 1 \in Nat /\ m - 1 < m /\ (m - 1) + 1 = m
  BY <1>3
<1>5. <<m - 1, m>> \in OpToRel(<, Nat)
  BY <1>3, <1>4 DEF OpToRel
<1>6. m - 1 \in T
  BY <1>2, <1>4, <1>5
<1>7. m \in T
  BY <1>4, <1>6
<1>8. QED
  BY <1>2, <1>7

\* The library's sum takes the members out one at a time, in the order of Pick.
Pick(s) == CHOOSE x \in s : TRUE
SumStep(F, s, it) == IF s = {} THEN 0 ELSE F[Pick(s)] + it[s \ {Pick(s)}]
SumsUp(F, S, it) == it = [s \in SUBSET S |-> SumStep(F, s, it)]
SumIter(F, S) == CHOOSE it : SumsUp(F, S, it)

LEMMA SumIsIterated ==
  ASSUME NEW F, NEW S PROVE SumFunctionOnSet(F, S) = SumIter(F, S)[S]
BY DEF SumFunctionOnSet, FoldFunctionOnSet, MapThenFoldSet, SumIter, SumsUp, SumStep, Pick

\* A member taken out leaves one less.
LEMMA PickOne ==
  ASSUME NEW s, IsFiniteSet(s), s # {}
  PROVE  /\ Pick(s) \in s
         /\ IsFiniteSet(s \ {Pick(s)}) /\ Cardinality(s \ {Pick(s)}) = Cardinality(s) - 1
         /\ Cardinality(s) \in Nat /\ Cardinality(s) # 0
<1>1. Pick(s) \in s
  BY DEF Pick
<1>2. QED
  BY <1>1, FS_RemoveElement, FS_CardinalityType, FS_EmptySet

\* The iteration is defined on every subset of a finite set.
LEMMA SumIterates ==
  ASSUME NEW F, NEW S, IsFiniteSet(S)
  PROVE  SumsUp(F, S, SumIter(F, S))
<1> DEFINE Upto(n, f) == \A s \in SUBSET S : Cardinality(s) <= n => f[s] = SumStep(F, s, f)
<1> DEFINE T == {n \in Nat : \E f : Upto(n, f)}
<1> DEFINE Longer(f) == [s \in SUBSET S |-> SumStep(F, s, f)]
<1>1. \A s \in SUBSET S : IsFiniteSet(s) /\ Cardinality(s) \in Nat /\ Cardinality(s) <= Cardinality(S)
  BY FS_Subset, FS_CardinalityType
<1>2. ASSUME NEW n \in Nat, NEW f, Upto(n, f) PROVE Upto(n + 1, Longer(f))
  <2> DEFINE g == Longer(f)
  <2>1. SUFFICES ASSUME NEW s \in SUBSET S, Cardinality(s) <= n + 1
                 PROVE  g[s] = SumStep(F, s, g)
    OBVIOUS
  <2>2. g[s] = SumStep(F, s, f)
    OBVIOUS
  <2>3. CASE s = {}
    BY <2>2, <2>3 DEF SumStep
  <2>4. CASE s # {}
    <3> DEFINE r == s \ {Pick(s)}
    <3>1. r \in SUBSET S /\ Cardinality(r) <= n
      BY <1>1, <2>1, <2>4, PickOne
    <3>2. f[r] = SumStep(F, r, f) /\ g[r] = SumStep(F, r, f)
      BY <1>2, <3>1
    <3>3. QED
      BY <2>2, <2>4, <3>2 DEF SumStep
  <2>5. QED
    BY <2>3, <2>4
<1>3. 0 \in T
  <2> DEFINE f == [s \in SUBSET S |-> 0]
  <2>1. \A s \in SUBSET S : Cardinality(s) <= 0 => s = {}
    BY <1>1, FS_EmptySet
  <2>2. Upto(0, f)
    BY <2>1 DEF SumStep
  <2>3. QED
    BY <2>2
<1>4. ASSUME NEW n \in Nat, n \in T PROVE n + 1 \in T
  <2>1. PICK f : Upto(n, f)
    BY <1>4
  <2>2. Upto(n + 1, Longer(f))
    BY <1>2, <2>1
  <2>3. \E g : Upto(n + 1, g)
    BY <2>2
  <2>4. QED
    BY <2>3
<1>5. Cardinality(S) \in T
  <2>1. Nat \subseteq T
    <3> HIDE DEF T
    <3> QED  BY <1>3, <1>4, NatSetInduction
  <2>2. QED
    BY <1>1, <2>1
<1>6. PICK f : Upto(Cardinality(S), f)
  BY <1>5
<1>7. SumsUp(F, S, Longer(f))
  <2> DEFINE g == Longer(f)
  <2>1. ASSUME NEW s \in SUBSET S PROVE g[s] = SumStep(F, s, g)
    <3>1. \A r \in SUBSET S : g[r] = f[r]
      BY <1>1, <1>6
    <3>2. CASE s = {}
      BY <3>2 DEF SumStep
    <3>3. CASE s # {}
      BY <3>1, <3>3 DEF SumStep
    <3>4. QED
      BY <3>2, <3>3
  <2>2. g = [s \in SUBSET S |-> SumStep(F, s, g)]
    BY <2>1
  <2>3. QED
    BY <2>2 DEF SumsUp
<1>8. QED
  BY <1>7 DEF SumIter

\* One step of the iteration.
LEMMA SumIterStep ==
  ASSUME NEW F, NEW S, IsFiniteSet(S), NEW s \in SUBSET S
  PROVE  SumIter(F, S)[s] = SumStep(F, s, SumIter(F, S))
<1> DEFINE it == SumIter(F, S)
<1>1. it = [r \in SUBSET S |-> SumStep(F, r, it)]
  BY SumIterates DEF SumsUp
<1> HIDE DEF it
<1>2. it[s] = SumStep(F, s, it)
  BY <1>1, Zenon
<1>3. QED
  BY <1>2 DEF it

\* Two sums agree where their summands do.
LEMMA SumsAgree ==
  ASSUME NEW S, IsFiniteSet(S), NEW F, NEW G, \A x \in S : F[x] = G[x]
  PROVE  SumFunctionOnSet(F, S) = SumFunctionOnSet(G, S)
<1> DEFINE f == SumIter(F, S)
           g == SumIter(G, S)
           T == {n \in Nat : \A s \in SUBSET S : Cardinality(s) <= n => f[s] = g[s]}
<1>1. \A s \in SUBSET S : IsFiniteSet(s) /\ Cardinality(s) \in Nat
  BY FS_Subset, FS_CardinalityType
<1>2. \A s \in SUBSET S : f[s] = SumStep(F, s, f) /\ g[s] = SumStep(G, s, g)
  BY SumIterStep
<1> HIDE DEF f, g
<1>3. 0 \in T
  <2>1. \A s \in SUBSET S : Cardinality(s) <= 0 => s = {}
    BY <1>1, FS_EmptySet
  <2>2. QED
    BY <1>2, <2>1 DEF SumStep
<1>4. ASSUME NEW n \in Nat, n \in T PROVE n + 1 \in T
  <2>1. SUFFICES ASSUME NEW s \in SUBSET S, Cardinality(s) <= n + 1, s # {} PROVE f[s] = g[s]
    BY <1>2 DEF SumStep
  <2> DEFINE r == s \ {Pick(s)}
  <2>2. r \in SUBSET S /\ Cardinality(r) <= n /\ Pick(s) \in S
    BY <1>1, <2>1, PickOne
  <2>3. f[r] = g[r]
    BY <1>4, <2>2
  <2>4. QED
    BY <1>2, <2>1, <2>2, <2>3 DEF SumStep
<1>5. Nat \subseteq T
  <2> HIDE DEF T
  <2> QED  BY <1>3, <1>4, NatSetInduction
<1>6. QED
  BY <1>1, <1>5, SumIsIterated DEF f, g

\* What a sum over a part of S takes is what the iteration over S has there.
LEMMA SumOfPart ==
  ASSUME NEW S, IsFiniteSet(S), NEW F, NEW P \in SUBSET S
  PROVE  SumFunctionOnSet(F, P) = SumIter(F, S)[P]
<1> DEFINE f == SumIter(F, S)
           g == SumIter(F, P)
           T == {n \in Nat : \A s \in SUBSET P : Cardinality(s) <= n => f[s] = g[s]}
<1>0. IsFiniteSet(P)
  BY FS_Subset
<1>1. \A s \in SUBSET P : IsFiniteSet(s) /\ Cardinality(s) \in Nat
  BY <1>0, FS_Subset, FS_CardinalityType
<1>2. \A s \in SUBSET P : f[s] = SumStep(F, s, f) /\ g[s] = SumStep(F, s, g)
  BY <1>0, SumIterStep
<1> HIDE DEF f, g
<1>3. 0 \in T
  <2>1. \A s \in SUBSET P : Cardinality(s) <= 0 => s = {}
    BY <1>1, FS_EmptySet
  <2>2. QED
    BY <1>2, <2>1 DEF SumStep
<1>4. ASSUME NEW n \in Nat, n \in T PROVE n + 1 \in T
  <2>1. SUFFICES ASSUME NEW s \in SUBSET P, Cardinality(s) <= n + 1, s # {} PROVE f[s] = g[s]
    BY <1>2 DEF SumStep
  <2> DEFINE r == s \ {Pick(s)}
  <2>2. r \in SUBSET P /\ Cardinality(r) <= n
    BY <1>1, <2>1, PickOne
  <2>3. f[r] = g[r]
    BY <1>4, <2>2
  <2>4. QED
    BY <1>2, <2>1, <2>3 DEF SumStep
<1>5. Nat \subseteq T
  <2> HIDE DEF T
  <2> QED  BY <1>3, <1>4, NatSetInduction
<1>6. QED
  BY <1>1, <1>5, SumIsIterated DEF f, g

\* A sum is the sum of any member and the rest; sums of integers are integers.
LEMMA SumTakesOut ==
  ASSUME NEW S, IsFiniteSet(S), NEW F, \A x \in S : F[x] \in Int
  PROVE  /\ SumFunctionOnSet(F, S) \in Int
         /\ \A x \in S : SumFunctionOnSet(F, S) = F[x] + SumFunctionOnSet(F, S \ {x})
<1> DEFINE f == SumIter(F, S)
           Out(s) == f[s] \in Int /\ \A x \in s : f[s] = F[x] + f[s \ {x}]
           T == {n \in Nat : \A s \in SUBSET S : Cardinality(s) <= n => Out(s)}
<1>1. \A s \in SUBSET S : IsFiniteSet(s) /\ Cardinality(s) \in Nat
  BY FS_Subset, FS_CardinalityType
<1>2. \A s \in SUBSET S : f[s] = SumStep(F, s, f)
  BY SumIterStep
<1>3. \A s \in SUBSET S : SumFunctionOnSet(F, s) = f[s]
  BY SumOfPart
<1> HIDE DEF f
<1>4. 0 \in T
  <2>1. \A s \in SUBSET S : Cardinality(s) <= 0 => s = {}
    BY <1>1, FS_EmptySet
  <2>2. f[{}] = 0
    BY <1>2 DEF SumStep
  <2>3. \A s \in SUBSET S : Cardinality(s) <= 0 => Out(s)
    <3> SUFFICES ASSUME NEW s \in SUBSET S, Cardinality(s) <= 0 PROVE Out(s)
      OBVIOUS
    <3>1. s = {}
      BY <2>1
    <3>2. QED
      BY <2>2, <3>1
  <2>4. QED
    BY <2>3
<1>5. ASSUME NEW n \in Nat, n \in T PROVE n + 1 \in T
  <2> SUFFICES ASSUME NEW s \in SUBSET S, Cardinality(s) <= n + 1 PROVE Out(s)
    BY DEF T
  <2>1. Cardinality(s) <= n + 1
    OBVIOUS
  <2>2. CASE s = {}
    BY <1>2, <2>2 DEF SumStep
  <2>3. CASE s # {}
    <3> DEFINE p == Pick(s)
               r == s \ {p}
    <3>0. f[s] = F[p] + f[r]
      BY <1>2, <2>3 DEF SumStep
    <3>1. p \in s /\ r \in SUBSET S /\ Cardinality(r) <= n /\ f[s] = F[p] + f[r]
      BY <1>1, <2>1, <2>3, <3>0, PickOne
    <3> HIDE DEF p
    <3>2. f[r] \in Int /\ F[p] \in Int /\ \A x \in r : f[r] = F[x] + f[r \ {x}]
      BY <1>5, <3>1
    <3>3. f[s] \in Int
      BY <3>1, <3>2
    <3>4. ASSUME NEW x \in s, x # p PROVE f[s] = F[x] + f[s \ {x}]
      <4> DEFINE q == s \ {x}
      <4>1. q \in SUBSET S /\ Cardinality(q) <= n /\ p \in q /\ q \ {p} = r \ {x}
        <5>1. Cardinality(q) = Cardinality(s) - 1
          BY <1>1, <3>4, FS_RemoveElement
        <5>2. QED
          BY <1>1, <2>1, <3>1, <3>4, <5>1
      <4>2. f[q] = F[p] + f[r \ {x}]
        BY <1>5, <4>1
      <4>3. f[r] = F[x] + f[r \ {x}]
        BY <3>2, <3>4
      <4>4. (r \ {x}) \in SUBSET S /\ Cardinality(r \ {x}) <= n
        <5>1. IsFiniteSet(r) /\ x \in r
          BY <1>1, <3>1, <3>4
        <5>2. Cardinality(r \ {x}) = Cardinality(r) - 1
          BY <5>1, FS_RemoveElement
        <5>3. Cardinality(r) \in Nat
          BY <1>1, <3>1
        <5>4. QED
          BY <3>1, <5>2, <5>3
      <4>5. f[r \ {x}] \in Int /\ F[x] \in Int
        BY <1>5, <4>4
      <4>6. QED
        BY <3>1, <3>2, <4>2, <4>3, <4>5
    <3>5. QED
      BY <3>1, <3>3, <3>4
  <2>4. QED
    BY <2>2, <2>3
<1>6. Nat \subseteq T
  <2> HIDE DEF T
  <2> QED  BY <1>4, <1>5, NatSetInduction
<1>7. Out(S)
  BY <1>1, <1>6
<1>8. QED
  BY <1>3, <1>7

\* The sum of nothing, and of zeros, is zero.
LEMMA SumOfNothing ==
  ASSUME NEW F PROVE SumFunctionOnSet(F, {}) = 0
<1>1. SumsUp(F, {}, SumIter(F, {}))
  BY SumIterates, FS_EmptySet
<1>2. QED
  BY <1>1, SumIsIterated DEF SumsUp, SumStep

LEMMA SumOfZeros ==
  ASSUME NEW S, IsFiniteSet(S), NEW F, \A x \in S : F[x] = 0
  PROVE  SumFunctionOnSet(F, S) = 0
<1> DEFINE T == {n \in Nat : \A s \in SUBSET S : Cardinality(s) <= n => SumFunctionOnSet(F, s) = 0}
<1>1. \A s \in SUBSET S : IsFiniteSet(s) /\ Cardinality(s) \in Nat
  BY FS_Subset, FS_CardinalityType
<1>2. 0 \in T
  <2>1. \A s \in SUBSET S : Cardinality(s) <= 0 => s = {}
    BY <1>1, FS_EmptySet
  <2>2. QED
    BY <2>1, SumOfNothing
<1>3. ASSUME NEW n \in Nat, n \in T PROVE n + 1 \in T
  <2> SUFFICES ASSUME NEW s \in SUBSET S, Cardinality(s) <= n + 1, s # {}
               PROVE  SumFunctionOnSet(F, s) = 0
    BY SumOfNothing DEF T
  <2> DEFINE r == s \ {Pick(s)}
  <2>1. r \in SUBSET S /\ Cardinality(r) <= n /\ Pick(s) \in s
    BY <1>1, PickOne
  <2>2. SumFunctionOnSet(F, r) = 0
    BY <1>3, <2>1
  <2>3. SumFunctionOnSet(F, s) = F[Pick(s)] + SumFunctionOnSet(F, r)
    BY <1>1, <2>1, SumTakesOut
  <2>4. QED
    BY <2>1, <2>2, <2>3
<1>4. Nat \subseteq T
  <2> HIDE DEF T
  <2> QED  BY <1>2, <1>3, NatSetInduction
<1>5. QED
  BY <1>1, <1>4

\* A sum of natural numbers is one.
LEMMA SumOfNaturals ==
  ASSUME NEW S, IsFiniteSet(S), NEW F, \A x \in S : F[x] \in Nat
  PROVE  SumFunctionOnSet(F, S) \in Nat
<1> DEFINE T == {n \in Nat : \A s \in SUBSET S :
                   Cardinality(s) <= n => SumFunctionOnSet(F, s) \in Nat}
<1>1. \A s \in SUBSET S : IsFiniteSet(s) /\ Cardinality(s) \in Nat
  BY FS_Subset, FS_CardinalityType
<1>2. 0 \in T
  <2>1. \A s \in SUBSET S : Cardinality(s) <= 0 => s = {}
    BY <1>1, FS_EmptySet
  <2>2. QED
    BY <2>1, SumOfNothing
<1>3. ASSUME NEW n \in Nat, n \in T PROVE n + 1 \in T
  <2> SUFFICES ASSUME NEW s \in SUBSET S, Cardinality(s) <= n + 1, s # {}
               PROVE  SumFunctionOnSet(F, s) \in Nat
    BY SumOfNothing DEF T
  <2> DEFINE r == s \ {Pick(s)}
  <2>1. r \in SUBSET S /\ Cardinality(r) <= n /\ Pick(s) \in s
    BY <1>1, PickOne
  <2>2. SumFunctionOnSet(F, r) \in Nat
    BY <1>3, <2>1
  <2>3. SumFunctionOnSet(F, s) = F[Pick(s)] + SumFunctionOnSet(F, r)
    BY <1>1, <2>1, SumTakesOut
  <2>4. QED
    BY <2>1, <2>2, <2>3
<1>4. Nat \subseteq T
  <2> HIDE DEF T
  <2> QED  BY <1>2, <1>3, NatSetInduction
<1>5. QED
  BY <1>1, <1>4

\* When one summand moves, the sum moves by as much.
LEMMA SumMoves ==
  ASSUME NEW S, IsFiniteSet(S), NEW F, NEW G, \A x \in S : F[x] \in Int,
         NEW o \in S, NEW d \in Int, G[o] = F[o] + d, \A x \in S \ {o} : G[x] = F[x]
  PROVE  SumFunctionOnSet(G, S) = SumFunctionOnSet(F, S) + d
<1> DEFINE R == S \ {o}
<1>1. IsFiniteSet(R) /\ \A x \in S : G[x] \in Int
  BY FS_Subset
<1>2. SumFunctionOnSet(G, R) = SumFunctionOnSet(F, R)
  BY <1>1, SumsAgree
<1>3. SumFunctionOnSet(G, S) = G[o] + SumFunctionOnSet(G, R)
  BY <1>1, SumTakesOut
<1>4. SumFunctionOnSet(F, S) = F[o] + SumFunctionOnSet(F, R)
  BY SumTakesOut
<1>5. SumFunctionOnSet(F, R) \in Int
  BY <1>1, SumTakesOut
<1>6. QED
  BY <1>1, <1>2, <1>3, <1>4, <1>5

-----------------------------------------------------------------------------
(* The movements add up *)

\* The movements of one variant, and what they leave on the shelf.
Column(f, v) == [o \in Orders |-> f[o][v]]
OnShelf(v) ==
  Opening[v] + adjusted[v] + SumFunction(Column(returned, v)) - SumFunction(Column(sold, v))
BooksAgree == \A v \in Variants : onHand[v] = OnShelf(v)

\* units move from the shelf to an order, back, or by a correction.
SaleBooked(o, units) ==
  /\ \A v \in Variants :
       onHand'[v] = onHand[v] - units[v] /\ sold'[o][v] = sold[o][v] + units[v]
  /\ \A p \in Orders \ {o} : sold'[p] = sold[p]
  /\ returned' = returned /\ adjusted' = adjusted
ReturnBooked(o, units) ==
  /\ \A v \in Variants :
       onHand'[v] = onHand[v] + units[v] /\ returned'[o][v] = returned[o][v] + units[v]
  /\ \A p \in Orders \ {o} : returned'[p] = returned[p]
  /\ sold' = sold /\ adjusted' = adjusted
CorrectionBooked(units) ==
  /\ \A v \in Variants :
       onHand'[v] = onHand[v] + units[v] /\ adjusted'[v] = adjusted[v] + units[v]
  /\ sold' = sold /\ returned' = returned
Booked ==
  \/ UNCHANGED <<onHand, sold, returned, adjusted>>
  \/ \E o \in Orders, units \in [Variants -> Int] : SaleBooked(o, units) \/ ReturnBooked(o, units)
  \/ \E units \in [Variants -> Int] : CorrectionBooked(units)

\* The movements of an order that changes by units change their sum by as much.
LEMMA BookSum ==
  ASSUME NEW f \in [Orders -> [Variants -> Int]], NEW o \in Orders,
         NEW v \in Variants, NEW units \in Int, NEW g,
         g[o][v] = f[o][v] + units, \A p \in Orders \ {o} : g[p][v] = f[p][v]
  PROVE  SumFunction(Column(g, v)) = SumFunction(Column(f, v)) + units
<1> DEFINE F == Column(f, v)
           G == Column(g, v)
<1>1. DOMAIN F = Orders /\ DOMAIN G = Orders
  BY DEF Column
<1>2. /\ \A p \in Orders : F[p] \in Int
      /\ G[o] = F[o] + units /\ \A p \in Orders \ {o} : G[p] = F[p]
  BY DEF Column
<1> HIDE DEF F, G
<1>3. SumFunctionOnSet(G, Orders) = SumFunctionOnSet(F, Orders) + units
  BY <1>2, OrdersAssumption, SumMoves
<1>4. QED
  BY <1>1, <1>3 DEF SumFunction, F, G

\* A sum of movements is an integer.
LEMMA BookType ==
  ASSUME NEW f \in [Orders -> [Variants -> Int]], NEW v \in Variants
  PROVE  SumFunction(Column(f, v)) \in Int
<1> DEFINE F == Column(f, v)
<1>1. DOMAIN F = Orders /\ \A p \in Orders : F[p] \in Int
  BY DEF Column
<1> HIDE DEF F
<1>2. SumFunctionOnSet(F, Orders) \in Int
  BY <1>1, OrdersAssumption, SumTakesOut
<1>3. QED
  BY <1>1, <1>2 DEF SumFunction, F

\* A step that books its units keeps the books in agreement.
LEMMA BooksMove ==
  ASSUME TypeOK, BooksAgree, Booked
  PROVE  BooksAgree'
<1> SUFFICES ASSUME NEW v \in Variants PROVE (onHand[v] = OnShelf(v))'
  BY DEF BooksAgree
<1> DEFINE back == SumFunction(Column(returned, v))
           gone == SumFunction(Column(sold, v))
<1>1. /\ sold \in [Orders -> [Variants -> Int]] /\ returned \in [Orders -> [Variants -> Int]]
      /\ onHand \in [Variants -> Int] /\ adjusted \in [Variants -> Int]
      /\ Opening \in [Variants -> Int]
  BY LedgerAssumption DEF TypeOK
<1>2. back \in Int /\ gone \in Int
  BY <1>1, BookType
<1>3. onHand[v] = Opening[v] + adjusted[v] + back - gone
  BY DEF BooksAgree, OnShelf
<1>4. SUFFICES onHand'[v] = Opening[v] + adjusted'[v] + SumFunction(Column(returned', v))
                              - SumFunction(Column(sold', v))
  BY DEF OnShelf
<1>5. CASE UNCHANGED <<onHand, sold, returned, adjusted>>
  BY <1>3, <1>5
<1>6. ASSUME NEW o \in Orders, NEW units \in [Variants -> Int], SaleBooked(o, units)
      PROVE  onHand'[v] = Opening[v] + adjusted'[v] + SumFunction(Column(returned', v))
                            - SumFunction(Column(sold', v))
  <2>1. SumFunction(Column(sold', v)) = gone + units[v]
    <3>1. /\ sold'[o][v] = sold[o][v] + units[v] /\ units[v] \in Int
          /\ \A p \in Orders \ {o} : sold'[p][v] = sold[p][v]
      BY <1>1, <1>6 DEF SaleBooked
    <3>2. QED
      BY <1>1, <3>1, BookSum
  <2>2. returned' = returned /\ adjusted' = adjusted /\ onHand'[v] = onHand[v] - units[v]
    BY <1>6 DEF SaleBooked
  <2> HIDE DEF back, gone
  <2>3. SumFunction(Column(returned', v)) = back
    BY <2>2 DEF back
  <2>4. QED
    BY <1>1, <1>2, <1>3, <2>1, <2>2, <2>3
<1>7. ASSUME NEW o \in Orders, NEW units \in [Variants -> Int], ReturnBooked(o, units)
      PROVE  onHand'[v] = Opening[v] + adjusted'[v] + SumFunction(Column(returned', v))
                            - SumFunction(Column(sold', v))
  <2>1. SumFunction(Column(returned', v)) = back + units[v]
    <3>1. /\ returned'[o][v] = returned[o][v] + units[v] /\ units[v] \in Int
          /\ \A p \in Orders \ {o} : returned'[p][v] = returned[p][v]
      BY <1>1, <1>7 DEF ReturnBooked
    <3>2. QED
      BY <1>1, <3>1, BookSum
  <2>2. sold' = sold /\ adjusted' = adjusted /\ onHand'[v] = onHand[v] + units[v]
    BY <1>7 DEF ReturnBooked
  <2> HIDE DEF back, gone
  <2>3. SumFunction(Column(sold', v)) = gone
    BY <2>2 DEF gone
  <2>4. QED
    BY <1>1, <1>2, <1>3, <2>1, <2>2, <2>3
<1>8. ASSUME NEW units \in [Variants -> Int], CorrectionBooked(units)
      PROVE  onHand'[v] = Opening[v] + adjusted'[v] + SumFunction(Column(returned', v))
                            - SumFunction(Column(sold', v))
  <2>1. /\ sold' = sold /\ returned' = returned
        /\ adjusted'[v] = adjusted[v] + units[v] /\ onHand'[v] = onHand[v] + units[v]
    BY <1>8 DEF CorrectionBooked
  <2>2. SumFunction(Column(returned', v)) = back /\ SumFunction(Column(sold', v)) = gone
    BY <2>1
  <2> HIDE DEF back, gone
  <2>3. QED
    BY <1>1, <1>2, <1>3, <2>1, <2>2
<1>9. QED
  BY <1>5, <1>6, <1>7, <1>8 DEF Booked

\* The books of a ledger without movements.
LEMMA BooksOpen == Init => BooksAgree
<1> SUFFICES ASSUME Init, NEW v \in Variants PROVE onHand[v] = OnShelf(v)
  BY DEF BooksAgree
<1> DEFINE Z == [o \in Orders |-> 0]
<1>1. Column(sold, v) = Z /\ Column(returned, v) = Z
  BY DEF Init, Column
<1>2. SumFunction(Z) = 0
  <2>1. DOMAIN Z = Orders /\ \A o \in Orders : Z[o] = 0
    OBVIOUS
  <2> HIDE DEF Z
  <2>2. QED
    BY <2>1, OrdersAssumption, SumOfZeros DEF SumFunction
<1>3. onHand[v] = Opening[v] /\ adjusted[v] = 0 /\ Opening[v] \in Nat
  BY LedgerAssumption DEF Init
<1>4. QED
  BY <1>1, <1>2, <1>3 DEF OnShelf

\* A sale is booked.
LEMMA SellRowsBooks ==
  ASSUME TypeOK, NEW c \in Checkouts, NEW lines \in SUBSET Variants, NEW o \in Orders,
         SellRows(c, lines, o)
  PROVE  Booked
<1> DEFINE units == [v \in Variants |-> IF v \in lines THEN hold[c][v].qty ELSE 0]
<1>1. units \in [Variants -> Int]
  BY DEF TypeOK, RowType
<1>2. /\ onHand' = [v \in Variants |-> onHand[v] - units[v]]
      /\ sold' = [sold EXCEPT ![o] = [v \in Variants |-> sold[o][v] + units[v]]]
      /\ returned' = returned /\ adjusted' = adjusted
  BY DEF SellRows
<1> HIDE DEF units
<1>3. SaleBooked(o, units)
  BY <1>2 DEF SaleBooked, TypeOK
<1>4. QED
  BY <1>1, <1>3 DEF Booked

\* So is a refund.
LEMMA RestoreBooks ==
  ASSUME TypeOK, NEW o \in Orders, NEW cart \in Carts, RestoreOrderStock(o, cart)
  PROVE  Booked
<1> DEFINE units == Restorable(o, cart)
<1>1. units \in [Variants -> Int]
  BY RestorableType
<1>2. /\ onHand' = [v \in Variants |-> onHand[v] + units[v]]
      /\ returned' = [returned EXCEPT ![o] = [v \in Variants |-> returned[o][v] + units[v]]]
      /\ sold' = sold /\ adjusted' = adjusted
  BY DEF RestoreOrderStock
<1> HIDE DEF units
<1>3. ReturnBooked(o, units)
  BY <1>2 DEF ReturnBooked, TypeOK
<1>4. QED
  BY <1>1, <1>3 DEF Booked

\* And a correction.
LEMMA AdjustBooks ==
  ASSUME TypeOK, NEW v \in Variants, NEW delta \in Deltas, NEW reason, AdjustStock(v, delta, reason)
  PROVE  Booked
<1> DEFINE units == [w \in Variants |-> IF w = v THEN delta ELSE 0]
<1>1. units \in [Variants -> Int]
  BY LedgerAssumption
<1>2. /\ onHand' = [onHand EXCEPT ![v] = @ + delta]
      /\ adjusted' = [adjusted EXCEPT ![v] = @ + delta]
      /\ sold' = sold /\ returned' = returned
  BY DEF AdjustStock
<1>3. onHand \in [Variants -> Int] /\ adjusted \in [Variants -> Int] /\ delta \in Int
  BY LedgerAssumption DEF TypeOK
<1>4. \A w \in Variants : onHand'[w] = onHand[w] + units[w]
  BY <1>2, <1>3
<1>5. \A w \in Variants : adjusted'[w] = adjusted[w] + units[w]
  BY <1>2, <1>3
<1>6. CorrectionBooked(units)
  BY <1>2, <1>4, <1>5 DEF CorrectionBooked
<1>7. QED
  BY <1>1, <1>6 DEF Booked

\* Every step books what it moves.
LEMMA StepBooks ==
  ASSUME TypeOK, [Next]_vars
  PROVE  Booked
<1>1. ASSUME UNCHANGED <<onHand, movements>> PROVE Booked
  BY <1>1 DEF Booked, movements
<1>2. ASSUME NEW c \in Checkouts, NEW o \in Orders,
             CommitHolds(c, o) \/ \E v \in Variants : CommitReservation(c, v, o)
      PROVE  Booked
  BY <1>2, SellRowsBooks DEF CommitHolds, CommitReservation, ActiveLines
<1>3. ASSUME NEW o \in Orders, NEW cart \in Carts, RestoreOrderStock(o, cart) PROVE Booked
  BY <1>3, RestoreBooks
<1>4. ASSUME NEW v \in Variants, NEW delta \in Deltas, NEW reason \in Reasons,
             AdjustStock(v, delta, reason)
      PROVE  Booked
  BY <1>4, AdjustBooks
<1>5. ASSUME NEW c \in Checkouts,
             \/ \E cart \in Carts : ReserveLines(c, cart)
             \/ \E v \in Variants, qty \in 1..MaxLine : ReserveStock(c, v, qty)
             \/ PassExpiry(c) \/ \E v \in Variants : ReleaseReservation(c, v)
      PROVE  UNCHANGED <<onHand, movements>>
  BY <1>5 DEF ReserveLines, ReserveStock, PlaceRows, PassExpiry, ReleaseReservation, EndRow, counters
<1>6. ASSUME NEW p \in Releasers, NEW c \in Checkouts,
             ReleaseBegin(p, c) \/ \E v \in Variants : ReleaseRow(p, c, v)
      PROVE  UNCHANGED <<onHand, movements>>
  BY <1>6 DEF ReleaseBegin, ReleaseRow, EndRow, counters
<1>7. ASSUME NEW s \in Sweepers, Sweep(s) PROVE UNCHANGED <<onHand, movements>>
  BY <1>7 DEF Sweep, SweepBegin, SweepRow, SweepRowFails, EndRow, counters
<1>8. CASE UNCHANGED vars
  BY <1>1, <1>8 DEF vars, counters
<1>9. QED
  BY <1>1, <1>2, <1>3, <1>4, <1>5, <1>6, <1>7, <1>8 DEF Next

\* The movements of a variant add up to its counter, however many orders bought
\* and returned it, and no order is credited with more than it took
\* (Invariant 4, inventory/models.py).
THEOREM MovementsAddUp == Spec => []AuditTrail
<1>1. TypeOK /\ BooksAgree /\ [Next]_vars => BooksAgree'
  BY BooksMove, StepBooks
<1>2. BooksAgree /\ ReturnedWasSold => AuditTrail
  BY DEF BooksAgree, OnShelf, AuditTrail, Column
<1>3. QED
  BY <1>1, <1>2, BooksOpen, TypeCorrect, NoUnitPromisedTwice, PTL DEF Spec
=============================================================================
