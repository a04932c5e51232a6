-------------------------- MODULE RemoteLedgerProofs --------------------------
(***************************************************************************)
(* What RemoteLedger guarantees for any number of checkouts, orders and     *)
(* threads, any breaker and any number of attempts and late copies.         *)
(*                                                                         *)
(* First the service alone: whatever requests arrive, in whatever order and *)
(* however often, its rows and counters go through steps that StockLedger's *)
(* lemmas know, but for one: the rows of several checkouts that end in one  *)
(* transaction.  Then what the clients know: an answer is backed by a key,  *)
(* a key by a question somebody asked, and a question by the answer that     *)
(* made it worth asking.                                                    *)
(***************************************************************************)
EXTENDS RemoteLedger, StockLedgerProofs

-----------------------------------------------------------------------------
(* Requests *)

\* A checkout's cart is a cart, and its order an order.
LEMMA CartsAreCarts ==
  ASSUME NEW c \in Checkouts
  PROVE  /\ CartOf(c) \in Carts
         /\ CartOf(c) \in [Variants -> 0..MaxLine]
         /\ CartOf(c) \in [Variants -> Nat]
         /\ OrderOf[c] \in Orders
<1>1. OrderOf[c] \in Orders /\ CartOf(c) \in Carts
  BY RemoteAssumption DEF CartOf
<1>2. CartOf(c) \in [Variants -> 0..MaxLine]
  BY <1>1 DEF Carts
<1>3. QED
  BY <1>1, <1>2, LedgerAssumption

\* The five kinds of request.
LEMMA RequestKinds ==
  ASSUME NEW r \in Requests
  PROVE  \/ \E c \in Checkouts : r = ReserveRequest(c, CartOf(c))
         \/ \E c \in Checkouts : r = CommitRequest(c)
         \/ \E c \in Checkouts : r = ReleaseRequest(c)
         \/ \E o \in Orders, v \in Variants : r = ReturnRequest(o, v)
         \/ \E v \in Variants, d \in Deltas, reason \in StaffReasons :
              r = StaffRequest(v, d, reason)
BY DEF Requests, Reserves, Commits, Releases, Returns, Corrections

\* Their fields, by which the service tells them apart.
LEMMA RequestFields ==
  /\ \A c, cart : /\ ReserveRequest(c, cart).op = "reserve" /\ ReserveRequest(c, cart).c = c
                  /\ ReserveRequest(c, cart).cart = cart
  /\ \A c : /\ CommitRequest(c).op = "commit" /\ CommitRequest(c).c = c
            /\ CommitRequest(c).o = OrderOf[c]
            /\ ReleaseRequest(c).op = "release" /\ ReleaseRequest(c).c = c
  /\ \A o, v : /\ ReturnRequest(o, v).op = "adjust" /\ ReturnRequest(o, v).v = v
               /\ ReturnRequest(o, v).delta = Lines[o][v]
               /\ ReturnRequest(o, v).reason = "return" /\ ReturnRequest(o, v).o = o
  /\ \A v, d, reason :
       /\ StaffRequest(v, d, reason).op = "adjust" /\ StaffRequest(v, d, reason).v = v
       /\ StaffRequest(v, d, reason).delta = d /\ StaffRequest(v, d, reason).reason = reason
       /\ StaffRequest(v, d, reason).o = NoOrder
BY DEF ReserveRequest, CommitRequest, ReleaseRequest, ReturnRequest, StaffRequest

\* The requests of a checkout and of an order's line are requests.
LEMMA RequestsAreRequests ==
  /\ \A c \in Checkouts : /\ ReserveRequest(c, CartOf(c)) \in Requests
                          /\ CommitRequest(c) \in Requests /\ ReleaseRequest(c) \in Requests
  /\ \A o \in Orders, v \in Variants : ReturnRequest(o, v) \in Requests
BY DEF Requests, Reserves, Commits, Releases, Returns

-----------------------------------------------------------------------------
(* What one request does to the service *)

Places(c) ==
  /\ claim[c] = NoCart
  /\ PlaceRows(c, CartOf(c))
  /\ claim' = [claim EXCEPT ![c] = CartOf(c)]
  /\ UNCHANGED serverKeys
Sells(c) ==
  /\ commitKey[c] = NoOrder
  /\ SellRows(c, ActiveLines(c), OrderOf[c])
  /\ commitKey' = [commitKey EXCEPT ![c] = OrderOf[c]]
  /\ UNCHANGED <<releaseKey, adjustKeys>>
GivesBack(c) ==
  /\ ~releaseKey[c]
  /\ EndRows({c} \X ActiveLines(c), "released")
  /\ releaseKey' = [releaseKey EXCEPT ![c] = TRUE]
  /\ UNCHANGED <<commitKey, adjustKeys>>
Adjusts(r) == r \notin adjustKeys /\ ServerAdjustsStock(r)
Replays(r) == UNCHANGED server /\ Claimed(r) /\ SameBody(r)
Expires(c) == PassExpiry(c) /\ UNCHANGED serverKeys

\* A request that is answered was executed, replayed or refused.
LEMMA ServedHow ==
  ASSUME NEW r \in Requests, NEW answer, Serve(r, answer)
  PROVE  \/ UNCHANGED server /\ (answer = "ok" => Replays(r))
         \/ \E c \in Checkouts : r = ReserveRequest(c, CartOf(c)) /\ Places(c)
         \/ \E c \in Checkouts : r = CommitRequest(c) /\ Sells(c)
         \/ \E c \in Checkouts : r = ReleaseRequest(c) /\ GivesBack(c)
         \/ r \in Returns \cup Corrections /\ Adjusts(r)
<1>1. CASE UNCHANGED server /\ (answer = "ok" => Claimed(r) /\ SameBody(r))
  BY <1>1 DEF Replays
<1>2. CASE ~Claimed(r) /\ Execute(r)
  <2>1. ASSUME NEW c \in Checkouts, r = ReserveRequest(c, CartOf(c)) PROVE Places(c)
    <3>1. r.op = "reserve" /\ r.c = c /\ r.cart = CartOf(c)
      BY <2>1, RequestFields
    <3>2. CreateReservations(r) /\ claim[c] = NoCart
      BY <1>2, <3>1 DEF Execute, Claimed
    <3>3. QED
      BY <3>1, <3>2 DEF CreateReservations, Places
  <2>2. ASSUME NEW c \in Checkouts, r = CommitRequest(c) PROVE Sells(c)
    <3>1. r.op = "commit" /\ r.c = c /\ r.o = OrderOf[c]
      BY <2>2, RequestFields
    <3>2. CommitReservations(r) /\ commitKey[c] = NoOrder
      BY <1>2, <3>1 DEF Execute, Claimed
    <3>3. QED
      BY <3>1, <3>2 DEF CommitReservations, Sells
  <2>3. ASSUME NEW c \in Checkouts, r = ReleaseRequest(c) PROVE GivesBack(c)
    <3>1. r.op = "release" /\ r.c = c
      BY <2>3, RequestFields
    <3>2. ReleaseReservations(r) /\ ~releaseKey[c]
      BY <1>2, <3>1 DEF Execute, Claimed
    <3>3. QED
      BY <3>1, <3>2 DEF ReleaseReservations, GivesBack
  <2>4. ASSUME r.op = "adjust" PROVE Adjusts(r)
    BY <1>2, <2>4 DEF Execute, Claimed, Adjusts
  <2>5. ASSUME NEW o \in Orders, NEW v \in Variants, r = ReturnRequest(o, v)
        PROVE  r \in Returns /\ r.op = "adjust"
    BY <2>5, RequestFields DEF Returns
  <2>6. ASSUME NEW v \in Variants, NEW d \in Deltas, NEW reason \in StaffReasons,
               r = StaffRequest(v, d, reason)
        PROVE  r \in Corrections /\ r.op = "adjust"
    BY <2>6, RequestFields DEF Corrections
  <2>7. QED
    BY <2>1, <2>2, <2>3, <2>4, <2>5, <2>6, RequestKinds
<1>3. CASE Refuse(r) /\ answer = "no"
  BY <1>3 DEF Refuse
<1>4. QED
  BY <1>1, <1>2, <1>3 DEF Serve

\* The steps of the service, whoever asks for them.
ServerMoves ==
  \/ \E c \in Checkouts : Places(c) \/ Sells(c) \/ GivesBack(c) \/ Expires(c)
  \/ \E r \in Returns \cup Corrections : Adjusts(r)
  \/ ExpireReservations

CallType == call \in [Threads -> Calls \cup {NoCall}]

\* Of the calls f, that of thread t asks r, or has its answer.
InCall(f, t, r) == f[t] # NoCall /\ f[t].req = r
Got(f, t, r) == InCall(f, t, r) /\ f[t].phase = "ok"

\* The service acts for a call or a late copy, or by itself; nobody is told
\* anything in the same step.
LEMMA StepServes ==
  ASSUME CallType, [RemoteNext]_remoteVars
  PROVE  \/ \E r \in Requests, answer \in {"ok", "no"} :
              /\ Serve(r, answer) /\ told' = told
              /\ late[r] > 0 \/ \E t \in Threads : InCall(call, t, r)
         \/ (ExpireReservations \/ \E c \in Checkouts : Expires(c)) /\ told' = told
         \/ UNCHANGED server
<1>1. ASSUME NEW t \in Threads, NEW r \in Requests, Begin(t, r) PROVE UNCHANGED server
  BY <1>1 DEF Begin, StartsCall
<1>2. CASE SweepTick
  BY <1>2 DEF SweepTick
<1>3. CASE SweepLost \/ CoolDown \/ UNCHANGED remoteVars
  BY <1>3 DEF SweepLost, CoolDown, remoteVars
<1>4. ASSUME NEW t \in Threads, Send(t)
      PROVE  \E r \in Requests, answer \in {"ok", "no"} :
               Serve(r, answer) /\ told' = told /\ InCall(call, t, r)
  <2>1. call[t] # NoCall /\ call[t].req \in Requests /\ told' = told
    BY <1>4 DEF Send, Ready, CallType, Calls
  <2>2. PICK answer \in {"ok", "no"} : Serve(call[t].req, answer)
    BY <1>4 DEF Send
  <2>3. InCall(call, t, call[t].req)
    BY <2>1 DEF InCall
  <2>4. QED
    BY <2>1, <2>2, <2>3
<1>5. ASSUME NEW t \in Threads, Refused(t) \/ Receive(t) \/ NotDelivered(t) \/ AnswerLost(t)
      PROVE  UNCHANGED server
  BY <1>5 DEF Refused, Receive, NotDelivered, AnswerLost, Failed
<1>6. ASSUME NEW r \in Requests, HandleLate(r)
      PROVE  \E answer \in {"ok", "no"} : Serve(r, answer) /\ told' = told /\ late[r] > 0
  BY <1>6 DEF HandleLate
<1>7. ASSUME NEW c \in Checkouts, HoldExpires(c) PROVE Expires(c) /\ told' = told
  BY <1>7 DEF HoldExpires, Expires, client
<1>8. QED
  BY <1>1, <1>2, <1>3, <1>4, <1>5, <1>6, <1>7 DEF RemoteNext

\* So every step is one of the service or leaves it alone.
LEMMA RemoteStepMoves ==
  ASSUME CallType, [RemoteNext]_remoteVars
  PROVE  ServerMoves \/ UNCHANGED server
<1>1. ASSUME NEW r \in Requests, NEW answer, Serve(r, answer)
      PROVE  ServerMoves \/ UNCHANGED server
  BY <1>1, ServedHow DEF ServerMoves
<1>2. QED
  BY <1>1, StepServes DEF ServerMoves

-----------------------------------------------------------------------------
(* Rows of several checkouts end together *)

\* What the ledger's own proofs know of a state.
LedgerInv == TypeOK /\ NoOversell /\ ReturnedWasSold /\ RowsCounted

\* The units of v in these rows.
UnitsIn(rows, v) == UNION {RowUnits(c, v) : c \in {d \in Checkouts : <<d, v>> \in rows}}

\* The units of active rows are some of the units held, a number of them.
LEMMA UnitsInHeld ==
  ASSUME LedgerInv, NEW rows \in SUBSET Rows, NEW v \in Variants,
         \A c \in Checkouts, w \in Variants : <<c, w>> \in rows => IsActive(c, w)
  PROVE  /\ UnitsIn(rows, v) \subseteq HeldUnits(v)
         /\ IsFiniteSet(HeldUnits(v))
         /\ IsFiniteSet(UnitsIn(rows, v)) /\ Cardinality(UnitsIn(rows, v)) \in Nat
<1>1. UnitsIn(rows, v) \subseteq HeldUnits(v)
  BY DEF UnitsIn, HeldUnits
<1>2. IsFiniteSet(HeldUnits(v))
  BY DEF LedgerInv, RowsCounted
<1>3. IsFiniteSet(UnitsIn(rows, v))
  BY <1>1, <1>2, FS_Subset
<1>4. QED
  BY <1>1, <1>2, <1>3, FS_CardinalityType

\* What ending them does to rows and counters.
LEMMA EndRowsDoes ==
  ASSUME TypeOK, NEW rows \in SUBSET Rows, NEW status \in {"released", "expired"},
         EndRows(rows, status)
  PROVE  /\ \A v \in Variants : /\ Cardinality(UnitsIn(rows, v)) <= reserved[v]
                                /\ reserved'[v] = reserved[v] - Cardinality(UnitsIn(rows, v))
         /\ reserved' = [v \in Variants |-> reserved'[v]]
         /\ \A c \in Checkouts, v \in Variants :
              /\ <<c, v>> \in rows => hold'[c][v] = EndedRow(hold[c][v], status, NoOrder)
              /\ <<c, v>> \notin rows => hold'[c][v] = hold[c][v]
         /\ hold' \in [Checkouts -> [Variants -> RowType]]
         /\ UNCHANGED <<onHand, overdue, claim, refund, sold, returned, adjusted,
                        sweeping, releasing>>
<1>1. \A c \in Checkouts, v \in Variants : EndedRow(hold[c][v], status, NoOrder) \in RowType
  BY DEF TypeOK, EndedRow, RowType, Statuses
<1>2. hold' = [c \in Checkouts |-> [v \in Variants |->
        IF <<c, v>> \in rows THEN EndedRow(hold[c][v], status, NoOrder) ELSE hold[c][v]]]
  BY DEF EndRows
<1>3. \A c \in Checkouts, v \in Variants : hold[c][v] \in RowType
  BY DEF TypeOK
<1>4. hold' \in [Checkouts -> [Variants -> RowType]]
  BY <1>1, <1>2, <1>3
<1>5. /\ \A v \in Variants : Cardinality(UnitsIn(rows, v)) <= reserved[v]
      /\ reserved' = [v \in Variants |-> reserved[v] - Cardinality(UnitsIn(rows, v))]
  BY DEF EndRows, UnitsIn
<1>6. UNCHANGED <<onHand, overdue, claim, refund, sold, returned, adjusted, sweeping, releasing>>
  BY DEF EndRows, keys, movements, calls
<1>7. \A c \in Checkouts, v \in Variants :
        /\ <<c, v>> \in rows => hold'[c][v] = EndedRow(hold[c][v], status, NoOrder)
        /\ <<c, v>> \notin rows => hold'[c][v] = hold[c][v]
  BY <1>2
<1>8. /\ \A v \in Variants : reserved'[v] = reserved[v] - Cardinality(UnitsIn(rows, v))
      /\ reserved' = [v \in Variants |-> reserved'[v]]
  BY <1>5
<1>9. QED
  BY <1>4, <1>5, <1>6, <1>7, <1>8

\* It keeps what the ledger's proofs know.
LEMMA EndRowsKeeps ==
  ASSUME LedgerInv, NEW rows \in SUBSET Rows, NEW status \in {"released", "expired"},
         \A c \in Checkouts, v \in Variants : <<c, v>> \in rows => IsActive(c, v),
         EndRows(rows, status)
  PROVE  LedgerInv'
<1>1. TypeOK /\ NoOversell /\ ReturnedWasSold /\ RowsCounted
  BY DEF LedgerInv
<1>2. \A v \in Variants : reserved'[v] \in Nat /\ reserved'[v] <= reserved[v]
  <2>1. \A v \in Variants : /\ Cardinality(UnitsIn(rows, v)) <= reserved[v]
                            /\ reserved'[v] = reserved[v] - Cardinality(UnitsIn(rows, v))
    BY <1>1, EndRowsDoes
  <2>2. \A v \in Variants : Cardinality(UnitsIn(rows, v)) \in Nat /\ reserved[v] \in Nat
    BY <1>1, UnitsInHeld DEF TypeOK
  <2>3. QED
    BY <2>1, <2>2
<1>3. TypeOK'
  <2>1. reserved' \in [Variants -> Nat]
    BY <1>1, <1>2, EndRowsDoes
  <2>2. QED
    BY <1>1, <2>1, EndRowsDoes DEF TypeOK
<1>4. NoOversell'
  <2>1. \A v \in Variants : reserved[v] \in Nat /\ onHand[v] \in Nat /\ reserved[v] <= onHand[v]
    BY <1>1 DEF TypeOK, NoOversell
  <2>2. \A v \in Variants : reserved'[v] <= onHand'[v]
    BY <1>1, <1>2, <2>1, EndRowsDoes
  <2>3. QED
    BY <2>2 DEF NoOversell
<1>5. ReturnedWasSold'
  BY <1>1, EndRowsDoes DEF ReturnedWasSold
<1>6. \A c \in Checkouts, v \in Variants :
        /\ <<c, v>> \in rows => /\ hold'[c][v].status = status
                                /\ hold[c][v].status = "active"
        /\ <<c, v>> \notin rows => hold'[c][v] = hold[c][v]
  <2>1. \A c \in Checkouts, v \in Variants :
          /\ <<c, v>> \in rows => hold'[c][v] = EndedRow(hold[c][v], status, NoOrder)
          /\ <<c, v>> \notin rows => hold'[c][v] = hold[c][v]
    BY <1>1, EndRowsDoes
  <2>2. \A c \in Checkouts, v \in Variants : <<c, v>> \in rows => hold'[c][v].status = status
    BY <2>1, RowFields
  <2>3. \A c \in Checkouts, v \in Variants : <<c, v>> \in rows => hold[c][v].status = "active"
    BY DEF IsActive
  <2>4. QED
    BY <2>1, <2>2, <2>3
<1>7. ASSUME NEW v \in Variants
      PROVE  IsFiniteSet(HeldUnits(v))' /\ (reserved[v] = Cardinality(HeldUnits(v)))'
  <2>1. HeldUnits(v)' = HeldUnits(v) \ UnitsIn(rows, v)
    <3>1. \A d \in Checkouts : IsActive(d, v)' <=> IsActive(d, v) /\ <<d, v>> \notin rows
      BY <1>6 DEF IsActive
    <3>2. \A d \in Checkouts : IsActive(d, v)' => RowUnits(d, v)' = RowUnits(d, v)
      BY <1>6, <3>1 DEF RowUnits
    <3>3. HeldUnits(v)' = UNION {RowUnits(c, v) :
            c \in {d \in Checkouts : IsActive(d, v) /\ <<d, v>> \notin rows}}
      BY <3>1, <3>2 DEF HeldUnits
    <3>4. \A c, d, x : x \in RowUnits(c, v) /\ x \in RowUnits(d, v) => c = d
      BY DEF RowUnits
    <3>5. \A x : x \in HeldUnits(v)' <=>
            \E c \in Checkouts : IsActive(c, v) /\ <<c, v>> \notin rows /\ x \in RowUnits(c, v)
      BY <3>3
    <3>6. \A x : x \in HeldUnits(v) \ UnitsIn(rows, v) <=>
            /\ \E c \in Checkouts : IsActive(c, v) /\ x \in RowUnits(c, v)
            /\ ~ \E c \in Checkouts : <<c, v>> \in rows /\ x \in RowUnits(c, v)
      BY DEF HeldUnits, UnitsIn
    <3>7. ASSUME NEW x PROVE x \in HeldUnits(v)' <=> x \in HeldUnits(v) \ UnitsIn(rows, v)
      <4>1. ASSUME NEW c \in Checkouts, IsActive(c, v), <<c, v>> \notin rows, x \in RowUnits(c, v)
            PROVE  ~ \E d \in Checkouts : <<d, v>> \in rows /\ x \in RowUnits(d, v)
        BY <3>4, <4>1
      <4>2. QED
        BY <3>5, <3>6, <4>1
    <3>8. QED
      BY <3>7
  <2>2. /\ UnitsIn(rows, v) \subseteq HeldUnits(v) /\ IsFiniteSet(HeldUnits(v))
        /\ IsFiniteSet(UnitsIn(rows, v)) /\ Cardinality(UnitsIn(rows, v)) \in Nat
    BY UnitsInHeld
  <2>3. /\ IsFiniteSet(HeldUnits(v) \ UnitsIn(rows, v))
        /\ Cardinality(HeldUnits(v) \ UnitsIn(rows, v)) =
             Cardinality(HeldUnits(v)) - Cardinality(HeldUnits(v) \cap UnitsIn(rows, v))
    BY <2>2, FS_Difference
  <2>4. HeldUnits(v) \cap UnitsIn(rows, v) = UnitsIn(rows, v)
    BY <2>2
  <2>5. reserved'[v] = reserved[v] - Cardinality(UnitsIn(rows, v))
    BY <1>1, EndRowsDoes
  <2>6. reserved[v] = Cardinality(HeldUnits(v))
    BY <1>1 DEF RowsCounted
  <2>7. QED
    BY <2>1, <2>3, <2>4, <2>5, <2>6
<1>8. ASSUME NEW o \in Orders, NEW v \in Variants
      PROVE  IsFiniteSet(SoldUnits(o, v))' /\ (sold[o][v] = Cardinality(SoldUnits(o, v)))'
  <2>1. \A d \in Checkouts :
          (hold'[d][v].status = "committed" /\ hold'[d][v].order = o)
            <=> (hold[d][v].status = "committed" /\ hold[d][v].order = o)
    BY <1>6
  <2>2. \A d \in Checkouts : hold[d][v].status = "committed" => RowUnits(d, v)' = RowUnits(d, v)
    BY <1>6 DEF RowUnits
  <2>3. SoldUnits(o, v)' = SoldUnits(o, v)
    BY <2>1, <2>2 DEF SoldUnits
  <2>4. sold' = sold
    BY <1>1, EndRowsDoes
  <2>5. QED
    BY <1>1, <2>3, <2>4 DEF RowsCounted
<1>9. RowsCounted'
  BY <1>7, <1>8 DEF RowsCounted
<1>10. QED
  BY <1>3, <1>4, <1>5, <1>9 DEF LedgerInv

\* The pool counts as the ledger does.
LEMMA PoolCardinality == \A S : Pool!Cardinality(S) = Cardinality(S)
BY DEF Pool!Cardinality, Cardinality, Pool!IsFiniteSet, IsFiniteSet

\* In the pool the lines go back together.
LEMMA EndRowsGivesBack ==
  ASSUME LedgerInv, NEW rows \in SUBSET Rows, NEW status \in {"released", "expired"},
         \A c \in Checkouts, v \in Variants : <<c, v>> \in rows => IsActive(c, v),
         EndRows(rows, status)
  PROVE  Pool!GiveBackAll(rows)
<1>1. TypeOK
  BY DEF LedgerInv
<1>2. \A v \in Variants :
        UnitsIn(rows, v) =
          UNION {{c} \X (1..heldUnits[c][v]) : c \in {d \in Checkouts : <<d, v>> \in rows}}
  BY DEF UnitsIn, RowUnits, heldUnits
<1>3. \A v \in Variants : Available(v)' = Available(v) + Cardinality(UnitsIn(rows, v))
  <2>1. \A v \in Variants : /\ Cardinality(UnitsIn(rows, v)) \in Nat
                            /\ onHand[v] \in Nat /\ reserved[v] \in Nat
    BY <1>1, UnitsInHeld DEF TypeOK
  <2>2. QED
    BY <1>1, <2>1, EndRowsDoes DEF Available
<1>4. freeUnits' = [v \in Variants |-> freeUnits[v] + Cardinality(
        UNION {{c} \X (1..heldUnits[c][v]) : c \in {d \in Checkouts : <<d, v>> \in rows}})]
  BY <1>2, <1>3 DEF freeUnits
<1>5. \A c \in Checkouts, v \in Variants :
        HeldShare(c, v)' = IF <<c, v>> \in rows THEN 0 ELSE HeldShare(c, v)
  <2>1. \A c \in Checkouts, v \in Variants :
          /\ <<c, v>> \in rows => hold'[c][v] = EndedRow(hold[c][v], status, NoOrder)
          /\ <<c, v>> \notin rows => hold'[c][v] = hold[c][v]
    BY <1>1, EndRowsDoes
  <2>2. \A c \in Checkouts, v \in Variants :
          <<c, v>> \in rows => hold'[c][v].status = status /\ status # "active"
    BY <2>1, RowFields
  <2>3. QED
    BY <2>1, <2>2 DEF HeldShare, IsActive
<1>6. heldUnits' = [c \in Checkouts |-> [v \in Variants |->
        IF <<c, v>> \in rows THEN 0 ELSE heldUnits[c][v]]]
  <2>1. /\ heldUnits = [c \in Checkouts |-> [v \in Variants |-> HeldShare(c, v)]]
        /\ heldUnits' = [c \in Checkouts |-> [v \in Variants |-> HeldShare(c, v)']]
    BY DEF heldUnits, HeldShare
  <2>2. QED
    BY <1>5, <2>1
<1>7. boughtUnits' = boughtUnits
  BY <1>1, EndRowsDoes DEF boughtUnits
<1>8. QED
  BY <1>4, <1>6, <1>7, PoolCardinality DEF Pool!GiveBackAll

-----------------------------------------------------------------------------
(* Adjustments *)

\* What a return of one line puts back: no more than was bought of it and is
\* still with the order.
LEMMA ReturnApplies ==
  ASSUME TypeOK, NEW o \in Orders, NEW v \in Variants
  PROVE  LET back == Applied(ReturnRequest(o, v))
         IN  /\ back = IF Lines[o][v] < Outstanding(o, v) THEN Lines[o][v] ELSE Outstanding(o, v)
             /\ Lines[o][v] \in 0..MaxLine
             /\ back \in 0..MaxLine /\ back \in Nat
             /\ back <= Outstanding(o, v) /\ Outstanding(o, v) \in Nat
<1>1. Lines[o][v] \in Nat /\ Lines[o][v] \in 0..MaxLine
  BY RemoteAssumption, CartLine
<1>2. Outstanding(o, v) \in Nat
  BY DEF Outstanding, TypeOK
<1>3. o # NoOrder
  BY LedgerAssumption
<1>4. Applied(ReturnRequest(o, v)) =
        IF Lines[o][v] < Outstanding(o, v) THEN Lines[o][v] ELSE Outstanding(o, v)
  BY <1>3, RequestFields DEF Applied
<1>5. QED
  BY <1>1, <1>2, <1>4, LedgerAssumption

\* What an adjustment does: a return to its order, a correction to no order.
LEMMA ReturnDoes ==
  ASSUME NEW o \in Orders, NEW v \in Variants, Adjusts(ReturnRequest(o, v))
  PROVE  LET back == Applied(ReturnRequest(o, v))
         IN  /\ onHand' = [onHand EXCEPT ![v] = onHand[v] + back]
             /\ returned' = [returned EXCEPT ![o][v] = returned[o][v] + back]
             /\ adjustKeys' = adjustKeys \cup {ReturnRequest(o, v)}
             /\ UNCHANGED <<reserved, hold, overdue, claim, refund, sold, adjusted,
                            sweeping, releasing, commitKey, releaseKey>>
<1> DEFINE r == ReturnRequest(o, v)
<1>1. r.v = v /\ r.o = o /\ r.o # NoOrder
  BY RequestFields, LedgerAssumption
<1>2. ServerAdjustsStock(r)
  BY DEF Adjusts
<1> HIDE DEF r
<1>3. /\ onHand' = [onHand EXCEPT ![v] = onHand[v] + Applied(r)]
      /\ returned' = [returned EXCEPT ![o][v] = returned[o][v] + Applied(r)]
      /\ adjustKeys' = adjustKeys \cup {r}
      /\ UNCHANGED <<reserved, hold, overdue, claim, refund, sold, adjusted,
                     sweeping, releasing, commitKey, releaseKey>>
  BY <1>1, <1>2 DEF ServerAdjustsStock, keys, calls
<1>4. QED
  BY <1>3 DEF r

\* A correction leaves no unit reserved that is not on the shelf.
LEMMA CorrectionDoes ==
  ASSUME NEW v \in Variants, NEW d \in Deltas, NEW reason, Adjusts(StaffRequest(v, d, reason))
  PROVE  /\ onHand' = [onHand EXCEPT ![v] = onHand[v] + d]
         /\ onHand[v] + d >= reserved[v]
         /\ adjusted' = [adjusted EXCEPT ![v] = adjusted[v] + d]
         /\ adjustKeys' = adjustKeys \cup {StaffRequest(v, d, reason)}
         /\ UNCHANGED <<reserved, hold, overdue, claim, refund, sold, returned,
                        sweeping, releasing, commitKey, releaseKey>>
<1> DEFINE r == StaffRequest(v, d, reason)
<1>1. r.v = v /\ r.o = NoOrder /\ r.delta = d
  BY RequestFields
<1>2. Applied(r) = d
  BY <1>1 DEF Applied
<1>3. ServerAdjustsStock(r)
  BY DEF Adjusts
<1> HIDE DEF r
<1>4. /\ onHand' = [onHand EXCEPT ![v] = onHand[v] + d]
      /\ onHand[v] + d >= reserved[v]
      /\ adjusted' = [adjusted EXCEPT ![v] = adjusted[v] + d]
      /\ adjustKeys' = adjustKeys \cup {r}
      /\ UNCHANGED <<reserved, hold, overdue, claim, refund, sold, returned,
                     sweeping, releasing, commitKey, releaseKey>>
  BY <1>1, <1>2, <1>3 DEF ServerAdjustsStock, CanAdjust, keys, calls
<1>5. QED
  BY <1>4 DEF r

\* Counts stay right when neither rows nor counts change.
LEMMA CountsStay ==
  ASSUME RowsCounted, UNCHANGED <<hold, reserved, sold>>
  PROVE  RowsCounted'
BY DEF RowsCounted, HeldUnits, SoldUnits, RowUnits, IsActive

\* A return keeps what the ledger's proofs know, and is one in the pool.
LEMMA ReturnKeeps ==
  ASSUME LedgerInv, NEW o \in Orders, NEW v \in Variants, Adjusts(ReturnRequest(o, v))
  PROVE  LedgerInv' /\ \E back \in [Variants -> 0..MaxLine] : Pool!GiveReturn(o, back)
<1>1. TypeOK /\ NoOversell /\ ReturnedWasSold /\ RowsCounted
  BY DEF LedgerInv
<1>2. PICK n \in Nat :
        /\ n \in 0..MaxLine /\ n <= Outstanding(o, v)
        /\ onHand' = [onHand EXCEPT ![v] = onHand[v] + n]
        /\ returned' = [returned EXCEPT ![o][v] = returned[o][v] + n]
        /\ UNCHANGED <<reserved, hold, overdue, claim, refund, sold, adjusted, sweeping, releasing>>
  BY <1>1, ReturnApplies, ReturnDoes
<1>3. TypeOK'
  <2>1. onHand' \in [Variants -> Nat] /\ returned' \in [Orders -> [Variants -> Nat]]
    BY <1>1, <1>2 DEF TypeOK
  <2>2. QED
    BY <1>1, <1>2, <2>1 DEF TypeOK
<1>4. NoOversell'
  BY <1>1, <1>2 DEF NoOversell, TypeOK
<1>5. \A p \in Orders, w \in Variants :
        /\ returned'[p][w] = returned[p][w] + (IF p = o /\ w = v THEN n ELSE 0)
        /\ returned[p][w] \in Nat /\ sold[p][w] \in Nat /\ returned[p][w] <= sold[p][w]
  BY <1>1, <1>2 DEF TypeOK, ReturnedWasSold
<1>6. n <= sold[o][v] - returned[o][v]
  BY <1>2, <1>5 DEF Outstanding
<1>7. ReturnedWasSold'
  BY <1>2, <1>5, <1>6 DEF ReturnedWasSold
<1>8. RowsCounted'
  BY <1>1, <1>2, CountsStay
<1> DEFINE back == [w \in Variants |-> IF w = v THEN n ELSE 0]
<1>9. back \in [Variants -> 0..MaxLine]
  BY <1>2, LedgerAssumption
<1>10. \A w \in Variants : back[w] \in Nat /\ back[w] = IF w = v THEN n ELSE 0
  BY <1>2
<1> HIDE DEF back
<1>11. \A w \in Variants : back[w] <= boughtUnits[o][w]
  BY <1>5, <1>6, <1>10 DEF boughtUnits
<1>12. freeUnits' = [w \in Variants |-> freeUnits[w] + back[w]]
  <2>1. \A w \in Variants : Available(w)' = Available(w) + back[w]
    BY <1>1, <1>2, <1>10 DEF Available, TypeOK
  <2>2. QED
    BY <2>1 DEF freeUnits
<1>13. boughtUnits' = [boughtUnits EXCEPT ![o] =
         [w \in Variants |-> boughtUnits[o][w] - back[w]]]
  <2>1. \A p \in Orders, w \in Variants :
          sold'[p][w] - returned'[p][w] =
            IF p = o THEN sold[p][w] - returned[p][w] - back[w] ELSE sold[p][w] - returned[p][w]
    BY <1>2, <1>5, <1>10
  <2>2. \A p \in Orders : p # o =>
          [w \in Variants |-> sold'[p][w] - returned'[p][w]] =
          [w \in Variants |-> sold[p][w] - returned[p][w]]
    BY <2>1
  <2>3. [w \in Variants |-> sold'[o][w] - returned'[o][w]] =
          [w \in Variants |-> boughtUnits[o][w] - back[w]]
    BY <2>1 DEF boughtUnits
  <2>4. QED
    BY <2>2, <2>3 DEF boughtUnits
<1>14. heldUnits' = heldUnits
  BY <1>2 DEF heldUnits, IsActive
<1>15. Pool!GiveReturn(o, back)
  BY <1>11, <1>12, <1>13, <1>14 DEF Pool!GiveReturn
<1>16. QED
  BY <1>3, <1>4, <1>7, <1>8, <1>9, <1>15 DEF LedgerInv

\* So does a correction.
LEMMA CorrectionKeeps ==
  ASSUME LedgerInv, NEW v \in Variants, NEW d \in Deltas, NEW reason,
         Adjusts(StaffRequest(v, d, reason))
  PROVE  LedgerInv' /\ Pool!Correct(v, d)
<1>1. TypeOK /\ NoOversell /\ ReturnedWasSold /\ RowsCounted
  BY DEF LedgerInv
<1>2. d \in Int
  BY LedgerAssumption
<1>3. /\ onHand' = [onHand EXCEPT ![v] = onHand[v] + d]
      /\ onHand[v] + d >= reserved[v]
      /\ adjusted' = [adjusted EXCEPT ![v] = adjusted[v] + d]
      /\ UNCHANGED <<reserved, hold, overdue, claim, refund, sold, returned, sweeping, releasing>>
  BY CorrectionDoes
<1>4. TypeOK'
  <2>1. onHand[v] + d \in Nat
    BY <1>1, <1>2, <1>3 DEF TypeOK
  <2>2. onHand' \in [Variants -> Nat] /\ adjusted' \in [Variants -> Int]
    BY <1>1, <1>2, <1>3, <2>1 DEF TypeOK
  <2>3. QED
    BY <1>1, <1>3, <2>2 DEF TypeOK
<1>5. NoOversell'
  BY <1>1, <1>2, <1>3 DEF NoOversell, TypeOK
<1>6. ReturnedWasSold' /\ RowsCounted'
  BY <1>1, <1>3, CountsStay DEF ReturnedWasSold
<1>7. freeUnits[v] + d >= 0
  BY <1>1, <1>2, <1>3 DEF freeUnits, Available, TypeOK
<1>8. freeUnits' = [freeUnits EXCEPT ![v] = freeUnits[v] + d]
  <2>1. \A w \in Variants : Available(w)' = IF w = v THEN Available(w) + d ELSE Available(w)
    BY <1>1, <1>2, <1>3 DEF Available, TypeOK
  <2>2. QED
    BY <2>1 DEF freeUnits
<1>9. heldUnits' = heldUnits /\ boughtUnits' = boughtUnits
  BY <1>3 DEF heldUnits, boughtUnits, IsActive
<1>10. QED
  BY <1>4, <1>5, <1>6, <1>7, <1>8, <1>9 DEF LedgerInv, Pool!Correct

-----------------------------------------------------------------------------
(* Every step of the service *)

\* The rows that a release and a sweep end are active.
LEMMA EndedWereActive ==
  ASSUME NEW c \in Checkouts
  PROVE  /\ {c} \X ActiveLines(c) \in SUBSET Rows
         /\ \A d \in Checkouts, v \in Variants :
              <<d, v>> \in {c} \X ActiveLines(c) <=> d = c /\ IsActive(d, v)
         /\ SweepCandidates \in SUBSET Rows
         /\ \A d \in Checkouts, v \in Variants :
              <<d, v>> \in SweepCandidates => IsActive(d, v)
BY DEF ActiveLines, Rows, SweepCandidates

\* Whatever the service does keeps what the ledger's proofs know, and is a move of
\* the pool or leaves it alone.
LEMMA ServerKeeps ==
  ASSUME LedgerInv, ServerMoves
  PROVE  LedgerInv' /\ [Pool!PoolNext]_(Pool!pool)
<1> DEFINE Goal == LedgerInv' /\ (Pool!PoolNext \/ UNCHANGED Pool!pool)
<1>1. TypeOK /\ NoOversell /\ ReturnedWasSold /\ RowsCounted
  BY DEF LedgerInv
<1>2. ASSUME NEW c \in Checkouts, Places(c) PROVE Goal
  <2>1. /\ CartOf(c) \in [Variants -> Nat] /\ CartOf(c) \in Carts
        /\ CartOf(c) \in [Variants -> 0..MaxLine]
    BY CartsAreCarts
  <2>2. PlaceRows(c, CartOf(c)) /\ claim' \in [Checkouts -> Carts \cup {NoCart}]
    BY <1>1, <1>2, <2>1 DEF Places, TypeOK
  <2>3. TypeOK'
    BY <1>1, <2>1, <2>2, PlaceRowsType
  <2>4. OnlyMoves(c)
    BY <1>1, <2>1, <2>2, PlaceRowsMoves
  <2>5. RowsCounted'
    BY <1>1, <2>3, <2>4, MovesAreCounted
  <2>6. NoOversell' /\ ReturnedWasSold'
    BY <1>1, <2>1, <2>2, PlaceRowsCounters
  <2>7. Pool!Take(c, CartOf(c))
    BY <1>1, <2>1, <2>2, PlaceRowsTakes
  <2>8. QED
    BY <2>1, <2>3, <2>5, <2>6, <2>7 DEF LedgerInv, Pool!PoolNext
<1>3. ASSUME NEW c \in Checkouts, Sells(c) PROVE Goal
  <2>1. OrderOf[c] \in Orders /\ ActiveLines(c) \in SUBSET ActiveLines(c)
        /\ ActiveLines(c) \in SUBSET Variants
    BY CartsAreCarts DEF ActiveLines
  <2>2. SellRows(c, ActiveLines(c), OrderOf[c])
    BY <1>3 DEF Sells
  <2>3. TypeOK'
    BY <1>1, <2>1, <2>2, SellRowsType
  <2>4. OnlyMoves(c)
    BY <1>1, <2>1, <2>2, SellRowsMoves
  <2>5. RowsCounted'
    BY <1>1, <2>3, <2>4, MovesAreCounted
  <2>6. NoOversell' /\ ReturnedWasSold'
    BY <1>1, <2>1, <2>2, SellRowsCounters
  <2>7. Pool!Sell(c, ActiveLines(c), OrderOf[c])
    BY <1>1, <2>1, <2>2, SellRowsSells
  <2>8. QED
    BY <2>1, <2>3, <2>5, <2>6, <2>7 DEF LedgerInv, Pool!PoolNext
<1>4. ASSUME NEW rows \in SUBSET Rows, NEW status \in {"released", "expired"},
             \A c \in Checkouts, v \in Variants : <<c, v>> \in rows => IsActive(c, v),
             EndRows(rows, status)
      PROVE  Goal
  <2>1. LedgerInv'
    BY <1>4, EndRowsKeeps
  <2>2. Pool!GiveBackAll(rows)
    BY <1>4, EndRowsGivesBack
  <2>3. Pool!PoolNext
    BY <2>2 DEF Pool!PoolNext, Rows
  <2>4. QED
    BY <2>1, <2>3
<1>5. ASSUME NEW c \in Checkouts, GivesBack(c) PROVE Goal
  BY <1>4, <1>5, EndedWereActive DEF GivesBack
<1>6. CASE ExpireReservations
  <2>1. EndRows(SweepCandidates, "expired")
    BY <1>6 DEF ExpireReservations
  <2>2. /\ SweepCandidates \in SUBSET Rows
        /\ \A d \in Checkouts, v \in Variants : <<d, v>> \in SweepCandidates => IsActive(d, v)
    BY DEF SweepCandidates, Rows
  <2>3. QED
    BY <1>4, <2>1, <2>2
<1>7. ASSUME NEW c \in Checkouts, Expires(c) PROVE Goal
  <2>1. UNCHANGED <<onHand, reserved, hold, sold, returned, adjusted, claim, refund,
                    sweeping, releasing>>
        /\ overdue' = [overdue EXCEPT ![c] = TRUE]
    BY <1>7 DEF Expires, PassExpiry, counters, keys, movements, calls
  <2>2. TypeOK' /\ NoOversell' /\ ReturnedWasSold'
    BY <1>1, <2>1 DEF TypeOK, NoOversell, ReturnedWasSold
  <2>3. RowsCounted'
    BY <1>1, <2>1, CountsStay
  <2>4. UNCHANGED Pool!pool
    BY <2>1, PoolStutters
  <2>5. QED
    BY <2>2, <2>3, <2>4 DEF LedgerInv
<1>8. ASSUME NEW r \in Returns \cup Corrections, Adjusts(r) PROVE Goal
  <2>1. ASSUME NEW o \in Orders, NEW v \in Variants, r = ReturnRequest(o, v) PROVE Goal
    BY <1>8, <2>1, ReturnKeeps DEF Pool!PoolNext
  <2>2. ASSUME NEW v \in Variants, NEW d \in Deltas, NEW reason \in StaffReasons,
               r = StaffRequest(v, d, reason)
        PROVE  Goal
    BY <1>8, <2>2, CorrectionKeeps DEF Pool!PoolNext
  <2>3. QED
    BY <2>1, <2>2 DEF Returns, Corrections
<1>9. QED
  BY <1>2, <1>3, <1>5, <1>6, <1>7, <1>8 DEF ServerMoves

\* Initially too.
LEMMA LedgerInvInitially == Init => LedgerInv
<1>1. Init => TypeOK /\ NoOversell /\ ReturnedWasSold
  BY LedgerAssumption
     DEF Init, TypeOK, NoOversell, ReturnedWasSold, NoRow, RowType, Statuses, Rows
<1>2. QED
  BY <1>1, RowsCountedInitially DEF LedgerInv

\* A step that leaves the service alone leaves all that alone.
LEMMA ServerRests ==
  ASSUME LedgerInv, UNCHANGED server
  PROVE  LedgerInv' /\ UNCHANGED Pool!pool
<1>1. UNCHANGED <<onHand, reserved, hold, overdue, claim, refund, sold, returned, adjusted,
                  sweeping, releasing>>
  BY DEF server, vars, counters, keys, movements, calls
<1>2. TypeOK' /\ NoOversell' /\ ReturnedWasSold'
  BY <1>1 DEF LedgerInv, TypeOK, NoOversell, ReturnedWasSold
<1>3. RowsCounted'
  BY <1>1, CountsStay DEF LedgerInv
<1>4. QED
  BY <1>1, <1>2, <1>3, PoolStutters DEF LedgerInv

-----------------------------------------------------------------------------
(* Types *)

KeyTypes ==
  /\ commitKey \in [Checkouts -> Orders \cup {NoOrder}]
  /\ releaseKey \in [Checkouts -> BOOLEAN]
  /\ adjustKeys \subseteq Returns \cup Corrections
CallerTypes ==
  /\ CallType
  /\ told \in [Requests -> {"never", "ok", "no", "error"}]
  /\ asked \in [Requests -> 0..MaxAsks]
  /\ late \in [Requests -> Nat]
ClientTypes ==
  /\ CallerTypes
  /\ breaker \in {"closed", "open", "cooled"}
  /\ failures \in 0..Threshold

\* The service's keys keep their types.
LEMMA KeysKeepType ==
  ASSUME KeyTypes, ServerMoves \/ UNCHANGED server
  PROVE  KeyTypes'
<1>1. ASSUME UNCHANGED serverKeys PROVE KeyTypes'
  BY <1>1 DEF KeyTypes, serverKeys
<1>2. ASSUME NEW c \in Checkouts, Sells(c) PROVE KeyTypes'
  BY <1>2, CartsAreCarts DEF Sells, KeyTypes
<1>3. ASSUME NEW c \in Checkouts, GivesBack(c) PROVE KeyTypes'
  BY <1>3 DEF GivesBack, KeyTypes
<1>4. ASSUME NEW r \in Returns \cup Corrections, Adjusts(r) PROVE KeyTypes'
  BY <1>4 DEF Adjusts, ServerAdjustsStock, KeyTypes
<1>5. QED
  BY <1>1, <1>2, <1>3, <1>4 DEF ServerMoves, Places, Expires, ExpireReservations, server

\* Thread t's entry alone changes, to another call or to none.
LEMMA CallEntry ==
  ASSUME CallType, NEW t \in Threads, NEW x \in Calls \cup {NoCall},
         call' = [call EXCEPT ![t] = x]
  PROVE  CallType' /\ call'[t] = x /\ \A u \in Threads : u # t => call'[u] = call[u]
BY DEF CallType

\* The fields of a call.
LEMMA CallFields ==
  /\ \A r \in Requests, left \in 1..Attempts, phase \in {"ready", "ok", "no"} :
       Waiting(r, left, phase) \in Calls
  /\ \A r, left, phase : /\ Waiting(r, left, phase).req = r
                         /\ Waiting(r, left, phase).phase = phase
  /\ \A x \in Calls : x.req \in Requests /\ x.left \in 1..Attempts
BY DEF Waiting, Calls

-----------------------------------------------------------------------------
(* What one step does to the clients *)

\* Thread t is about to ask r, and nobody else is asking it.
Starts(t, r) ==
  /\ Asks(r)
  /\ \A u \in Threads : ~InCall(call, u, r) /\ (u # t => ~InCall(call', u, r))
  /\ told' = told
  /\ UNCHANGED server

\* A request is asked by a call that starts, goes on as long as its call does or a
\* copy is late, and is answered by the end of its call.
MovesOf(r) ==
  /\ asked[r] > 0 => asked'[r] > 0
  /\ asked'[r] > 0 => asked[r] > 0 \/ \E t \in Threads : Starts(t, r)
  /\ \A t \in Threads : InCall(call', t, r) => InCall(call, t, r) \/ (Starts(t, r) /\ asked'[r] > 0)
  /\ told'[r] # told[r] =>
       /\ told'[r] # "never"
       /\ \E t \in Threads : /\ InCall(call, t, r) /\ ~InCall(call', t, r)
                             /\ told'[r] = "ok" => Got(call, t, r)
  /\ late'[r] > 0 => late[r] > 0 \/ \E t \in Threads : InCall(call, t, r)
  /\ \A t \in Threads : Got(call', t, r) =>
       Got(call, t, r) \/ (InCall(call, t, r) /\ Serve(r, "ok"))
ClientMoves == \A r \in Requests : MovesOf(r)

\* A copy of t's request may be left behind.
LateOf(t) == late' = late \/ late' = [late EXCEPT ![call[t].req] = late[call[t].req] + 1]

\* A call that starts.
LEMMA Beginning ==
  ASSUME CallerTypes, NEW t \in Threads, NEW r \in Requests, Begin(t, r)
  PROVE  CallerTypes' /\ ClientMoves
<1>1. PICK left \in Budget(r) : call' = [call EXCEPT ![t] = Waiting(r, left, "ready")]
  BY DEF Begin, StartsCall
<1>2. left \in 1..Attempts
  BY <1>1, RemoteAssumption DEF Budget
<1> DEFINE x == Waiting(r, left, "ready")
<1>3. x \in Calls /\ x.req = r /\ x.phase = "ready"
  BY <1>2, CallFields
<1> HIDE DEF x
<1>4. CallType' /\ call'[t] = x /\ \A u \in Threads : u # t => call'[u] = call[u]
  BY <1>1, <1>3, CallEntry DEF CallerTypes, x
<1>5. /\ call[t] = NoCall /\ Asks(r) /\ UNCHANGED <<server, told, late>>
      /\ \A u \in Threads : ~InCall(call, u, r)
  BY DEF Begin, StartsCall, InCall
<1>6. /\ asked' \in [Requests -> 0..MaxAsks] /\ asked'[r] > 0
      /\ \A q \in Requests : q # r => asked'[q] = asked[q]
  BY RemoteAssumption DEF Begin, CallerTypes
<1>7. CallerTypes'
  BY <1>4, <1>5, <1>6 DEF CallerTypes
<1>8. Starts(t, r)
  BY <1>4, <1>5 DEF Starts, InCall
<1>9. ASSUME NEW q \in Requests PROVE MovesOf(q)
  <2>1. \A u \in Threads :
          /\ InCall(call', u, q) => InCall(call, u, q) \/ (u = t /\ q = r)
          /\ Got(call', u, q) => Got(call, u, q)
    <3>1. \A u \in Threads : u # t => /\ InCall(call', u, q) => InCall(call, u, q)
                                      /\ Got(call', u, q) => Got(call, u, q)
      BY <1>4 DEF InCall, Got
    <3>2. (InCall(call', t, q) => q = r) /\ ~Got(call', t, q)
      BY <1>3, <1>4 DEF InCall, Got
    <3>3. QED
      BY <3>1, <3>2
  <2>2. told'[q] = told[q] /\ late'[q] = late[q]
    BY <1>5
  <2>3. CASE q = r
    BY <1>6, <1>8, <2>1, <2>2, <2>3 DEF MovesOf
  <2>4. CASE q # r
    BY <1>6, <2>1, <2>2, <2>4 DEF MovesOf
  <2>5. QED
    BY <2>3, <2>4
<1>10. QED
  BY <1>7, <1>9 DEF ClientMoves

\* A call that ends.
LEMMA Ending ==
  ASSUME CallerTypes, NEW t \in Threads, call[t] # NoCall,
         NEW outcome \in {"ok", "no", "error"}, outcome = "ok" => call[t].phase = "ok",
         Ends(t, outcome), asked' = asked, LateOf(t)
  PROVE  CallerTypes' /\ ClientMoves
<1>1. PICK r \in Requests : call[t].req = r
  BY DEF CallerTypes, CallType, Calls
<1>2. CallType' /\ call'[t] = NoCall /\ \A u \in Threads : u # t => call'[u] = call[u]
  BY CallEntry DEF CallerTypes, Ends
<1>3. /\ told' \in [Requests -> {"never", "ok", "no", "error"}] /\ told'[r] = outcome
      /\ \A q \in Requests : q # r => told'[q] = told[q]
  BY <1>1 DEF Ends, CallerTypes
<1>4. /\ late' \in [Requests -> Nat]
      /\ \A q \in Requests : q # r => late'[q] = late[q]
  BY <1>1 DEF LateOf, CallerTypes
<1>5. CallerTypes'
  BY <1>2, <1>3, <1>4 DEF CallerTypes
<1>6. /\ InCall(call, t, r) /\ ~InCall(call', t, r) /\ (outcome = "ok" => Got(call, t, r))
      /\ \A u \in Threads, q \in Requests :
           (InCall(call', u, q) => InCall(call, u, q)) /\ (Got(call', u, q) => Got(call, u, q))
  BY <1>1, <1>2 DEF InCall, Got
<1>7. ASSUME NEW q \in Requests PROVE MovesOf(q)
  <2>1. asked'[q] = asked[q]
    OBVIOUS
  <2>2. CASE q = r
    BY <1>3, <1>6, <2>1, <2>2 DEF MovesOf
  <2>3. CASE q # r
    BY <1>3, <1>4, <1>6, <2>1, <2>3 DEF MovesOf
  <2>4. QED
    BY <2>2, <2>3
<1>8. QED
  BY <1>5, <1>7 DEF ClientMoves

\* A call that tries again.
LEMMA Retrying ==
  ASSUME CallerTypes, NEW t \in Threads, call[t] # NoCall, call[t].left > 1,
         call' = [call EXCEPT ![t] = Waiting(call[t].req, call[t].left - 1, "ready")],
         UNCHANGED <<told, asked>>, LateOf(t)
  PROVE  CallerTypes' /\ ClientMoves
<1>1. PICK r \in Requests : call[t].req = r
  BY DEF CallerTypes, CallType, Calls
<1>2. call[t].left - 1 \in 1..Attempts
  BY RemoteAssumption DEF CallerTypes, CallType, Calls
<1> DEFINE x == Waiting(call[t].req, call[t].left - 1, "ready")
<1>3. x \in Calls /\ x.req = r /\ x.phase = "ready"
  BY <1>1, <1>2, CallFields
<1>4. call' = [call EXCEPT ![t] = x]
  OBVIOUS
<1> HIDE DEF x
<1>5. CallType' /\ call'[t] = x /\ \A u \in Threads : u # t => call'[u] = call[u]
  BY <1>3, <1>4, CallEntry DEF CallerTypes
<1>6. /\ late' \in [Requests -> Nat]
      /\ \A q \in Requests : q # r => late'[q] = late[q]
  BY <1>1 DEF LateOf, CallerTypes
<1>7. CallerTypes'
  BY <1>5, <1>6 DEF CallerTypes
<1>8. /\ InCall(call, t, r)
      /\ \A u \in Threads, q \in Requests :
           (InCall(call', u, q) => InCall(call, u, q)) /\ (Got(call', u, q) => Got(call, u, q))
  BY <1>1, <1>3, <1>5 DEF InCall, Got
<1>9. ASSUME NEW q \in Requests PROVE MovesOf(q)
  <2>1. asked'[q] = asked[q] /\ told'[q] = told[q]
    OBVIOUS
  <2>2. CASE q = r
    BY <1>8, <2>1, <2>2 DEF MovesOf
  <2>3. CASE q # r
    BY <1>6, <1>8, <2>1, <2>3 DEF MovesOf
  <2>4. QED
    BY <2>2, <2>3
<1>10. QED
  BY <1>7, <1>9 DEF ClientMoves

\* A request that is executed.
LEMMA Sending ==
  ASSUME CallerTypes, NEW t \in Threads, Send(t)
  PROVE  CallerTypes' /\ ClientMoves
<1>1. PICK r \in Requests : call[t].req = r
  BY DEF CallerTypes, CallType, Calls, Send, Ready
<1>2. PICK answer \in {"ok", "no"} :
        Serve(call[t].req, answer) /\ call' = [call EXCEPT ![t].phase = answer]
  BY DEF Send
<1> DEFINE x == [call[t] EXCEPT !.phase = answer]
<1>3. x \in Calls /\ x.req = r /\ x.phase = answer /\ call[t] # NoCall
  BY <1>1 DEF CallerTypes, CallType, Calls, Send, Ready
<1>4. call' = [call EXCEPT ![t] = x]
  BY <1>2 DEF CallerTypes, CallType
<1> HIDE DEF x
<1>5. CallType' /\ call'[t] = x /\ \A u \in Threads : u # t => call'[u] = call[u]
  BY <1>3, <1>4, CallEntry DEF CallerTypes
<1>6. UNCHANGED <<told, asked, late>>
  BY DEF Send
<1>7. CallerTypes'
  BY <1>5, <1>6 DEF CallerTypes
<1>8. InCall(call, t, r)
  BY <1>1, <1>3 DEF InCall
<1>9. ASSUME NEW q \in Requests PROVE MovesOf(q)
  <2>1. asked'[q] = asked[q] /\ told'[q] = told[q] /\ late'[q] = late[q]
    BY <1>6
  <2>2. \A u \in Threads : u # t => /\ InCall(call', u, q) => InCall(call, u, q)
                                    /\ Got(call', u, q) => Got(call, u, q)
    BY <1>5 DEF InCall, Got
  <2>3. InCall(call', t, q) => q = r
    BY <1>3, <1>5 DEF InCall
  <2>4. Got(call', t, r) => Serve(r, "ok")
    <3>1. Got(call', t, r) => answer = "ok"
      BY <1>3, <1>5 DEF Got
    <3>2. QED
      BY <1>1, <1>2, <3>1
  <2>5. Got(call', t, q) => InCall(call', t, q)
    BY DEF Got
  <2>6. CASE q = r
    BY <1>8, <2>1, <2>2, <2>4, <2>6 DEF MovesOf
  <2>7. CASE q # r
    BY <2>1, <2>2, <2>3, <2>5, <2>7 DEF MovesOf
  <2>8. QED
    BY <2>6, <2>7
<1>10. QED
  BY <1>7, <1>9 DEF ClientMoves

\* A step that no call takes part in.
LEMMA Elsewhere ==
  ASSUME CallerTypes, UNCHANGED <<call, told, asked>>, late' \in [Requests -> Nat],
         \A r \in Requests : late'[r] > 0 => late[r] > 0
  PROVE  CallerTypes' /\ ClientMoves
<1>1. CallerTypes'
  BY DEF CallerTypes, CallType
<1>2. ASSUME NEW r \in Requests PROVE MovesOf(r)
  <2>1. \A t \in Threads : /\ InCall(call', t, r) => InCall(call, t, r)
                           /\ Got(call', t, r) => Got(call, t, r)
    BY DEF InCall, Got
  <2>2. asked'[r] = asked[r] /\ told'[r] = told[r]
    OBVIOUS
  <2>3. QED
    BY <2>1, <2>2 DEF MovesOf
<1>3. QED
  BY <1>1, <1>2 DEF ClientMoves

\* A failed attempt.
LEMMA Failing ==
  ASSUME CallerTypes, NEW t \in Threads, call[t] # NoCall, Failed(t), LateOf(t)
  PROVE  CallerTypes' /\ ClientMoves
<1>1. CASE Ends(t, "error")
  BY <1>1, Ending DEF Failed
<1>2. CASE /\ call[t].left > 1 /\ told' = told
           /\ call' = [call EXCEPT ![t] = Waiting(call[t].req, call[t].left - 1, "ready")]
  BY <1>2, Retrying DEF Failed
<1>3. QED
  BY <1>1, <1>2 DEF Failed

\* Every step.
LEMMA CallersMove ==
  ASSUME CallerTypes, [RemoteNext]_remoteVars
  PROVE  CallerTypes' /\ ClientMoves
<1>1. ASSUME NEW t \in Threads, NEW r \in Requests, Begin(t, r)
      PROVE  CallerTypes' /\ ClientMoves
  BY <1>1, Beginning
<1>2. ASSUME UNCHANGED <<call, told, asked, late>> PROVE CallerTypes' /\ ClientMoves
  BY <1>2, Elsewhere DEF CallerTypes
<1>3. CASE SweepTick \/ SweepLost \/ CoolDown \/ \E c \in Checkouts : HoldExpires(c)
  BY <1>2, <1>3 DEF SweepTick, SweepLost, CoolDown, HoldExpires, client
<1>4. ASSUME NEW t \in Threads, Refused(t) PROVE CallerTypes' /\ ClientMoves
  BY <1>4, Ending DEF Refused, Ready, LateOf
<1>5. ASSUME NEW t \in Threads, Send(t) PROVE CallerTypes' /\ ClientMoves
  BY <1>5, Sending
<1>6. ASSUME NEW t \in Threads, Receive(t) PROVE CallerTypes' /\ ClientMoves
  BY <1>6, Ending DEF Receive, LateOf
<1>7. ASSUME NEW t \in Threads, NotDelivered(t) PROVE CallerTypes' /\ ClientMoves
  BY <1>7, Failing DEF NotDelivered, Ready, LateOf
<1>8. ASSUME NEW t \in Threads, AnswerLost(t) PROVE CallerTypes' /\ ClientMoves
  BY <1>8, Failing DEF AnswerLost, LateOf
<1>9. ASSUME NEW r \in Requests, HandleLate(r) PROVE CallerTypes' /\ ClientMoves
  <2>1. late' \in [Requests -> Nat] /\ \A q \in Requests : late'[q] > 0 => late[q] > 0
    BY <1>9 DEF HandleLate, CallerTypes
  <2>2. QED
    BY <1>9, <2>1, Elsewhere DEF HandleLate
<1>10. CASE UNCHANGED remoteVars
  BY <1>2, <1>10 DEF remoteVars, client
<1>11. QED
  BY <1>1, <1>3, <1>4, <1>5, <1>6, <1>7, <1>8, <1>9, <1>10 DEF RemoteNext

\* The breaker and its count keep their types.
LEMMA BreakerKeepsType ==
  ASSUME breaker \in {"closed", "open", "cooled"}, failures \in 0..Threshold,
         [RemoteNext]_remoteVars
  PROVE  breaker' \in {"closed", "open", "cooled"} /\ failures' \in 0..Threshold
<1> DEFINE Goal == breaker' \in {"closed", "open", "cooled"} /\ failures' \in 0..Threshold
<1>1. ASSUME NEW from \in {"closed", "open", "cooled"}, CountFailure(from) PROVE Goal
  BY <1>1, RemoteAssumption DEF CountFailure
<1>2. ASSUME CountSuccess PROVE Goal
  BY <1>2, RemoteAssumption DEF CountSuccess
<1>3. ASSUME failures' = failures, breaker' \in {breaker, "closed", "cooled"} PROVE Goal
  BY <1>3
<1>4. ASSUME NEW t \in Threads, NEW r \in Requests, Begin(t, r) PROVE Goal
  BY <1>3, <1>4 DEF Begin, StartsCall
<1>5. CASE SweepTick \/ SweepLost
  BY <1>1, <1>2, <1>5 DEF SweepTick, SweepLost
<1>6. ASSUME NEW t \in Threads, Refused(t) \/ Send(t) PROVE Goal
  BY <1>3, <1>6 DEF Refused, Send
<1>7. ASSUME NEW t \in Threads, Receive(t) \/ NotDelivered(t) \/ AnswerLost(t) PROVE Goal
  BY <1>1, <1>2, <1>7 DEF Receive, NotDelivered, AnswerLost
<1>8. ASSUME NEW r \in Requests, HandleLate(r) PROVE Goal
  BY <1>3, <1>8 DEF HandleLate
<1>9. CASE CoolDown
  BY <1>3, <1>9 DEF CoolDown
<1>10. ASSUME NEW c \in Checkouts, HoldExpires(c) PROVE Goal
  BY <1>3, <1>10 DEF HoldExpires, client
<1>11. CASE UNCHANGED remoteVars
  BY <1>3, <1>11 DEF remoteVars, client
<1>12. QED
  BY <1>4, <1>5, <1>6, <1>7, <1>8, <1>9, <1>10, <1>11 DEF RemoteNext

-----------------------------------------------------------------------------
(* What holds of every behaviour *)

\* The types, and what the ledger's own proofs know, together.
TypesInv == LedgerInv /\ KeyTypes /\ ClientTypes

\* They hold at first.
LEMMA TypesInvInitially == RemoteInit => TypesInv
<1>1. RemoteInit => LedgerInv
  BY LedgerInvInitially DEF RemoteInit
<1>2. RemoteInit => KeyTypes
  BY DEF RemoteInit, KeyTypes
<1>3. RemoteInit => ClientTypes
  BY RemoteAssumption DEF RemoteInit, ClientTypes, CallerTypes, CallType
<1>4. QED
  BY <1>1, <1>2, <1>3 DEF TypesInv

\* They are inductive, and every step is a move of the pool or leaves it alone.
LEMMA TypesInvInductive ==
  ASSUME TypesInv, [RemoteNext]_remoteVars
  PROVE  TypesInv' /\ [Pool!PoolNext]_(Pool!pool)
<1>1. LedgerInv /\ KeyTypes /\ CallerTypes /\ CallType
      /\ breaker \in {"closed", "open", "cooled"} /\ failures \in 0..Threshold
  BY DEF TypesInv, ClientTypes, CallerTypes
<1>2. ServerMoves \/ UNCHANGED server
  BY <1>1, RemoteStepMoves DEF CallType
<1>3. LedgerInv' /\ [Pool!PoolNext]_(Pool!pool)
  BY <1>1, <1>2, ServerKeeps, ServerRests
<1>4. KeyTypes'
  BY <1>1, <1>2, KeysKeepType
<1>5. CallerTypes'
  BY <1>1, CallersMove
<1>6. breaker' \in {"closed", "open", "cooled"} /\ failures' \in 0..Threshold
  BY <1>1, BreakerKeepsType
<1>7. ClientTypes'
  BY <1>5, <1>6 DEF ClientTypes, CallerTypes, CallType
<1>8. QED
  BY <1>3, <1>4, <1>7 DEF TypesInv

\* In every state.
LEMMA TypesHold == RemoteSpec => []TypesInv
<1>1. TypesInv /\ [RemoteNext]_remoteVars => TypesInv'
  BY TypesInvInductive
<1>2. QED
  BY <1>1, TypesInvInitially, PTL DEF RemoteSpec

\* Every variable of the service, of its clients and of the breaker keeps its type
\* (services/inventory/inventory/models.py, apps/core/http.py).
THEOREM RemoteTypeCorrect == RemoteSpec => []RemoteTypeOK
<1>1. TypesInv => RemoteTypeOK
  BY DEF TypesInv, LedgerInv, KeyTypes, ClientTypes, CallerTypes, CallType, RemoteTypeOK
<1>2. QED
  BY <1>1, TypesHold, PTL

\* Behind a network that loses, delays and repeats requests, the service never
\* promises a unit it does not have, nor takes back one it did not sell.
THEOREM RemoteNeverOversells == RemoteSpec => [](NoOversell /\ ReturnedWasSold)
<1>1. TypesInv => NoOversell /\ ReturnedWasSold
  BY DEF TypesInv, LedgerInv
<1>2. QED
  BY <1>1, TypesHold, PTL

\* Its counter of reserved units counts the units of its active rows, its sales
\* the units of the rows an order has.
THEOREM RemoteCountsItsRows == RemoteSpec => [](ReservedIsHeld /\ SoldIsCommitted)
<1>1. TypesInv => ReservedIsHeld /\ SoldIsCommitted
  BY DEF TypesInv, LedgerInv, RowsCounted, ReservedIsHeld, SoldIsCommitted
<1>2. QED
  BY <1>1, TypesHold, PTL

\* What the service does to a counter is in its movements: a sale, a return, a
\* correction.
LEMMA ServerBooks ==
  ASSUME TypeOK, ServerMoves \/ UNCHANGED server
  PROVE  Booked
<1>1. ASSUME UNCHANGED <<onHand, movements>> PROVE Booked
  BY <1>1 DEF Booked, movements
<1>2. ASSUME NEW c \in Checkouts, Places(c) \/ GivesBack(c) \/ Expires(c)
      PROVE  UNCHANGED <<onHand, movements>>
  BY <1>2 DEF Places, PlaceRows, GivesBack, EndRows, Expires, PassExpiry, counters
<1>3. ASSUME NEW c \in Checkouts, Sells(c) PROVE Booked
  <2>1. OrderOf[c] \in Orders /\ ActiveLines(c) \in SUBSET Variants
    BY CartsAreCarts DEF ActiveLines
  <2>2. QED
    BY <1>3, <2>1, SellRowsBooks DEF Sells
<1>4. ASSUME NEW o \in Orders, NEW v \in Variants, Adjusts(ReturnRequest(o, v)) PROVE Booked
  <2> DEFINE back == Applied(ReturnRequest(o, v))
             units == [w \in Variants |-> IF w = v THEN back ELSE 0]
  <2>1. back \in Nat
    BY ReturnApplies
  <2>2. /\ onHand' = [onHand EXCEPT ![v] = onHand[v] + back]
        /\ returned' = [returned EXCEPT ![o][v] = returned[o][v] + back]
        /\ sold' = sold /\ adjusted' = adjusted
    BY <1>4, ReturnDoes
  <2> HIDE DEF back
  <2>3. units \in [Variants -> Int]
    BY <2>1
  <2>4. ReturnBooked(o, units)
    <3>1. \A w \in Variants : onHand'[w] = onHand[w] + units[w]
      BY <2>1, <2>2 DEF TypeOK
    <3>2. \A w \in Variants : returned'[o][w] = returned[o][w] + units[w]
      BY <2>1, <2>2 DEF TypeOK
    <3>3. \A p \in Orders \ {o} : returned'[p] = returned[p]
      BY <2>2 DEF TypeOK
    <3>4. QED
      BY <2>2, <3>1, <3>2, <3>3 DEF ReturnBooked
  <2>5. QED
    BY <2>3, <2>4 DEF Booked
<1>5. ASSUME NEW v \in Variants, NEW d \in Deltas, NEW reason, Adjusts(StaffRequest(v, d, reason))
      PROVE  Booked
  <2> DEFINE units == [w \in Variants |-> IF w = v THEN d ELSE 0]
  <2>1. units \in [Variants -> Int] /\ d \in Int
    BY LedgerAssumption
  <2>2. /\ onHand' = [onHand EXCEPT ![v] = onHand[v] + d]
        /\ adjusted' = [adjusted EXCEPT ![v] = adjusted[v] + d]
        /\ sold' = sold /\ returned' = returned
    BY <1>5, CorrectionDoes
  <2>3. CorrectionBooked(units)
    BY <2>1, <2>2 DEF TypeOK, CorrectionBooked
  <2>4. QED
    BY <2>1, <2>3 DEF Booked
<1>6. ASSUME NEW r \in Returns \cup Corrections, Adjusts(r) PROVE Booked
  BY <1>4, <1>5, <1>6 DEF Returns, Corrections
<1>7. CASE ExpireReservations
  BY <1>1, <1>7 DEF ExpireReservations, EndRows
<1>8. CASE UNCHANGED server
  BY <1>1, <1>8 DEF server, vars, counters
<1>9. QED
  BY <1>1, <1>2, <1>3, <1>6, <1>7, <1>8 DEF ServerMoves

\* Behind that network too, the movements of a variant add up to its counter.
THEOREM RemoteMovementsAddUp == RemoteSpec => []AuditTrail
<1>1. RemoteInit => BooksAgree
  BY BooksOpen DEF RemoteInit
<1>2. TypesInv /\ BooksAgree /\ [RemoteNext]_remoteVars => BooksAgree'
  BY RemoteStepMoves, ServerBooks, BooksMove DEF TypesInv, LedgerInv, ClientTypes, CallerTypes
<1>3. TypesInv /\ BooksAgree => AuditTrail
  BY DEF TypesInv, LedgerInv, BooksAgree, OnShelf, AuditTrail, Column
<1>4. QED
  BY <1>1, <1>2, <1>3, TypesHold, PTL DEF RemoteSpec

\* Whatever is lost, late or sent twice, the requests of any number of threads
\* move whole units between the shelf, checkouts and orders, and do nothing else.
THEOREM RemoteLedgerImplementsPool == RemoteSpec => RemoteImplementsPool
<1>1. RemoteInit => Pool!PoolInit
  BY InitImplements DEF RemoteInit
<1>2. TypesInv /\ [RemoteNext]_remoteVars => [Pool!PoolNext]_(Pool!pool)
  BY TypesInvInductive
<1>3. QED
  BY <1>1, <1>2, TypesHold, PTL
     DEF RemoteSpec, RemoteImplementsPool, ImplementsUnitPool, Pool!PoolSpec

-----------------------------------------------------------------------------
(* What the clients know of the service *)

\* The requests whose keys are taken.
Recorded ==
  {ReserveRequest(c, CartOf(c)) : c \in {d \in Checkouts : claim[d] # NoCart}}
    \cup {CommitRequest(c) : c \in {d \in Checkouts : commitKey[d] # NoOrder}}
    \cup {ReleaseRequest(c) : c \in {d \in Checkouts : releaseKey[d]}}
    \cup adjustKeys

\* A good answer, known to the caller or on its way, has its key.
Answered ==
  \A r \in Requests : told[r] = "ok" \/ (\E t \in Threads : Got(call, t, r)) => r \in Recorded

\* An end, a late copy, a call and a key all come from a call that began.
WasAsked ==
  \A r \in Requests :
    told[r] # "never" \/ late[r] > 0 \/ (\E t \in Threads : InCall(call, t, r)) \/ r \in Recorded
      => asked[r] > 0

\* One thread at a time asks a request.
OneCaller ==
  \A r \in Requests, t, u \in Threads : InCall(call, t, r) /\ InCall(call, u, r) => t = u

\* A reserve is asked once, so what its caller is told is never revised.
ReservedOnce ==
  \A c \in Checkouts, t \in Threads :
    InCall(call, t, ReserveRequest(c, CartOf(c))) => told[ReserveRequest(c, CartOf(c))] = "never"

\* Why a request was worth asking: a commit for an order that was placed, a
\* release for one placed or uncertain, a return after every release.
AskedForReason ==
  /\ \A c \in Checkouts :
       /\ asked[CommitRequest(c)] > 0 => Placed(c)
       /\ asked[ReleaseRequest(c)] > 0 => told[ReserveRequest(c, CartOf(c))] \in {"ok", "error"}
  /\ \A o \in Orders, v \in Variants : asked[ReturnRequest(o, v)] > 0 =>
       \E c \in Checkouts : OrderOf[c] = o /\ Placed(c) /\ releaseKey[c]

\* The rows of a checkout that was reserved have its cart's units, and none of
\* them is active once it is committed, or released when its caller knew of it.
RowsOfCheckouts ==
  \A c \in Checkouts :
    /\ claim[c] # NoCart => \A v \in Variants : hold[c][v].qty = CartOf(c)[v]
    /\ commitKey[c] # NoOrder \/ (releaseKey[c] /\ Placed(c)) => ActiveLines(c) = {}

\* An order is sold its lines once, and a line returned comes back whole.
SalesOfOrders ==
  /\ \A o \in Orders, v \in Variants :
       /\ sold[o][v] <= Lines[o][v]
       /\ ReturnRequest(o, v) \in adjustKeys => returned[o][v] = sold[o][v]
  /\ \A c \in Checkouts : commitKey[c] = NoOrder => \A v \in Variants : sold[OrderOf[c]][v] = 0

CallsInv == Answered /\ WasAsked /\ OneCaller /\ ReservedOnce /\ AskedForReason
RowsInv == RowsOfCheckouts /\ SalesOfOrders

\* A request's key is taken when Recorded has it.
LEMMA KeyOf ==
  ASSUME NEW c \in Checkouts, adjustKeys \subseteq Returns \cup Corrections
  PROVE  /\ ReserveRequest(c, CartOf(c)) \in Recorded <=> claim[c] # NoCart
         /\ CommitRequest(c) \in Recorded <=> commitKey[c] # NoOrder
         /\ ReleaseRequest(c) \in Recorded <=> releaseKey[c]
<1>1. \A r \in adjustKeys : r.op = "adjust"
  BY RequestFields DEF Returns, Corrections
<1>2. /\ ReserveRequest(c, CartOf(c)) \notin adjustKeys
      /\ CommitRequest(c) \notin adjustKeys /\ ReleaseRequest(c) \notin adjustKeys
  BY <1>1, RequestFields
<1>3. \A d \in Checkouts :
        /\ ReserveRequest(c, CartOf(c)) = ReserveRequest(d, CartOf(d)) => c = d
        /\ CommitRequest(c) = CommitRequest(d) => c = d
        /\ ReleaseRequest(c) = ReleaseRequest(d) => c = d
        /\ ReserveRequest(c, CartOf(c)) # CommitRequest(d)
        /\ ReserveRequest(c, CartOf(c)) # ReleaseRequest(d)
        /\ CommitRequest(c) # ReserveRequest(d, CartOf(d)) /\ CommitRequest(c) # ReleaseRequest(d)
        /\ ReleaseRequest(c) # ReserveRequest(d, CartOf(d)) /\ ReleaseRequest(c) # CommitRequest(d)
  BY RequestFields
<1>4. QED
  BY <1>2, <1>3 DEF Recorded

\* And an adjustment's when the adjustments recorded have it.
LEMMA AdjustKeyOf ==
  ASSUME NEW r \in Returns \cup Corrections
  PROVE  r.op = "adjust" /\ (r \in Recorded <=> r \in adjustKeys)
<1>1. r.op = "adjust"
  BY RequestFields DEF Returns, Corrections
<1>2. \A c \in Checkouts : /\ r # ReserveRequest(c, CartOf(c))
                           /\ r # CommitRequest(c) /\ r # ReleaseRequest(c)
  BY <1>1, RequestFields
<1>3. QED
  BY <1>1, <1>2 DEF Recorded

\* A replay is of a request that is recorded.
LEMMA ReplayIsRecorded ==
  ASSUME NEW r \in Requests, Claimed(r)
  PROVE  r \in Recorded
<1>1. ASSUME NEW c \in Checkouts, r = ReserveRequest(c, CartOf(c)) PROVE r \in Recorded
  <2>1. r.op = "reserve" /\ r.c = c
    BY <1>1, RequestFields
  <2>2. claim[c] # NoCart
    BY <2>1 DEF Claimed
  <2>3. QED
    BY <1>1, <2>2 DEF Recorded
<1>2. ASSUME NEW c \in Checkouts, r = CommitRequest(c) PROVE r \in Recorded
  <2>1. r.op = "commit" /\ r.c = c
    BY <1>2, RequestFields
  <2>2. commitKey[c] # NoOrder
    BY <2>1 DEF Claimed
  <2>3. QED
    BY <1>2, <2>2 DEF Recorded
<1>3. ASSUME NEW c \in Checkouts, r = ReleaseRequest(c) PROVE r \in Recorded
  <2>1. r.op = "release" /\ r.c = c
    BY <1>3, RequestFields
  <2>2. releaseKey[c]
    BY <2>1 DEF Claimed
  <2>3. QED
    BY <1>3, <2>2 DEF Recorded
<1>4. ASSUME r \in Returns \cup Corrections PROVE r \in Recorded
  <2>1. r.op = "adjust"
    BY <1>4, AdjustKeyOf
  <2>2. r \in adjustKeys
    BY <2>1 DEF Claimed
  <2>3. QED
    BY <2>2 DEF Recorded
<1>5. QED
  BY <1>1, <1>2, <1>3, <1>4, RequestKinds DEF Returns, Corrections

\* A step that takes no key.
LEMMA KeysRest == ASSUME UNCHANGED <<claim, serverKeys>> PROVE Recorded' = Recorded
BY DEF Recorded, serverKeys, CartOf, ReserveRequest, CommitRequest, ReleaseRequest

\* An execution takes its own key, and only that.
LEMMA MovesRecord ==
  ASSUME TypeOK, KeyTypes
  PROVE  /\ \A c \in Checkouts :
              /\ Places(c) => Recorded' = Recorded \cup {ReserveRequest(c, CartOf(c))}
              /\ Sells(c) => Recorded' = Recorded \cup {CommitRequest(c)}
              /\ GivesBack(c) => Recorded' = Recorded \cup {ReleaseRequest(c)}
         /\ \A r \in Returns \cup Corrections : Adjusts(r) => Recorded' = Recorded \cup {r}
<1> DEFINE claimRequests(S) == {ReserveRequest(c, CartOf(c)) : c \in S}
           commitRequests(S) == {CommitRequest(c) : c \in S}
           releaseRequests(S) == {ReleaseRequest(c) : c \in S}
           claimed == {d \in Checkouts : claim[d] # NoCart}
           committed == {d \in Checkouts : commitKey[d] # NoOrder}
           released == {d \in Checkouts : releaseKey[d]}
<1>1. Recorded = claimRequests(claimed) \cup commitRequests(committed)
                   \cup releaseRequests(released) \cup adjustKeys
  BY DEF Recorded
<1>2. Recorded' = claimRequests(claimed') \cup commitRequests(committed')
                    \cup releaseRequests(released') \cup adjustKeys'
  BY DEF Recorded, CartOf, ReserveRequest, CommitRequest, ReleaseRequest
<1>3. ASSUME NEW c \in Checkouts, Places(c)
      PROVE  /\ claimed' = claimed \cup {c}
             /\ committed' = committed /\ released' = released /\ adjustKeys' = adjustKeys
  BY <1>3, CartsAreCarts, LedgerAssumption DEF Places, serverKeys, TypeOK
<1>4. ASSUME NEW c \in Checkouts, Sells(c)
      PROVE  /\ committed' = committed \cup {c}
             /\ claimed' = claimed /\ released' = released /\ adjustKeys' = adjustKeys
  BY <1>4, CartsAreCarts, LedgerAssumption DEF Sells, SellRows, keys, KeyTypes
<1>5. ASSUME NEW c \in Checkouts, GivesBack(c)
      PROVE  /\ released' = released \cup {c}
             /\ claimed' = claimed /\ committed' = committed /\ adjustKeys' = adjustKeys
  BY <1>5 DEF GivesBack, EndRows, keys, KeyTypes
<1>6. ASSUME NEW r \in Returns \cup Corrections, Adjusts(r)
      PROVE  /\ adjustKeys' = adjustKeys \cup {r}
             /\ claimed' = claimed /\ committed' = committed /\ released' = released
  BY <1>6 DEF Adjusts, ServerAdjustsStock, keys
<1>7. \A S, c : /\ claimRequests(S \cup {c}) = claimRequests(S) \cup {ReserveRequest(c, CartOf(c))}
                /\ commitRequests(S \cup {c}) = commitRequests(S) \cup {CommitRequest(c)}
                /\ releaseRequests(S \cup {c}) = releaseRequests(S) \cup {ReleaseRequest(c)}
  OBVIOUS
<1> HIDE DEF claimRequests, commitRequests, releaseRequests, claimed, committed, released
<1>8. ASSUME NEW c \in Checkouts
      PROVE  /\ Places(c) => Recorded' = Recorded \cup {ReserveRequest(c, CartOf(c))}
             /\ Sells(c) => Recorded' = Recorded \cup {CommitRequest(c)}
             /\ GivesBack(c) => Recorded' = Recorded \cup {ReleaseRequest(c)}
  <2>1. /\ claimRequests(claimed \cup {c}) =
             claimRequests(claimed) \cup {ReserveRequest(c, CartOf(c))}
        /\ commitRequests(committed \cup {c}) = commitRequests(committed) \cup {CommitRequest(c)}
        /\ releaseRequests(released \cup {c}) = releaseRequests(released) \cup {ReleaseRequest(c)}
    BY <1>7
  <2>2. ASSUME Places(c) PROVE Recorded' = Recorded \cup {ReserveRequest(c, CartOf(c))}
    BY <1>1, <1>2, <1>3, <2>1, <2>2
  <2>3. ASSUME Sells(c) PROVE Recorded' = Recorded \cup {CommitRequest(c)}
    BY <1>1, <1>2, <1>4, <2>1, <2>3
  <2>4. ASSUME GivesBack(c) PROVE Recorded' = Recorded \cup {ReleaseRequest(c)}
    BY <1>1, <1>2, <1>5, <2>1, <2>4
  <2>5. QED
    BY <2>2, <2>3, <2>4
<1>9. ASSUME NEW r \in Returns \cup Corrections, Adjusts(r)
      PROVE  Recorded' = Recorded \cup {r}
  BY <1>1, <1>2, <1>6, <1>9
<1>10. QED
  BY <1>8, <1>9

\* Recorded is what it was and, if the request was executed, that request; one
\* answered well is in it.
LEMMA ServedRecords ==
  ASSUME TypeOK, KeyTypes, NEW r \in Requests, NEW answer, Serve(r, answer)
  PROVE  /\ Recorded \subseteq Recorded' /\ Recorded' \subseteq Recorded \cup {r}
         /\ answer = "ok" => r \in Recorded'
<1>1. CASE UNCHANGED server /\ (answer = "ok" => Replays(r))
  <2>1. Recorded' = Recorded
    BY <1>1, KeysRest DEF server, vars, keys
  <2>2. QED
    BY <1>1, <2>1, ReplayIsRecorded DEF Replays
<1>2. CASE Recorded' = Recorded \cup {r}
  BY <1>2
<1>3. QED
  BY <1>1, <1>2, ServedHow, MovesRecord

\* A key once taken stays, and a new one is that of a request somebody asked.
LEMMA StepRecords ==
  ASSUME TypesInv, WasAsked, [RemoteNext]_remoteVars
  PROVE  /\ Recorded \subseteq Recorded'
         /\ \A q \in Requests : q \in Recorded' => q \in Recorded \/ asked[q] > 0
<1>1. TypeOK /\ KeyTypes /\ CallType
  BY DEF TypesInv, LedgerInv, ClientTypes, CallerTypes
<1>2. ASSUME NEW r \in Requests, NEW answer, Serve(r, answer),
             late[r] > 0 \/ \E t \in Threads : InCall(call, t, r)
      PROVE  /\ Recorded \subseteq Recorded'
             /\ \A q \in Requests : q \in Recorded' => q \in Recorded \/ asked[q] > 0
  <2>1. asked[r] > 0
    BY <1>2 DEF WasAsked
  <2>2. Recorded \subseteq Recorded' /\ Recorded' \subseteq Recorded \cup {r}
    BY <1>1, <1>2, ServedRecords
  <2>3. QED
    BY <2>1, <2>2
<1>3. ASSUME ExpireReservations \/ (\E c \in Checkouts : Expires(c)) \/ UNCHANGED server
      PROVE  Recorded' = Recorded
  BY <1>3, KeysRest DEF ExpireReservations, EndRows, Expires, PassExpiry, server, vars, keys
<1>4. QED
  BY <1>1, <1>2, <1>3, StepServes

\* A release that is recorded stays so.
LEMMA ReleaseKeyStays ==
  ASSUME KeyTypes, ServerMoves \/ UNCHANGED server, NEW c \in Checkouts, releaseKey[c]
  PROVE  releaseKey'[c]
<1>1. ASSUME NEW d \in Checkouts, GivesBack(d) PROVE releaseKey'[c]
  BY <1>1 DEF GivesBack, KeyTypes
<1>2. ASSUME releaseKey' = releaseKey PROVE releaseKey'[c]
  BY <1>2
<1>3. QED
  BY <1>1, <1>2 DEF ServerMoves, Places, Sells, Expires, Adjusts, ServerAdjustsStock,
                    ExpireReservations, serverKeys, server

\* Why a caller asks.
LEMMA AsksWhy ==
  /\ \A c \in Checkouts :
       /\ Asks(ReserveRequest(c, CartOf(c))) => asked[ReserveRequest(c, CartOf(c))] = 0
       /\ Asks(CommitRequest(c)) => Placed(c)
       /\ Asks(ReleaseRequest(c)) => told[ReserveRequest(c, CartOf(c))] \in {"ok", "error"}
  /\ \A o \in Orders, v \in Variants : Asks(ReturnRequest(o, v)) =>
       \E c \in Checkouts :
         OrderOf[c] = o /\ Placed(c) /\ told[ReleaseRequest(c)] = "ok"
<1>1. /\ \A r \in Reserves : r.op = "reserve"
      /\ \A r \in Commits : r.op = "commit"
      /\ \A r \in Releases : r.op = "release"
      /\ \A r \in Returns : r.op = "adjust" /\ r.o # NoOrder
      /\ \A r \in Corrections : r.op = "adjust" /\ r.o = NoOrder
  BY RequestFields, LedgerAssumption DEF Reserves, Commits, Releases, Returns, Corrections
<1>2. ASSUME NEW c \in Checkouts
      PROVE  /\ Asks(ReserveRequest(c, CartOf(c))) => asked[ReserveRequest(c, CartOf(c))] = 0
             /\ Asks(CommitRequest(c)) => Placed(c)
             /\ Asks(ReleaseRequest(c)) =>
                  told[ReserveRequest(c, CartOf(c))] \in {"ok", "error"}
  <2>1. Asks(ReserveRequest(c, CartOf(c))) => asked[ReserveRequest(c, CartOf(c))] = 0
    BY <1>1, RequestFields DEF Asks
  <2>2. Asks(CommitRequest(c)) => Placed(c)
    BY <1>1, RequestFields DEF Asks
  <2>3. Asks(ReleaseRequest(c)) => Unknown(ReserveRequest(c, CartOf(c))) \/ Placed(c)
    BY <1>1, RequestFields DEF Asks
  <2>4. QED
    BY <2>1, <2>2, <2>3 DEF Unknown, Placed
<1>3. ASSUME NEW o \in Orders, NEW v \in Variants, Asks(ReturnRequest(o, v))
      PROVE  \E c \in Checkouts :
               OrderOf[c] = o /\ Placed(c) /\ told[ReleaseRequest(c)] = "ok"
  <2>1. (\E c \in Checkouts : OrderOf[c] = o /\ Placed(c)) /\ OrderReleased(o)
    <3> DEFINE r == ReturnRequest(o, v)
    <3>1. r.op = "adjust" /\ r.o = o /\ o # NoOrder
      BY RequestFields, LedgerAssumption
    <3> HIDE DEF r
    <3>2. Asks(r)
      BY <1>3 DEF r
    <3>3. QED
      BY <1>1, <3>1, <3>2 DEF Asks
  <2>2. QED
    BY <2>1 DEF OrderReleased
<1>4. QED
  BY <1>2, <1>3

\* What the caller of a reserve was told stays; before, it had not been told.
LEMMA ToldStays ==
  ASSUME ReservedOnce, ClientMoves, NEW c \in Checkouts
  PROVE  LET r == ReserveRequest(c, CartOf(c))
         IN  told[r] # "never" => told'[r] = told[r]
<1> DEFINE r == ReserveRequest(c, CartOf(c))
<1>1. r \in Requests /\ \A t \in Threads : InCall(call, t, r) => told[r] = "never"
  BY RequestsAreRequests DEF ReservedOnce
<1> HIDE DEF r
<1>2. told'[r] # told[r] => \E t \in Threads : InCall(call, t, r)
  BY <1>1 DEF ClientMoves, MovesOf
<1>3. told[r] # "never" => told'[r] = told[r]
  BY <1>1, <1>2
<1>4. QED
  BY <1>3 DEF r

\* A good answer is backed by a key, before it arrives and after.
LEMMA AnsweredInductive ==
  ASSUME TypesInv, Answered, WasAsked, [RemoteNext]_remoteVars
  PROVE  Answered'
<1>1. ClientMoves /\ TypeOK /\ KeyTypes
  BY CallersMove DEF TypesInv, LedgerInv, ClientTypes, CallerTypes
<1>2. Recorded \subseteq Recorded'
  BY StepRecords
<1>3. ASSUME NEW r \in Requests, NEW t \in Threads, Got(call', t, r) PROVE r \in Recorded'
  <2>1. CASE Got(call, t, r)
    BY <1>2, <2>1 DEF Answered
  <2>2. CASE Serve(r, "ok")
    BY <1>1, <2>2, ServedRecords
  <2>3. QED
    BY <1>1, <1>3, <2>1, <2>2 DEF ClientMoves, MovesOf
<1>4. ASSUME NEW r \in Requests, told'[r] = "ok" PROVE r \in Recorded'
  <2>1. told[r] = "ok" \/ \E t \in Threads : Got(call, t, r)
    BY <1>1, <1>4 DEF ClientMoves, MovesOf
  <2>2. QED
    BY <1>2, <2>1 DEF Answered
<1>5. QED
  BY <1>3, <1>4 DEF Answered, Got, InCall

\* Everything about a request comes after it was asked.
LEMMA WasAskedInductive ==
  ASSUME TypesInv, WasAsked, [RemoteNext]_remoteVars
  PROVE  WasAsked'
<1>1. ClientMoves
  BY CallersMove DEF TypesInv, ClientTypes, CallerTypes
<1>2. ASSUME NEW r \in Requests,
             \/ told'[r] # "never" \/ late'[r] > 0
             \/ (\E t \in Threads : InCall(call', t, r)) \/ r \in Recorded'
      PROVE  asked'[r] > 0
  <2>1. MovesOf(r)
    BY <1>1 DEF ClientMoves
  <2>2. \/ asked'[r] > 0 \/ told[r] # "never" \/ late[r] > 0
        \/ (\E t \in Threads : InCall(call, t, r)) \/ r \in Recorded \/ asked[r] > 0
    BY <1>2, <2>1, StepRecords DEF MovesOf
  <2>3. asked'[r] > 0 \/ asked[r] > 0
    BY <2>2 DEF WasAsked
  <2>4. QED
    BY <2>1, <2>3 DEF MovesOf
<1>3. QED
  BY <1>2 DEF WasAsked, InCall

\* One caller of a request at a time, and a reserve never again.
LEMMA OneCallerInductive ==
  ASSUME TypesInv, WasAsked, OneCaller, ReservedOnce, [RemoteNext]_remoteVars
  PROVE  OneCaller' /\ ReservedOnce'
<1>1. ClientMoves
  BY CallersMove DEF TypesInv, ClientTypes, CallerTypes
<1>2. ASSUME NEW r \in Requests, NEW t \in Threads, NEW u \in Threads,
             InCall(call', t, r), InCall(call', u, r)
      PROVE  t = u
  <2>1. /\ InCall(call, t, r) \/ Starts(t, r)
        /\ InCall(call, u, r) \/ Starts(u, r)
    BY <1>1, <1>2 DEF ClientMoves, MovesOf
  <2>2. InCall(call, t, r) /\ InCall(call, u, r) => t = u
    BY DEF OneCaller
  <2>3. QED
    BY <1>2, <2>1, <2>2 DEF Starts
<1>3. ASSUME NEW c \in Checkouts, NEW t \in Threads,
             InCall(call', t, ReserveRequest(c, CartOf(c)))
      PROVE  told'[ReserveRequest(c, CartOf(c))] = "never"
  <2> DEFINE r == ReserveRequest(c, CartOf(c))
  <2>1. r \in Requests /\ InCall(call', t, r)
    BY <1>3, RequestsAreRequests
  <2>2. Asks(r) => asked[r] = 0
    BY AsksWhy
  <2>3. InCall(call, t, r) => told[r] = "never"
    BY DEF ReservedOnce
  <2> HIDE DEF r
  <2>4. MovesOf(r)
    BY <1>1, <2>1 DEF ClientMoves
  <2>5. CASE Starts(t, r)
    <3>1. asked[r] = 0 /\ told' = told
      BY <2>2, <2>5 DEF Starts
    <3>2. told[r] = "never"
      BY <2>1, <3>1 DEF WasAsked
    <3>3. QED
      BY <3>1, <3>2 DEF r
  <2>6. CASE InCall(call, t, r) /\ ~Starts(t, r)
    <3>1. ASSUME told'[r] # told[r] PROVE FALSE
      <4>1. PICK u \in Threads : InCall(call, u, r) /\ ~InCall(call', u, r)
        BY <2>4, <3>1 DEF MovesOf
      <4>2. u = t
        BY <2>1, <2>6, <4>1 DEF OneCaller
      <4>3. QED
        BY <2>1, <4>1, <4>2
    <3>2. told'[r] = "never"
      BY <2>3, <2>6, <3>1
    <3>3. QED
      BY <3>2 DEF r
  <2>7. QED
    BY <2>1, <2>4, <2>5, <2>6 DEF MovesOf
<1>4. OneCaller'
  BY <1>2 DEF OneCaller, InCall
<1>5. ReservedOnce'
  BY <1>3 DEF ReservedOnce, InCall, CartOf, ReserveRequest
<1>6. QED
  BY <1>4, <1>5

\* The reason a request was asked for stays.
LEMMA ReasonsInductive ==
  ASSUME TypesInv, CallsInv, [RemoteNext]_remoteVars
  PROVE  AskedForReason'
<1>1. ClientMoves /\ TypeOK /\ KeyTypes /\ CallType
  BY CallersMove DEF TypesInv, LedgerInv, ClientTypes, CallerTypes
<1>2. Answered /\ ReservedOnce /\ AskedForReason
  BY DEF CallsInv
<1>3. ASSUME NEW c \in Checkouts
      PROVE  LET r == ReserveRequest(c, CartOf(c))
             IN  told[r] # "never" => told'[r] = told[r]
  BY <1>1, <1>2, ToldStays
<1>4. ASSUME NEW c \in Checkouts, releaseKey[c] PROVE releaseKey'[c]
  BY <1>1, <1>4, RemoteStepMoves, ReleaseKeyStays DEF CallType
<1>5. ASSUME NEW c \in Checkouts, asked'[CommitRequest(c)] > 0
      PROVE  told'[ReserveRequest(c, CartOf(c))] = "ok"
  <2>1. CommitRequest(c) \in Requests
    BY RequestsAreRequests
  <2>2. asked[CommitRequest(c)] > 0 \/ Asks(CommitRequest(c))
    BY <1>1, <1>5, <2>1 DEF ClientMoves, MovesOf, Starts
  <2>3. Placed(c)
    BY <1>2, <2>2, AsksWhy DEF AskedForReason
  <2>4. QED
    BY <1>3, <2>3 DEF Placed
<1>6. ASSUME NEW c \in Checkouts, asked'[ReleaseRequest(c)] > 0
      PROVE  told'[ReserveRequest(c, CartOf(c))] \in {"ok", "error"}
  <2>1. ReleaseRequest(c) \in Requests
    BY RequestsAreRequests
  <2>2. asked[ReleaseRequest(c)] > 0 \/ Asks(ReleaseRequest(c))
    BY <1>1, <1>6, <2>1 DEF ClientMoves, MovesOf, Starts
  <2>3. told[ReserveRequest(c, CartOf(c))] \in {"ok", "error"}
    BY <1>2, <2>2, AsksWhy DEF AskedForReason
  <2>4. QED
    BY <1>3, <2>3
<1>7. ASSUME NEW o \in Orders, NEW v \in Variants, asked'[ReturnRequest(o, v)] > 0
      PROVE  \E c \in Checkouts :
               OrderOf[c] = o /\ told'[ReserveRequest(c, CartOf(c))] = "ok" /\ releaseKey'[c]
  <2>1. ReturnRequest(o, v) \in Requests
    BY RequestsAreRequests
  <2>2. asked[ReturnRequest(o, v)] > 0 \/ Asks(ReturnRequest(o, v))
    BY <1>1, <1>7, <2>1 DEF ClientMoves, MovesOf, Starts
  <2>3. PICK c \in Checkouts : OrderOf[c] = o /\ Placed(c) /\ releaseKey[c]
    <3>1. CASE asked[ReturnRequest(o, v)] > 0
      BY <1>2, <3>1 DEF AskedForReason
    <3>2. CASE Asks(ReturnRequest(o, v))
      <4>1. PICK c \in Checkouts : OrderOf[c] = o /\ Placed(c) /\ told[ReleaseRequest(c)] = "ok"
        BY <3>2, AsksWhy
      <4>2. ReleaseRequest(c) \in Recorded
        BY <1>2, <4>1, RequestsAreRequests DEF Answered
      <4>3. releaseKey[c]
        BY <1>1, <4>2, KeyOf DEF KeyTypes
      <4>4. QED
        BY <4>1, <4>3
    <3>3. QED
      BY <2>2, <3>1, <3>2
  <2>4. QED
    BY <1>3, <1>4, <2>3 DEF Placed
<1>8. QED
  BY <1>5, <1>6, <1>7 DEF AskedForReason, Placed, CartOf, ReserveRequest, CommitRequest,
                          ReleaseRequest, ReturnRequest

\* All of it.
LEMMA CallsInvInductive ==
  ASSUME TypesInv, CallsInv, [RemoteNext]_remoteVars
  PROVE  CallsInv'
<1>1. Answered /\ WasAsked /\ OneCaller /\ ReservedOnce
  BY DEF CallsInv
<1>2. QED
  BY <1>1, AnsweredInductive, WasAskedInductive, OneCallerInductive, ReasonsInductive DEF CallsInv

-----------------------------------------------------------------------------
(* Rows and sales of each checkout *)

\* A reserve writes the cart's units in the rows of its checkout.
LEMMA PlacesDoes ==
  ASSUME TypeOK, NEW c \in Checkouts, Places(c)
  PROVE  /\ \A v \in Variants : hold'[c][v].qty = CartOf(c)[v]
         /\ \A d \in Checkouts : d # c => hold'[d] = hold[d]
         /\ UNCHANGED <<sold, returned, serverKeys>>
<1>1. /\ hold' = [hold EXCEPT ![c] =
           [v \in Variants |-> IF CartOf(c)[v] > 0 THEN NewRow(CartOf(c)[v]) ELSE NoRow]]
      /\ UNCHANGED <<sold, returned, serverKeys>>
  BY DEF Places, PlaceRows, movements
<1>2. \A v \in Variants : CartOf(c)[v] \in Nat
  BY CartsAreCarts
<1>3. \A n : NewRow(n).qty = n /\ NoRow.qty = 0
  BY DEF NewRow, NoRow
<1>4. /\ \A v \in Variants :
           hold'[c][v] = IF CartOf(c)[v] > 0 THEN NewRow(CartOf(c)[v]) ELSE NoRow
      /\ \A d \in Checkouts : d # c => hold'[d] = hold[d]
  BY <1>1 DEF TypeOK
<1>5. \A v \in Variants : hold'[c][v].qty = CartOf(c)[v]
  BY <1>2, <1>3, <1>4
<1>6. QED
  BY <1>1, <1>4, <1>5

\* A commit leaves no row of its checkout active, and its order has their units.
LEMMA SellsDoes ==
  ASSUME TypeOK, NEW c \in Checkouts, Sells(c)
  PROVE  /\ \A v \in Variants : /\ hold'[c][v].qty = hold[c][v].qty
                                /\ hold'[c][v].status # "active"
         /\ \A d \in Checkouts : d # c => hold'[d] = hold[d]
         /\ \A v \in Variants :
              sold'[OrderOf[c]][v] =
                sold[OrderOf[c]][v] + (IF IsActive(c, v) THEN hold[c][v].qty ELSE 0)
         /\ \A o \in Orders : o # OrderOf[c] => sold'[o] = sold[o]
         /\ commitKey' = [commitKey EXCEPT ![c] = OrderOf[c]]
         /\ UNCHANGED <<claim, returned, releaseKey, adjustKeys>>
<1>1. OrderOf[c] \in Orders
  BY CartsAreCarts
<1>2. /\ hold' = [hold EXCEPT ![c] = [v \in Variants |->
           IF v \in ActiveLines(c) THEN EndedRow(hold[c][v], "committed", OrderOf[c])
           ELSE hold[c][v]]]
      /\ sold' = [sold EXCEPT ![OrderOf[c]] = [v \in Variants |-> sold[OrderOf[c]][v]
           + (IF v \in ActiveLines(c) THEN hold[c][v].qty ELSE 0)]]
      /\ commitKey' = [commitKey EXCEPT ![c] = OrderOf[c]]
      /\ UNCHANGED <<claim, returned, releaseKey, adjustKeys>>
  BY DEF Sells, SellRows, keys
<1>3. \A v \in Variants : v \in ActiveLines(c) <=> IsActive(c, v)
  BY DEF ActiveLines
<1>4. /\ \A v \in Variants : hold'[c][v] =
           IF IsActive(c, v) THEN EndedRow(hold[c][v], "committed", OrderOf[c]) ELSE hold[c][v]
      /\ \A d \in Checkouts : d # c => hold'[d] = hold[d]
  BY <1>2, <1>3 DEF TypeOK
<1>5. \A v \in Variants : /\ hold'[c][v].qty = hold[c][v].qty
                          /\ hold'[c][v].status # "active"
  BY <1>4, RowFields DEF IsActive
<1>6. /\ \A v \in Variants : sold'[OrderOf[c]][v] =
           sold[OrderOf[c]][v] + (IF IsActive(c, v) THEN hold[c][v].qty ELSE 0)
      /\ \A o \in Orders : o # OrderOf[c] => sold'[o] = sold[o]
  BY <1>1, <1>2, <1>3 DEF TypeOK
<1>7. QED
  BY <1>2, <1>4, <1>5, <1>6

\* Rows that end keep their units, and no other row changes.
LEMMA RowsEnd ==
  ASSUME TypeOK, NEW rows \in SUBSET Rows, NEW status \in {"released", "expired"},
         EndRows(rows, status)
  PROVE  /\ \A c \in Checkouts, v \in Variants :
              /\ hold'[c][v].qty = hold[c][v].qty
              /\ hold'[c][v].status = "active" => IsActive(c, v) /\ <<c, v>> \notin rows
         /\ UNCHANGED <<claim, sold, returned>>
<1>1. \A c \in Checkouts, v \in Variants :
        /\ <<c, v>> \in rows => hold'[c][v] = EndedRow(hold[c][v], status, NoOrder)
        /\ <<c, v>> \notin rows => hold'[c][v] = hold[c][v]
  BY EndRowsDoes
<1>2. \A row : /\ EndedRow(row, status, NoOrder).qty = row.qty
              /\ EndedRow(row, status, NoOrder).status # "active"
  BY RowFields
<1>3. ASSUME NEW c \in Checkouts, NEW v \in Variants
      PROVE  /\ hold'[c][v].qty = hold[c][v].qty
             /\ hold'[c][v].status = "active" => IsActive(c, v) /\ <<c, v>> \notin rows
  <2>1. CASE <<c, v>> \in rows
    BY <1>1, <1>2, <2>1
  <2>2. CASE <<c, v>> \notin rows
    BY <1>1, <2>2 DEF IsActive
  <2>3. QED
    BY <2>1, <2>2
<1>4. QED
  BY <1>3, EndRowsDoes

\* The steps of the service once more, with why they were asked for: a commit of a
\* checkout that is reserved, a release before its caller is told or after.
LEMMA StepsOfCheckouts ==
  ASSUME TypesInv, CallsInv, [RemoteNext]_remoteVars
  PROVE  \/ /\ told' = told
            /\ \/ \E c \in Checkouts : Places(c) \/ GivesBack(c)
               \/ \E c \in Checkouts : Sells(c) /\ claim[c] # NoCart
               \/ \E o \in Orders, v \in Variants : Adjusts(ReturnRequest(o, v))
               \/ \E r \in Corrections : Adjusts(r)
               \/ ExpireReservations \/ \E c \in Checkouts : Expires(c)
         \/ UNCHANGED server
<1>1. CallType /\ KeyTypes
  BY DEF TypesInv, ClientTypes, CallerTypes
<1>2. ASSUME NEW r \in Requests, NEW answer, Serve(r, answer),
             late[r] > 0 \/ \E t \in Threads : InCall(call, t, r)
      PROVE  \/ \E c \in Checkouts : Places(c) \/ GivesBack(c)
             \/ \E c \in Checkouts : Sells(c) /\ claim[c] # NoCart
             \/ \E o \in Orders, v \in Variants : Adjusts(ReturnRequest(o, v))
             \/ \E q \in Corrections : Adjusts(q)
             \/ UNCHANGED server
  <2>1. ASSUME NEW c \in Checkouts, r = CommitRequest(c) PROVE claim[c] # NoCart
    <3>1. asked[CommitRequest(c)] > 0
      BY <1>2, <2>1 DEF CallsInv, WasAsked
    <3>2. Placed(c)
      BY <3>1 DEF CallsInv, AskedForReason
    <3>3. ReserveRequest(c, CartOf(c)) \in Recorded
      BY <3>2, RequestsAreRequests DEF CallsInv, Answered, Placed
    <3>4. QED
      BY <1>1, <3>3, KeyOf DEF KeyTypes
  <2>2. ASSUME r \in Returns, Adjusts(r)
        PROVE  \E o \in Orders, v \in Variants : Adjusts(ReturnRequest(o, v))
    BY <2>2 DEF Returns
  <2>3. QED
    BY <1>2, <2>1, <2>2, ServedHow
<1>3. QED
  BY <1>1, <1>2, StepServes

\* A checkout whose caller knows of its hold, or that is committed, was reserved.
LEMMA ClaimedBefore ==
  ASSUME TypesInv, CallsInv, NEW c \in Checkouts
  PROVE  /\ Placed(c) \/ commitKey[c] # NoOrder => claim[c] # NoCart
         /\ releaseKey[c] => told[ReserveRequest(c, CartOf(c))] \in {"ok", "error"}
<1>1. KeyTypes /\ Answered /\ WasAsked /\ AskedForReason
  BY DEF TypesInv, CallsInv
<1>2. /\ ReserveRequest(c, CartOf(c)) \in Requests
      /\ CommitRequest(c) \in Requests /\ ReleaseRequest(c) \in Requests
  BY RequestsAreRequests
<1>3. /\ ReserveRequest(c, CartOf(c)) \in Recorded <=> claim[c] # NoCart
      /\ CommitRequest(c) \in Recorded <=> commitKey[c] # NoOrder
      /\ ReleaseRequest(c) \in Recorded <=> releaseKey[c]
  BY <1>1, KeyOf DEF KeyTypes
<1>4. Placed(c) => claim[c] # NoCart
  BY <1>1, <1>2, <1>3 DEF Answered, Placed
<1>5. commitKey[c] # NoOrder => Placed(c)
  BY <1>1, <1>2, <1>3 DEF WasAsked, AskedForReason
<1>6. releaseKey[c] => told[ReserveRequest(c, CartOf(c))] \in {"ok", "error"}
  BY <1>1, <1>2, <1>3 DEF WasAsked, AskedForReason
<1>7. QED
  BY <1>4, <1>5, <1>6

\* What RowsOfCheckouts says of one checkout, after a step.
RowsOfNext(c) ==
  /\ claim'[c] # NoCart => \A v \in Variants : hold'[c][v].qty = CartOf(c)[v]
  /\ commitKey'[c] # NoOrder \/ (releaseKey'[c] /\ told'[ReserveRequest(c, CartOf(c))] = "ok") =>
       \A v \in Variants : hold'[c][v].status # "active"

\* A checkout whose keys and whose caller's knowledge stay, whose rows at most end.
LEMMA QuietCheckout ==
  ASSUME RowsOfCheckouts, NEW c \in Checkouts,
         claim'[c] = claim[c], commitKey'[c] = commitKey[c],
         releaseKey'[c] => releaseKey[c],
         LET r == ReserveRequest(c, CartOf(c)) IN told'[r] = told[r],
         \A v \in Variants : /\ hold'[c][v].qty = hold[c][v].qty
                             /\ hold'[c][v].status = "active" => IsActive(c, v)
  PROVE  RowsOfNext(c)
BY DEF RowsOfCheckouts, RowsOfNext, ActiveLines, Placed

\* The rows of every checkout stay what its keys say.
LEMMA RowsInductive ==
  ASSUME TypesInv, CallsInv, RowsOfCheckouts, [RemoteNext]_remoteVars
  PROVE  RowsOfCheckouts'
<1>1. TypeOK /\ KeyTypes /\ ClientMoves
  BY CallersMove DEF TypesInv, LedgerInv, ClientTypes, CallerTypes
<1>2. ASSUME NEW c \in Checkouts, NEW d \in Checkouts, Places(d), told' = told
      PROVE  RowsOfNext(c)
  <2>1. CASE c = d
    <3>1. claim[c] = NoCart /\ commitKey' = commitKey /\ releaseKey' = releaseKey
      BY <1>2, <2>1 DEF Places, serverKeys
    <3>2. commitKey'[c] = NoOrder /\ told'[ReserveRequest(c, CartOf(c))] # "ok"
      BY <1>2, <3>1, ClaimedBefore DEF Placed
    <3>3. QED
      BY <1>1, <1>2, <2>1, <3>2, PlacesDoes DEF RowsOfNext
  <2>2. CASE c # d
    <3>1. hold'[c] = hold[c] /\ claim'[c] = claim[c] /\ UNCHANGED <<commitKey, releaseKey>>
      BY <1>1, <1>2, <2>2, PlacesDoes DEF Places, serverKeys, TypeOK
    <3>2. QED
      BY <1>2, <3>1, QuietCheckout DEF IsActive
  <2>3. QED
    BY <2>1, <2>2
<1>3. ASSUME NEW c \in Checkouts, NEW d \in Checkouts, Sells(d), told' = told
      PROVE  RowsOfNext(c)
  <2>1. CASE c = d
    BY <1>1, <1>3, <2>1, SellsDoes DEF RowsOfNext, RowsOfCheckouts
  <2>2. CASE c # d
    <3>1. /\ hold'[c] = hold[c] /\ commitKey'[c] = commitKey[c]
          /\ UNCHANGED <<claim, releaseKey>>
      BY <1>1, <1>3, <2>2, SellsDoes DEF KeyTypes
    <3>2. QED
      BY <1>3, <3>1, QuietCheckout DEF IsActive
  <2>3. QED
    BY <2>1, <2>2
<1>4. ASSUME NEW c \in Checkouts, NEW d \in Checkouts, GivesBack(d), told' = told
      PROVE  RowsOfNext(c)
  <2>1. /\ \A v \in Variants :
             /\ hold'[c][v].qty = hold[c][v].qty
             /\ hold'[c][v].status = "active" => IsActive(c, v) /\ c # d
        /\ claim' = claim /\ commitKey' = commitKey
        /\ releaseKey' = [releaseKey EXCEPT ![d] = TRUE]
    <3> DEFINE rows == {d} \X ActiveLines(d)
    <3>1. rows \in SUBSET Rows /\ EndRows(rows, "released")
      BY <1>4, EndedWereActive DEF GivesBack
    <3>2. \A v \in Variants : <<c, v>> \in rows <=> c = d /\ IsActive(c, v)
      BY EndedWereActive
    <3> HIDE DEF rows
    <3>3. /\ \A v \in Variants :
               /\ hold'[c][v].qty = hold[c][v].qty
               /\ hold'[c][v].status = "active" => IsActive(c, v) /\ <<c, v>> \notin rows
          /\ claim' = claim
      BY <1>1, <3>1, RowsEnd
    <3>4. QED
      BY <1>4, <3>2, <3>3 DEF GivesBack
  <2>2. CASE c = d
    BY <2>1, <2>2 DEF RowsOfNext, RowsOfCheckouts
  <2>3. CASE c # d
    <3>1. releaseKey'[c] = releaseKey[c]
      BY <1>1, <2>1, <2>3 DEF KeyTypes
    <3>2. QED
      BY <1>4, <2>1, <3>1, QuietCheckout
  <2>4. QED
    BY <2>2, <2>3
<1>5. ASSUME NEW c \in Checkouts, ExpireReservations, told' = told PROVE RowsOfNext(c)
  <2>1. /\ \A v \in Variants : /\ hold'[c][v].qty = hold[c][v].qty
                               /\ hold'[c][v].status = "active" => IsActive(c, v)
        /\ claim' = claim /\ commitKey' = commitKey /\ releaseKey' = releaseKey
    <3>1. SweepCandidates \in SUBSET Rows /\ EndRows(SweepCandidates, "expired")
      BY <1>5, EndedWereActive DEF ExpireReservations
    <3>2. /\ \A v \in Variants : /\ hold'[c][v].qty = hold[c][v].qty
                                 /\ hold'[c][v].status = "active" => IsActive(c, v)
          /\ claim' = claim
      BY <1>1, <3>1, RowsEnd
    <3>3. QED
      BY <1>5, <3>2 DEF ExpireReservations, serverKeys
  <2>2. QED
    BY <1>5, <2>1, QuietCheckout
<1>6. ASSUME NEW c \in Checkouts, UNCHANGED <<hold, claim, commitKey, releaseKey>>, told' = told
      PROVE  RowsOfNext(c)
  BY <1>6, QuietCheckout DEF IsActive
<1>7. ASSUME NEW r \in Returns \cup Corrections, Adjusts(r)
      PROVE  UNCHANGED <<hold, claim, commitKey, releaseKey>>
  BY <1>7 DEF Adjusts, ServerAdjustsStock, keys
<1>8. ASSUME NEW o \in Orders, NEW v \in Variants, Adjusts(ReturnRequest(o, v))
      PROVE  UNCHANGED <<hold, claim, commitKey, releaseKey>>
  BY <1>7, <1>8 DEF Returns
<1>9. ASSUME NEW c \in Checkouts, Expires(c)
      PROVE  UNCHANGED <<hold, claim, commitKey, releaseKey>>
  BY <1>9 DEF Expires, PassExpiry, keys, serverKeys
<1>10. ASSUME NEW c \in Checkouts, UNCHANGED server PROVE RowsOfNext(c)
  <2> DEFINE r == ReserveRequest(c, CartOf(c))
  <2>1. UNCHANGED <<hold, claim, commitKey, releaseKey>>
    BY <1>10 DEF server, vars, keys, serverKeys
  <2>2. told[r] # "never" => told'[r] = told[r]
    BY <1>1, ToldStays DEF CallsInv
  <2>3. releaseKey[c] => told[r] \in {"ok", "error"}
    BY ClaimedBefore
  <2>4. releaseKey'[c] /\ told'[r] = "ok" => releaseKey[c] /\ Placed(c)
    BY <2>1, <2>2, <2>3 DEF Placed
  <2>5. QED
    BY <2>1, <2>4 DEF RowsOfNext, RowsOfCheckouts, ActiveLines, IsActive
<1>11. \A c \in Checkouts : RowsOfNext(c)
  BY <1>2, <1>3, <1>4, <1>5, <1>6, <1>7, <1>8, <1>9, <1>10, StepsOfCheckouts
<1>12. QED
  BY <1>11 DEF RowsOfCheckouts, RowsOfNext, ActiveLines, IsActive, Placed, CartOf, ReserveRequest

\* Returns of different lines are different requests, and no correction.
LEMMA ReturnsDiffer ==
  /\ \A o, p, v, w : ReturnRequest(o, v) = ReturnRequest(p, w) <=> o = p /\ v = w
  /\ \A o \in Orders, v \in Variants : ReturnRequest(o, v) \notin Corrections
<1>1. \A o, p, v, w : ReturnRequest(o, v) = ReturnRequest(p, w) => o = p /\ v = w
  BY RequestFields
<1>2. \A r \in Corrections : r.o = NoOrder
  BY RequestFields DEF Corrections
<1>3. \A o \in Orders, v \in Variants : ReturnRequest(o, v).o # NoOrder
  BY RequestFields, LedgerAssumption
<1>4. QED
  BY <1>1, <1>2, <1>3

\* A return that was recorded is of an order all of whose holds are settled.
LEMMA ReturnedIsSettled ==
  ASSUME TypesInv, CallsInv, RowsOfCheckouts, NEW c \in Checkouts, NEW v \in Variants,
         ReturnRequest(OrderOf[c], v) \in adjustKeys
  PROVE  ActiveLines(c) = {}
<1> DEFINE r == ReturnRequest(OrderOf[c], v)
<1>1. OrderOf[c] \in Orders /\ r \in Requests
  BY CartsAreCarts, RequestsAreRequests
<1>2. asked[r] > 0
  BY <1>1 DEF CallsInv, WasAsked, Recorded
<1>3. PICK d \in Checkouts : OrderOf[d] = OrderOf[c] /\ Placed(d) /\ releaseKey[d]
  BY <1>1, <1>2 DEF CallsInv, AskedForReason
<1>4. d = c
  BY <1>3, RemoteAssumption
<1>5. QED
  BY <1>3, <1>4 DEF RowsOfCheckouts

\* What SalesOfOrders says, after a step.
SalesOfNext ==
  /\ \A o \in Orders, v \in Variants :
       /\ sold'[o][v] <= Lines[o][v]
       /\ ReturnRequest(o, v) \in adjustKeys' => returned'[o][v] = sold'[o][v]
  /\ \A c \in Checkouts : commitKey'[c] = NoOrder => \A v \in Variants : sold'[OrderOf[c]][v] = 0

\* An order is sold its lines once, and what comes back of a line is all of it.
LEMMA SalesInductive ==
  ASSUME TypesInv, CallsInv, RowsInv, [RemoteNext]_remoteVars
  PROVE  SalesOfOrders'
<1>1. TypeOK /\ ReturnedWasSold /\ KeyTypes /\ RowsOfCheckouts /\ SalesOfOrders
  BY DEF TypesInv, LedgerInv, RowsInv
<1>2. \A o \in Orders, v \in Variants :
        sold[o][v] \in Nat /\ returned[o][v] \in Nat /\ Lines[o][v] \in Nat
  BY <1>1, RemoteAssumption, CartLine DEF TypeOK
<1>3. ASSUME UNCHANGED <<sold, returned, commitKey>>,
             \A o \in Orders, v \in Variants :
               ReturnRequest(o, v) \in adjustKeys' => ReturnRequest(o, v) \in adjustKeys
      PROVE  SalesOfNext
  BY <1>1, <1>3 DEF SalesOfOrders, SalesOfNext
<1>4. ASSUME NEW c \in Checkouts, Sells(c), claim[c] # NoCart PROVE SalesOfNext
  <2> DEFINE o == OrderOf[c]
  <2>1. o \in Orders /\ o # NoOrder /\ commitKey[c] = NoOrder
    BY <1>4, CartsAreCarts, LedgerAssumption DEF Sells
  <2>2. /\ \A v \in Variants :
             sold'[o][v] = sold[o][v] + (IF IsActive(c, v) THEN hold[c][v].qty ELSE 0)
        /\ \A p \in Orders : p # o => sold'[p] = sold[p]
        /\ commitKey' = [commitKey EXCEPT ![c] = o]
        /\ UNCHANGED <<returned, adjustKeys>>
    BY <1>1, <1>4, SellsDoes
  <2>3. \A v \in Variants : sold[o][v] = 0 /\ hold[c][v].qty = Lines[o][v]
    BY <1>1, <1>4, <2>1 DEF SalesOfOrders, RowsOfCheckouts, CartOf
  <2>4. \A v \in Variants : ReturnRequest(o, v) \in adjustKeys => ~IsActive(c, v)
    BY <1>1, ReturnedIsSettled DEF ActiveLines
  <2>5. \A d \in Checkouts : d # c => OrderOf[d] # o /\ OrderOf[d] \in Orders
    BY RemoteAssumption
  <2> HIDE DEF o
  <2>6. ASSUME NEW p \in Orders, NEW v \in Variants
        PROVE  /\ sold'[p][v] <= Lines[p][v]
               /\ ReturnRequest(p, v) \in adjustKeys' => returned'[p][v] = sold'[p][v]
    <3>1. CASE p = o
      <4>1. sold'[o][v] = IF IsActive(c, v) THEN Lines[o][v] ELSE 0
        BY <1>2, <2>1, <2>2, <2>3
      <4>2. ReturnRequest(o, v) \in adjustKeys => returned[o][v] = 0 /\ sold'[o][v] = 0
        BY <1>1, <2>1, <2>3, <2>4, <4>1 DEF SalesOfOrders
      <4>3. QED
        BY <1>2, <2>1, <2>2, <3>1, <4>1, <4>2
    <3>2. CASE p # o
      BY <1>1, <2>2, <3>2 DEF SalesOfOrders
    <3>3. QED
      BY <3>1, <3>2
  <2>7. ASSUME NEW d \in Checkouts, commitKey'[d] = NoOrder, NEW v \in Variants
        PROVE  sold'[OrderOf[d]][v] = 0
    <3>1. d # c
      BY <1>1, <2>1, <2>2, <2>7 DEF KeyTypes
    <3>2. commitKey[d] = NoOrder /\ sold'[OrderOf[d]] = sold[OrderOf[d]]
      BY <1>1, <2>2, <2>5, <2>7, <3>1 DEF KeyTypes
    <3>3. QED
      BY <1>1, <3>2 DEF SalesOfOrders
  <2>8. QED
    BY <2>6, <2>7 DEF SalesOfNext
<1>5. ASSUME NEW o \in Orders, NEW v \in Variants, Adjusts(ReturnRequest(o, v))
      PROVE  SalesOfNext
  <2>1. PICK back \in Nat :
          /\ back = IF Lines[o][v] < Outstanding(o, v) THEN Lines[o][v] ELSE Outstanding(o, v)
          /\ returned' = [returned EXCEPT ![o][v] = returned[o][v] + back]
    BY <1>1, <1>5, ReturnApplies, ReturnDoes
  <2>2. /\ adjustKeys' = adjustKeys \cup {ReturnRequest(o, v)}
        /\ UNCHANGED <<sold, commitKey>>
    BY <1>5, ReturnDoes
  <2>3. sold[o][v] <= Lines[o][v] /\ returned[o][v] <= sold[o][v]
    BY <1>1 DEF SalesOfOrders, ReturnedWasSold
  <2>4. back = sold[o][v] - returned[o][v]
    BY <1>2, <2>1, <2>3 DEF Outstanding
  <2>5. \A p \in Orders, w \in Variants :
          returned'[p][w] = IF p = o /\ w = v THEN sold[o][v] ELSE returned[p][w]
    <3>1. \A p \in Orders, w \in Variants :
            returned'[p][w] = IF p = o /\ w = v THEN returned[o][v] + back ELSE returned[p][w]
      BY <1>1, <2>1 DEF TypeOK
    <3>2. returned[o][v] + back = sold[o][v]
      BY <1>2, <2>4
    <3>3. QED
      BY <3>1, <3>2
  <2>6. \A p \in Orders, w \in Variants :
          ReturnRequest(p, w) \in adjustKeys' =>
            (p = o /\ w = v) \/ ReturnRequest(p, w) \in adjustKeys
    BY <2>2, ReturnsDiffer
  <2>7. QED
    BY <1>1, <2>2, <2>5, <2>6 DEF SalesOfNext, SalesOfOrders
<1>6. ASSUME NEW r \in Corrections, Adjusts(r) PROVE SalesOfNext
  <2>1. PICK v \in Variants, d \in Deltas, reason \in StaffReasons : r = StaffRequest(v, d, reason)
    BY DEF Corrections
  <2>2. UNCHANGED <<sold, returned, commitKey>> /\ adjustKeys' = adjustKeys \cup {r}
    BY <1>6, <2>1, CorrectionDoes
  <2>3. QED
    BY <1>3, <2>2, ReturnsDiffer
<1>7. ASSUME NEW c \in Checkouts, Places(c) \/ GivesBack(c) \/ Expires(c) PROVE SalesOfNext
  <2>1. UNCHANGED <<sold, returned, commitKey, adjustKeys>>
    BY <1>7 DEF Places, PlaceRows, GivesBack, EndRows, Expires, PassExpiry, movements, serverKeys
  <2>2. QED
    BY <1>3, <2>1
<1>8. ASSUME ExpireReservations \/ UNCHANGED server PROVE SalesOfNext
  <2>1. UNCHANGED <<sold, returned, commitKey, adjustKeys>>
    BY <1>8 DEF ExpireReservations, EndRows, server, vars, movements, serverKeys
  <2>2. QED
    BY <1>3, <2>1
<1>9. SalesOfNext
  BY <1>4, <1>5, <1>6, <1>7, <1>8, StepsOfCheckouts
<1>10. QED
  BY <1>9 DEF SalesOfOrders, SalesOfNext, ReturnRequest

-----------------------------------------------------------------------------
(* What callers may rely on *)

KnowledgeInv == TypesInv /\ CallsInv /\ RowsInv

\* Nothing is known, recorded or sold at first.
LEMMA KnowledgeInitially == RemoteInit => KnowledgeInv
<1> SUFFICES ASSUME RemoteInit PROVE KnowledgeInv
  OBVIOUS
<1>1. TypesInv
  BY TypesInvInitially
<1>2. Recorded = {}
  BY DEF RemoteInit, Init, Recorded
<1>3. \A r \in Requests : told[r] = "never" /\ late[r] = 0 /\ asked[r] = 0
  BY DEF RemoteInit
<1>4. \A t \in Threads, r \in Requests : ~InCall(call, t, r)
  BY DEF RemoteInit, InCall
<1>5. Answered /\ WasAsked /\ OneCaller /\ ReservedOnce
  <2>1. \A t \in Threads, r \in Requests : ~Got(call, t, r)
    BY <1>4 DEF Got
  <2>2. Answered
    BY <1>3, <2>1 DEF Answered
  <2>3. WasAsked
    BY <1>2, <1>3, <1>4 DEF WasAsked
  <2>4. OneCaller /\ ReservedOnce
    BY <1>4, RequestsAreRequests DEF OneCaller, ReservedOnce
  <2>5. QED
    BY <2>2, <2>3, <2>4
<1>6. AskedForReason
  BY <1>3, RequestsAreRequests DEF AskedForReason
<1>7. RowsOfCheckouts
  BY DEF RemoteInit, Init, RowsOfCheckouts
<1>8. SalesOfOrders
  <2>1. /\ \A o \in Orders, v \in Variants : sold[o][v] = 0 /\ Lines[o][v] \in Nat
        /\ adjustKeys = {}
    BY RemoteAssumption, CartLine DEF RemoteInit, Init
  <2>2. QED
    BY <2>1, RemoteAssumption DEF SalesOfOrders
<1>9. QED
  BY <1>1, <1>5, <1>6, <1>7, <1>8 DEF KnowledgeInv, CallsInv, RowsInv

\* In every state.
LEMMA KnowledgeHolds == RemoteSpec => []KnowledgeInv
<1>1. ASSUME KnowledgeInv, [RemoteNext]_remoteVars PROVE KnowledgeInv'
  <2>1. TypesInv /\ CallsInv /\ RowsInv /\ RowsOfCheckouts
    BY <1>1 DEF KnowledgeInv, RowsInv
  <2>2. TypesInv' /\ CallsInv' /\ RowsOfCheckouts' /\ SalesOfOrders'
    BY <1>1, <2>1, TypesInvInductive, CallsInvInductive, RowsInductive, SalesInductive
  <2>3. QED
    BY <2>2 DEF KnowledgeInv, RowsInv
<1>2. QED
  BY <1>1, KnowledgeInitially, PTL DEF RemoteSpec

\* Whoever was told that a checkout is held finds it held, for any number of
\* checkouts, threads, attempts and late copies (ServiceProvider.reserve_lines).
THEOREM ToldIsHeld == RemoteSpec => []ToldHeldIsHeld
<1>1. KnowledgeInv => ToldHeldIsHeld
  <2> SUFFICES ASSUME KnowledgeInv, NEW c \in Checkouts, Placed(c)
               PROVE  \A v \in Variants : hold[c][v].qty = CartOf(c)[v]
    BY DEF ToldHeldIsHeld
  <2>1. claim[c] # NoCart
    BY ClaimedBefore DEF KnowledgeInv
  <2>2. QED
    BY <2>1 DEF KnowledgeInv, RowsInv, RowsOfCheckouts
<1>2. QED
  BY <1>1, KnowledgeHolds, PTL

\* A commit that was answered leaves nothing held for its checkout, and no late
\* copy of the reserve nor a sweep finds work there (ServiceProvider.commit_holds).
THEOREM CommittedIsSettled == RemoteSpec => []ConfirmedHoldIsSettled
<1>1. KnowledgeInv => ConfirmedHoldIsSettled
  <2> SUFFICES ASSUME KnowledgeInv, NEW c \in Checkouts, told[CommitRequest(c)] = "ok"
               PROVE  ActiveLines(c) = {}
    BY DEF ConfirmedHoldIsSettled
  <2>1. CommitRequest(c) \in Recorded
    BY RequestsAreRequests DEF KnowledgeInv, CallsInv, Answered
  <2>2. commitKey[c] # NoOrder
    BY <2>1, KeyOf DEF KnowledgeInv, TypesInv, KeyTypes
  <2>3. QED
    BY <2>2 DEF KnowledgeInv, RowsInv, RowsOfCheckouts
<1>2. QED
  BY <1>1, KnowledgeHolds, PTL

\* A refund whose every line was answered leaves its order nothing, whichever
\* commits and returns ran late or twice (ServiceProvider.restore_order_stock).
THEOREM RefundedIsReturned == RemoteSpec => []RefundedOrderKeepsNothing
<1>1. KnowledgeInv => RefundedOrderKeepsNothing
  <2> SUFFICES ASSUME KnowledgeInv, NEW o \in Orders, Refunded(o) PROVE sold[o] = returned[o]
    BY DEF RefundedOrderKeepsNothing
  <2>1. TypeOK /\ ReturnedWasSold /\ SalesOfOrders
    BY DEF KnowledgeInv, TypesInv, LedgerInv, RowsInv
  <2>2. sold[o] \in [Variants -> Nat] /\ returned[o] \in [Variants -> Nat]
    BY <2>1 DEF TypeOK
  <2>3. ASSUME NEW v \in Variants PROVE sold[o][v] = returned[o][v]
    <3>1. CASE Lines[o][v] > 0
      <4>1. ReturnRequest(o, v) \in Recorded
        BY <3>1, RequestsAreRequests DEF Refunded, KnowledgeInv, CallsInv, Answered
      <4>2. ReturnRequest(o, v) \in adjustKeys
        BY <4>1, AdjustKeyOf DEF Returns
      <4>3. QED
        BY <2>1, <4>2 DEF SalesOfOrders
    <3>2. CASE ~(Lines[o][v] > 0)
      <4>1. Lines[o][v] \in Nat
        BY RemoteAssumption, CartLine
      <4>2. sold[o][v] <= Lines[o][v] /\ returned[o][v] <= sold[o][v]
        BY <2>1 DEF SalesOfOrders, ReturnedWasSold
      <4>3. QED
        BY <2>2, <3>2, <4>1, <4>2
    <3>3. QED
      BY <3>1, <3>2
  <2>4. QED
    BY <2>2, <2>3
<1>2. QED
  BY <1>1, KnowledgeHolds, PTL

-----------------------------------------------------------------------------
(* Corrections *)

\* The corrections of v that are recorded, and the units of each
CorrectionsOf(v) == {r \in adjustKeys : r.o = NoOrder /\ r.v = v}
Units(K) == [r \in K |-> r.delta]

\* The payloads recorded are finitely many, and the corrections' sum is applied.
CorrectionsInv ==
  /\ IsFiniteSet(adjustKeys)
  /\ \A v \in Variants : adjusted[v] = SumFunctionOnSet(Units(CorrectionsOf(v)), CorrectionsOf(v))

\* An adjustment is of a whole number of units.
LEMMA AdjustmentUnits == \A r \in Returns \cup Corrections : r.delta \in Int
<1>1. ASSUME NEW o \in Orders, NEW w \in Variants PROVE ReturnRequest(o, w).delta \in Int
  BY RequestFields, RemoteAssumption, CartLine
<1>2. ASSUME NEW w \in Variants, NEW d \in Deltas, NEW reason \in StaffReasons
      PROVE  StaffRequest(w, d, reason).delta \in Int
  BY RequestFields, LedgerAssumption
<1>3. QED
  BY <1>1, <1>2 DEF Returns, Corrections

\* One more correction adds its units to the sum.
LEMMA UnitsGrow ==
  ASSUME NEW K \in SUBSET (Returns \cup Corrections), IsFiniteSet(K),
         NEW r \in (Returns \cup Corrections) \ K
  PROVE  SumFunctionOnSet(Units(K \cup {r}), K \cup {r}) = SumFunctionOnSet(Units(K), K) + r.delta
<1> DEFINE new == K \cup {r}
           F == Units(new)
           G == Units(K)
<1>1. IsFiniteSet(new)
  BY FS_AddElement
<1>2. \A x \in Returns \cup Corrections : x.delta \in Int
  BY AdjustmentUnits
<1>3. /\ \A x \in new : F[x] \in Int
      /\ \A x \in K : F[x] = G[x] /\ G[x] \in Int
      /\ F[r] = r.delta /\ r.delta \in Int /\ r \in new /\ K = new \ {r}
  BY <1>2 DEF Units
<1> HIDE DEF F, G, new
<1>4. SumFunctionOnSet(F, new) = F[r] + SumFunctionOnSet(F, new \ {r})
  BY <1>1, <1>3, SumTakesOut
<1>5. SumFunctionOnSet(F, K) = SumFunctionOnSet(G, K)
  BY <1>3, SumsAgree
<1>6. SumFunctionOnSet(G, K) \in Int
  <2>1. \A x \in K : G[x] \in Int
    BY <1>3
  <2>2. QED
    BY <2>1, SumTakesOut
<1>7. SumFunctionOnSet(F, new) = SumFunctionOnSet(G, K) + r.delta
  <2>1. SumFunctionOnSet(F, new) = F[r] + SumFunctionOnSet(F, K)
    BY <1>3, <1>4
  <2>2. F[r] = r.delta /\ r.delta \in Int
    BY <1>3
  <2>3. QED
    BY <1>5, <1>6, <2>1, <2>2
<1>8. QED
  BY <1>7 DEF F, G, new

\* A correction is counted when its payload is recorded, a return is not one.
LEMMA AdjustCounts ==
  ASSUME TypeOK, adjustKeys \subseteq Returns \cup Corrections, CorrectionsInv,
         NEW r \in Returns \cup Corrections, Adjusts(r)
  PROVE  CorrectionsInv'
<1>1. r \notin adjustKeys /\ adjustKeys' = adjustKeys \cup {r}
  BY DEF Adjusts, ServerAdjustsStock
<1>2. IsFiniteSet(adjustKeys')
  BY <1>1, FS_AddElement DEF CorrectionsInv
<1>3. ASSUME NEW v \in Variants
      PROVE  adjusted'[v] = adjusted[v] + (IF r.o = NoOrder /\ r.v = v THEN r.delta ELSE 0)
  <2>1. ASSUME NEW o \in Orders, NEW w \in Variants, r = ReturnRequest(o, w)
        PROVE  adjusted'[v] = adjusted[v] + (IF r.o = NoOrder /\ r.v = v THEN r.delta ELSE 0)
    <3>1. r.o # NoOrder
      BY <2>1, RequestFields, LedgerAssumption
    <3>2. adjusted' = adjusted /\ adjusted[v] \in Int
      BY <2>1, ReturnDoes DEF TypeOK
    <3>3. QED
      BY <3>1, <3>2
  <2>2. ASSUME NEW w \in Variants, NEW d \in Deltas, NEW reason \in StaffReasons,
               r = StaffRequest(w, d, reason)
        PROVE  adjusted'[v] = adjusted[v] + (IF r.o = NoOrder /\ r.v = v THEN r.delta ELSE 0)
    <3>1. r.o = NoOrder /\ r.v = w /\ r.delta = d
      BY <2>2, RequestFields
    <3>2. adjusted' = [adjusted EXCEPT ![w] = adjusted[w] + d]
      BY <2>2, CorrectionDoes
    <3>3. adjusted \in [Variants -> Int] /\ d \in Int
      BY LedgerAssumption DEF TypeOK
    <3>4. QED
      BY <3>1, <3>2, <3>3
  <2>3. QED
    BY <2>1, <2>2 DEF Returns, Corrections
<1>4. ASSUME NEW v \in Variants
      PROVE  adjusted'[v] = SumFunctionOnSet(Units(CorrectionsOf(v)'), CorrectionsOf(v)')
  <2> DEFINE K == CorrectionsOf(v)
  <2>1. K \in SUBSET (Returns \cup Corrections) /\ IsFiniteSet(K) /\ r \notin K
    BY <1>1, FS_Subset DEF CorrectionsInv, CorrectionsOf
  <2>2. adjusted[v] = SumFunctionOnSet(Units(K), K) /\ adjusted[v] \in Int
    BY DEF CorrectionsInv, TypeOK
  <2>3. CorrectionsOf(v)' = IF r.o = NoOrder /\ r.v = v THEN K \cup {r} ELSE K
    BY <1>1 DEF CorrectionsOf
  <2> HIDE DEF K
  <2>4. CASE r.o = NoOrder /\ r.v = v
    BY <1>3, <2>1, <2>2, <2>3, <2>4, UnitsGrow
  <2>5. CASE ~(r.o = NoOrder /\ r.v = v)
    BY <1>3, <2>2, <2>3, <2>5
  <2>6. QED
    BY <2>4, <2>5
<1>5. QED
  BY <1>2, <1>4 DEF CorrectionsInv, Units, CorrectionsOf

\* Whatever else a step does, it neither corrects nor records a correction.
LEMMA CorrectionsInductive ==
  TypesInv /\ CorrectionsInv /\ [RemoteNext]_remoteVars => CorrectionsInv'
<1> SUFFICES ASSUME TypesInv, CorrectionsInv, [RemoteNext]_remoteVars PROVE CorrectionsInv'
  OBVIOUS
<1>1. TypeOK /\ adjustKeys \subseteq Returns \cup Corrections
      /\ (ServerMoves \/ UNCHANGED server)
  BY RemoteStepMoves DEF TypesInv, LedgerInv, KeyTypes, ClientTypes, CallerTypes
<1>2. ASSUME UNCHANGED <<adjusted, adjustKeys>> PROVE CorrectionsInv'
  BY <1>2 DEF CorrectionsInv, Units, CorrectionsOf
<1>3. ASSUME NEW c \in Checkouts, Places(c) \/ Sells(c) \/ GivesBack(c) \/ Expires(c)
      PROVE  UNCHANGED <<adjusted, adjustKeys>>
  BY <1>3 DEF Places, PlaceRows, Sells, SellRows, GivesBack, EndRows, Expires, PassExpiry,
              movements, serverKeys
<1>4. CASE ExpireReservations
  BY <1>2, <1>4 DEF ExpireReservations, EndRows, movements, serverKeys
<1>5. CASE UNCHANGED server
  BY <1>2, <1>5 DEF server, vars, movements, serverKeys
<1>6. QED
  BY <1>1, <1>2, <1>3, <1>4, <1>5, AdjustCounts DEF ServerMoves

\* Nothing is recorded at first.
LEMMA CorrectionsInitially == RemoteInit => CorrectionsInv
<1> SUFFICES ASSUME RemoteInit PROVE CorrectionsInv
  OBVIOUS
<1>1. adjustKeys = {} /\ adjusted = [v \in Variants |-> 0]
  BY DEF RemoteInit, Init
<1>2. \A v \in Variants : CorrectionsOf(v) = {} /\ SumFunctionOnSet(Units({}), {}) = 0
  BY <1>1, SumOfNothing DEF CorrectionsOf
<1>3. QED
  BY <1>1, <1>2, FS_EmptySet DEF CorrectionsInv

\* However many copies of it the network delivers and whenever they arrive, one
\* call for a correction applies it at most once, and exactly once where it was
\* told so, for any number of threads, attempts and late copies.
THEOREM CorrectedOnce == RemoteSpec => []OneCallCorrectsOnce
<1>1. KnowledgeInv /\ CorrectionsInv => OneCallCorrectsOnce
  <2> SUFFICES ASSUME KnowledgeInv, CorrectionsInv, NEW v \in Variants,
                      \A r \in CorrectionsTo(v) : asked[r] <= 1
               PROVE  \E applied \in SUBSET {r \in CorrectionsTo(v) : asked[r] = 1} :
                        /\ {r \in CorrectionsTo(v) : told[r] = "ok"} \subseteq applied
                        /\ adjusted[v] = SumFunction([r \in applied |-> r.delta])
    BY DEF OneCallCorrectsOnce
  <2>1. /\ adjustKeys \subseteq Returns \cup Corrections /\ asked \in [Requests -> Nat]
        /\ Answered /\ WasAsked /\ Corrections \subseteq Requests
    BY RemoteAssumption
       DEF KnowledgeInv, TypesInv, KeyTypes, ClientTypes, CallerTypes, CallsInv, Requests
  <2>2. ASSUME NEW r \in Corrections PROVE r \in Recorded <=> r \in adjustKeys
    BY <2>1, AdjustKeyOf
  <2>3. ASSUME NEW r \in CorrectionsOf(v) PROVE r \in CorrectionsTo(v) /\ asked[r] = 1
    <3>1. r \in adjustKeys /\ r.o = NoOrder /\ r.v = v
      BY DEF CorrectionsOf
    <3>2. r \in Corrections
      <4>1. ASSUME NEW o \in Orders, NEW w \in Variants, r = ReturnRequest(o, w) PROVE FALSE
        BY <3>1, <4>1, RequestFields, LedgerAssumption
      <4>2. QED
        BY <2>1, <3>1, <4>1 DEF Returns
    <3>3. asked[r] > 0 /\ asked[r] <= 1 /\ asked[r] \in Nat
      BY <2>1, <2>2, <3>1, <3>2 DEF WasAsked, CorrectionsTo
    <3>4. QED
      BY <3>1, <3>2, <3>3 DEF CorrectionsTo
  <2>4. ASSUME NEW r \in CorrectionsTo(v), told[r] = "ok" PROVE r \in CorrectionsOf(v)
    <3>0. r \in Corrections /\ r.v = v
      BY DEF CorrectionsTo
    <3>1. r \in adjustKeys
      BY <2>1, <2>2, <2>4, <3>0 DEF Answered
    <3>2. r.o = NoOrder
      BY <3>0, RequestFields DEF Corrections
    <3>3. QED
      BY <3>0, <3>1, <3>2 DEF CorrectionsOf
  <2>5. adjusted[v] = SumFunction([r \in CorrectionsOf(v) |-> r.delta])
    <3>1. DOMAIN Units(CorrectionsOf(v)) = CorrectionsOf(v)
      BY DEF Units
    <3>2. adjusted[v] = SumFunction(Units(CorrectionsOf(v)))
      BY <3>1 DEF CorrectionsInv, SumFunction
    <3>3. QED
      BY <3>2 DEF Units
  <2>6. QED
    BY <2>3, <2>4, <2>5
<1>2. KnowledgeInv => TypesInv
  BY DEF KnowledgeInv
<1>3. QED
  BY <1>1, <1>2, KnowledgeHolds, TypesHold, CorrectionsInitially, CorrectionsInductive, PTL DEF RemoteSpec
=============================================================================
