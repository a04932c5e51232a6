------------------------------ MODULE UnitPool ------------------------------
(***************************************************************************)
(* What the stock ledger promises the shop, without counters, rows or keys: *)
(* every physical unit of a variant is free, held by one checkout, or sold  *)
(* to one order, and a unit changes place only by the six moves below.      *)
(* Overselling is impossible here by construction; StockLedger, which works  *)
(* in process, and RemoteLedger, a service behind an unreliable network, are *)
(* shown to implement this module.                                          *)
(***************************************************************************)
EXTENDS Integers, FiniteSets

CONSTANTS
  Variants,   \* the SKUs
  Checkouts,  \* the checkout ids that group holds
  Orders,     \* the orders a hold can be sold to
  Opening,    \* the units of each variant on the shelf at the start
  MaxLine,    \* bound: units one line takes or returns
  Deltas      \* bound: the corrections considered

VARIABLES
  free,       \* free[v]: units of v anybody may hold
  held,       \* held[c][v]: units of v the checkout c holds
  sold        \* sold[o][v]: units of v that order o bought and has not returned

pool == <<free, held, sold>>

PoolInit ==
  /\ free = Opening
  /\ held = [c \in Checkouts |-> [v \in Variants |-> 0]]
  /\ sold = [o \in Orders |-> [v \in Variants |-> 0]]

\* A checkout takes every line of its cart, or nothing.
Take(c, cart) ==
  /\ \A v \in Variants : held[c][v] = 0 /\ cart[v] <= free[v]
  /\ free' = [v \in Variants |-> free[v] - cart[v]]
  /\ held' = [held EXCEPT ![c] = cart]
  /\ UNCHANGED sold

\* One line of a checkout goes back on the shelf.
GiveBack(c, v) ==
  /\ held[c][v] > 0
  /\ free' = [free EXCEPT ![v] = @ + held[c][v]]
  /\ held' = [held EXCEPT ![c][v] = 0]
  /\ UNCHANGED sold

\* Lines of several checkouts go back together.
GiveBackAll(rows) ==
  /\ free' = [v \in Variants |-> free[v] + Cardinality(
       UNION {{c} \X (1..held[c][v]) : c \in {d \in Checkouts : <<d, v>> \in rows}})]
  /\ held' = [c \in Checkouts |-> [v \in Variants |->
       IF <<c, v>> \in rows THEN 0 ELSE held[c][v]]]
  /\ UNCHANGED sold

\* Some lines of a checkout are sold to an order.
Sell(c, lines, o) ==
  /\ held' = [held EXCEPT ![c] =
                [v \in Variants |-> IF v \in lines THEN 0 ELSE held[c][v]]]
  /\ sold' = [sold EXCEPT ![o] =
                [v \in Variants |-> sold[o][v] + IF v \in lines THEN held[c][v] ELSE 0]]
  /\ UNCHANGED free

\* An order gives back no more than it bought.
GiveReturn(o, back) ==
  /\ \A v \in Variants : back[v] <= sold[o][v]
  /\ free' = [v \in Variants |-> free[v] + back[v]]
  /\ sold' = [sold EXCEPT ![o] = [v \in Variants |-> sold[o][v] - back[v]]]
  /\ UNCHANGED held

\* A physical correction never takes a unit somebody holds.
Correct(v, delta) ==
  /\ free[v] + delta >= 0
  /\ free' = [free EXCEPT ![v] = @ + delta]
  /\ UNCHANGED <<held, sold>>

PoolNext ==
  \/ \E c \in Checkouts, cart \in [Variants -> 0..MaxLine] : Take(c, cart)
  \/ \E c \in Checkouts, v \in Variants : GiveBack(c, v)
  \/ \E rows \in SUBSET (Checkouts \X Variants) : GiveBackAll(rows)
  \/ \E c \in Checkouts, lines \in SUBSET Variants, o \in Orders : Sell(c, lines, o)
  \/ \E o \in Orders, back \in [Variants -> 0..MaxLine] : GiveReturn(o, back)
  \/ \E v \in Variants, delta \in Deltas : Correct(v, delta)

PoolSpec == PoolInit /\ [][PoolNext]_pool
=============================================================================
