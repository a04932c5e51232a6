---------------------------- MODULE MCFulfillment ----------------------------
(* Small instances of Fulfillment for TLC. *)
EXTENDS Fulfillment

CONSTANTS v1, v2, o1, o2, k1, k2, x1, x2

\* One unit of each variant, and orders for one unit of every variant: two
\* orders cannot both be served.
MCOpening == [v \in Variants |-> 1]
MCOrderLines == [o \in Orders |-> [v \in Variants |-> 1]]
MCDeltas == {-1, 1}

\* One variant: a cart id and one replacement id for each order.
MCCartOf == [o \in Orders |-> IF o = o1 THEN k1 ELSE k2]
MCSpareOf == [o \in Orders |-> [v \in Variants |-> IF o = o1 THEN x1 ELSE x2]]

\* One order of two variants: a replacement id for each.
MCGroupSpareOf == [o \in Orders |-> [v \in Variants |-> IF v = v1 THEN x1 ELSE x2]]
=============================================================================
