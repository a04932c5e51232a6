--------------------------- MODULE MCRemoteLedger ---------------------------
(* A small instance of RemoteLedger for TLC: one order for every unit there *)
(* is, and a correction of minus one, so that either can shut the other out. *)
EXTENDS RemoteLedger

MCOpening == [v \in Variants |-> 2]
MCLines == [o \in Orders |-> [v \in Variants |-> 2]]
MCDeltas == {-1}
MCOrderOf == [c \in Checkouts |-> CHOOSE o \in Orders : TRUE]
=============================================================================
