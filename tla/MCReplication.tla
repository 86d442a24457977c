---------------------------- MODULE MCReplication ----------------------------
(***************************************************************************)
(* Instances of the data path for TLC: an origin with one subscriber, and  *)
(* a chain origin - forwarder - subscriber.                                *)
(***************************************************************************)
EXTENDS ReplicationInv

PairNode == {1, 2}
PairProvider == [n \in {2} |-> 1]
ChainNode == {1, 2, 3}
ChainProvider == [n \in {2, 3} |-> n - 1]
Everyone == [n \in Node |-> Node \ {n}]
ChainListen == [n \in {1, 2, 3} |-> IF n = 1 THEN {} ELSE Node \ {n}]
=============================================================================
