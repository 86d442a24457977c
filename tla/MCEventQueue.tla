---------------------------- MODULE MCEventQueue ----------------------------
(* Small clusters for module EventQueue. *)
EXTENDS EventQueueInv

Subscription(o, p, n) == [origin |-> o, provider |-> p, receiver |-> n, active |-> TRUE]

(* Nobody subscribes: a node listens wherever it has a path to.  Or node 3
   gets one set of node 1 directly and another one through node 2, as after a
   MOVE SET from node 2 to node 1: node 3 keeps its provider. *)
TwoProviders == {Subscription(1, 1, 2), Subscription(1, 1, 3), Subscription(1, 2, 3)}

NoneOrTwo == {{}, TwoProviders}

(* Node 2 listens at node 1, node 3 at both. *)
Downward == {<<1, 2>>, <<1, 3>>, <<2, 3>>}

(* Node 1 creates both kinds of events. *)
FromNode1 == {1} \X Kind
=============================================================================
