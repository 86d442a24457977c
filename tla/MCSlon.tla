-------------------------------- MODULE MCSlon --------------------------------
(***************************************************************************)
(* What happens at node 1 in clusters of three nodes, for TLC.             *)
(***************************************************************************)
EXTENDS SlonDaemon, TLC

(* Node 1's tables: nodes ns with paths between all of them, set 1 with origin o
   and the subscribers rs. *)
ConfigOf(ns, o, rs) ==
    Rebuild([initializeLocalNode(1) EXCEPT
        !.known = ns, !.active = ns, !.path = {p \in ns \X ns : p[1] # p[2]},
        !.set = {<<1, o>>},
        !.sub = {Subscription(1, o, r, TRUE, TRUE) : r \in rs}])

Case(c, local, two, three) ==
    [cfg |-> c, linger |-> FALSE, script |-> local, remote |-> 2 :> two @@ 3 :> three]

Sync == Ev("SYNC")
On(cmd, n) == [cmd |-> cmd, node |-> n]
OnSet(cmd, s) == [cmd |-> cmd, set |-> s]
PathTo(s) == [type |-> "STORE_PATH", server |-> s, client |-> 1]
Subscribe(type, s, p, r) == [type |-> type, set |-> s, provider |-> p, receiver |-> r, forward |-> TRUE]
MoveTo(s, old, new) == [type |-> "MOVE_SET", set |-> s, old |-> old, new |-> new]
Accept(s, old, new, k) == [type |-> "ACCEPT_SET", set |-> s, old |-> old, new |-> new, wait |-> k]

(* Node 1 gets a subscription while it creates a set; it merges sets. *)
Subscribing ==
    Case(ConfigOf({1, 2, 3}, 2, {}), <<OnSet("STORE_SET", 2)>>,
         <<Subscribe("SUBSCRIBE_SET", 1, 2, 1), Subscribe("ENABLE_SUBSCRIPTION", 1, 2, 1)>>, <<>>)

Merging ==
    Case(ConfigOf({1, 2, 3}, 1, {}),
         <<OnSet("STORE_SET", 2), [cmd |-> "MERGE_SET", set |-> 1, add |-> 2]>>,
         <<[type |-> "STORE_SET", set |-> 3, origin |-> 2]>>, <<>>)

(* Another node comes in, stored by node 2 and by node 1. *)
Joining ==
    Case(ConfigOf({1, 2}, 1, {2}),
         <<[cmd |-> "STORE_PATH", server |-> 3, client |-> 1],
           [cmd |-> "SUBSCRIBE_SET", set |-> 1, provider |-> 1, receiver |-> 3]>>,
         <<[type |-> "STORE_NODE", node |-> 3], [type |-> "ENABLE_NODE", node |-> 3]>>, <<>>)

(* Set 1 moves from node 1 to node 2, which goes on with it; from 2 to 3. *)
MovingAway ==
    Case(ConfigOf({1, 2, 3}, 1, {2, 3}), <<[cmd |-> "MOVE_SET", set |-> 1, new |-> 2]>>,
         <<Sync, [type |-> "STORE_SET", set |-> 2, origin |-> 2]>>, <<>>)

MovingBetween ==
    Case(ConfigOf({1, 2, 3}, 2, {1, 3}), <<>>,
         <<MoveTo(1, 2, 3)>>, <<Accept(1, 2, 3, 1), [type |-> "DROP_SET", set |-> 1]>>)

MovingHere ==
    Case(ConfigOf({1, 2, 3}, 2, {1}), <<OnSet("STORE_SET", 2)>>, <<MoveTo(1, 2, 1)>>, <<>>)

(* Paths and listen entries come and go while events are applied. *)
Rewiring ==
    Case(ConfigOf({1, 2, 3}, 2, {1}),
         <<[cmd |-> "DROP_PATH", server |-> 3, client |-> 1],
           [cmd |-> "STORE_PATH", server |-> 3, client |-> 1]>>,
         <<Subscribe("SUBSCRIBE_SET", 1, 2, 3)>>, <<>>)

Relistening ==
    LET listen(cmd) == [cmd |-> cmd, origin |-> 3, provider |-> 3, receiver |-> 1]
    IN  Case(ConfigOf({1, 2, 3}, 2, {1}), <<listen("DROP_LISTEN"), listen("STORE_LISTEN")>>,
             <<Subscribe("ENABLE_SUBSCRIPTION", 1, 2, 3)>>, <<>>)

(* Node 1 unsubscribes; nodes are dropped and cloned. *)
Leaving ==
    Case(ConfigOf({1, 2, 3}, 2, {1}), <<OnSet("UNSUBSCRIBE_SET", 1)>>, <<PathTo(2)>>, <<>>)

Dropping ==
    Case(ConfigOf({1, 2, 3}, 2, {1}), <<On("DROP_NODE", 3)>>, <<PathTo(2)>>, <<>>)

DroppedElsewhere ==
    Case(ConfigOf({1, 2, 3}, 2, {1}), <<OnSet("STORE_SET", 2)>>,
         <<[type |-> "DROP_NODE", nodes |-> {3}]>>, <<>>)

Cloning ==
    Case(ConfigOf({1, 2}, 2, {1}),
         <<[cmd |-> "CLONE_NODE", node |-> 3, provider |-> 1], OnSet("STORE_SET", 2)>>, <<>>, <<>>)

ClonedElsewhere ==
    Case(ConfigOf({1, 2}, 2, {1}), <<>>,
         <<[type |-> "CLONE_NODE", node |-> 3, provider |-> 2]>>, <<Sync>>)

(* Node 3 has failed; node 2 takes over. *)
FailingOver ==
    Case(ConfigOf({1, 2, 3}, 3, {1, 2}), <<>>,
         <<[type |-> "FAILOVER_NODE", node |-> 3, seqno |-> 1, nodes |-> {3}],
           [type |-> "STORE_SET", set |-> 2, origin |-> 2]>>, <<Sync>>)

(* At the first start another slon, or its backend, still holds the lock. *)
Contended == [MovingHere EXCEPT !.linger = TRUE]

(* preFailover is called on node 1, which subscribes through the failed node 3. *)
Prepared == Case(ConfigOf({1, 2, 3}, 3, {1, 2}), <<On("PRE_FAILOVER", 3)>>, <<>>, <<>>)

AllCases == {Subscribing, Merging, Joining, MovingAway, MovingBetween, MovingHere, Rewiring,
             Relistening, Leaving, Dropping, DroppedElsewhere, Cloning, ClonedElsewhere,
             FailingOver, Contended, Prepared}
=============================================================================
