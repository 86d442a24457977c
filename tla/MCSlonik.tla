------------------------------- MODULE MCSlonik -------------------------------
(***************************************************************************)
(* Scripts for TLC, for clusters of up to three nodes.                     *)
(***************************************************************************)
EXTENDS Failover

(* A cluster of the nodes ns, with paths between all of them; the others are
   not installed. *)
ClusterOf(ns) ==
    LET c(n) == Rebuild([initializeLocalNode(n) EXCEPT
                            !.known = ns, !.active = ns,
                            !.path = {p \in ns \X ns : p[1] # p[2]}])
    IN  [n \in Node |-> IF n \in ns THEN c(n) ELSE NotInstalled]

(* The same with sets s from origin o, each with table s, which the receivers
   rs subscribe to and forward. *)
WithSets(ns, ss, o, rs) ==
    [n \in Node |->
        IF n \in ns
        THEN Rebuild([ClusterOf(ns)[n] EXCEPT
                !.set = {<<s, o>> : s \in ss},
                !.obj = IF n \in rs \cup {o} THEN {<<"table", s, s>> : s \in ss} ELSE {},
                !.sub = {Subscription(s, o, r, TRUE, TRUE) : s \in ss, r \in rs}])
        ELSE NotInstalled]

S(cmd) == [cmd |-> cmd]
OnNode(cmd, n) == [cmd |-> cmd, node |-> n]
OnSet(cmd, s, o) == [cmd |-> cmd, set |-> s, origin |-> o]
Path(cmd, s, c) == [cmd |-> cmd, server |-> s, client |-> c, node |-> c]
StoreNode(new, n) == [cmd |-> "STORE_NODE", new |-> new, node |-> n]
DropNode(ids, n) == [cmd |-> "DROP_NODE", ids |-> ids, node |-> n]
Listen(cmd, o, p, r) == [cmd |-> cmd, origin |-> o, provider |-> p, receiver |-> r]
Obj(cmd, kind, i, s, o) == [cmd |-> cmd, kind |-> kind, obj |-> i, set |-> s, origin |-> o]
Subscribe(s, p, r) ==
    [cmd |-> "SUBSCRIBE_SET", set |-> s, provider |-> p, receiver |-> r, forward |-> TRUE]
Unsubscribe(s, r) == [cmd |-> "UNSUBSCRIBE_SET", set |-> s, receiver |-> r]
Wait(o, c, on) == [cmd |-> "WAIT_EVENT", origin |-> o, confirmed |-> c, on |-> on, timeout |-> FALSE]
Try(b, e, s) == [cmd |-> "TRY", block |-> b, onerror |-> e, onsuccess |-> s]
Move(s, o, new) == [cmd |-> "MOVE_SET", set |-> s, origin |-> o, new |-> new]

Two == ClusterOf({1, 2})
Three == ClusterOf({1, 2, 3})
TwoSets == WithSets({1, 2, 3}, {1, 2}, 1, {2, 3})

Case(db0, text) == [db |-> db0, text |-> text, event |-> [n \in Node |-> <<>>],
                    done |-> [n \in Node |-> [o \in Node |-> 0]]]

(* A cluster from nothing, and a third node that is stored, subscribed. *)
NewCluster ==
    Case(ClusterOf({}),
         <<OnNode("INIT_CLUSTER", 1), StoreNode(2, 1), Path("STORE_PATH", 1, 2),
           Path("STORE_PATH", 2, 1), OnSet("CREATE_SET", 1, 2), OnNode("RESTART_NODE", 2)>>)

NewNode ==
    Case(Two,
         <<OnSet("CREATE_SET", 1, 2), Obj("SET_ADD", "table", 0, 1, 0), StoreNode(3, 1),
           Path("STORE_PATH", 1, 3), Path("STORE_PATH", 3, 1), Path("STORE_PATH", 2, 3), Path("STORE_PATH", 3, 2),
           Subscribe(1, 2, 3), OnNode("SYNC", 2), Wait(2, 0, 2)>>)

(* A set is built, subscribed in a cascade and moved. *)
MoveAlong ==
    Case(Three,
         <<OnSet("CREATE_SET", 1, 1), Obj("SET_ADD", "table", 0, 1, 0), Subscribe(1, 1, 2),
           OnNode("SYNC", 1), Wait(1, 2, 1), Subscribe(1, 2, 3), OnNode("SYNC", 1), Wait(0, 0, 1),
           OnSet("LOCK_SET", 1, 1), Move(1, 1, 3), Wait(1, 0, 1)>>)

(* Sets merged, tables moved and dropped. *)
Maintain ==
    Case(TwoSets,
         <<Obj("SET_MOVE", "table", 2, 1, 1), OnSet("CREATE_SET", 3, 1), Subscribe(3, 1, 2),
           OnNode("SYNC", 1), Subscribe(3, 1, 3), OnNode("SYNC", 1),
           [cmd |-> "MERGE_SET", set |-> 1, add |-> 3, origin |-> 1],
           Obj("SET_DROP", "table", 1, 0, 1), OnSet("DROP_SET", 2, 1)>>)

(* Nodes leave. *)
Leave ==
    Case(TwoSets,
         <<Unsubscribe(2, 3), Unsubscribe(1, 3), OnSet("DROP_SET", 2, 1), DropNode({3}, 1),
           OnNode("UNINSTALL_NODE", 3), Unsubscribe(1, 2)>>)

(* A subscriber is cloned. *)
CloneNode ==
    Case(WithSets({1, 2}, {1}, 1, {2}),
         <<[cmd |-> "CLONE_PREPARE", new |-> 3, provider |-> 2], Wait(2, 1, 2),
           [cmd |-> "COPY_DATABASE", new |-> 3, provider |-> 2],
           [cmd |-> "CLONE_FINISH", new |-> 3, provider |-> 2], Path("STORE_PATH", 1, 3),
           Path("STORE_PATH", 3, 1), Path("STORE_PATH", 2, 3), Path("STORE_PATH", 3, 2),
           OnSet("CREATE_SET", 2, 3)>>)

(* Providers change: by SUBSCRIBE SET, which reshapes the receiver, and by
   RESUBSCRIBE NODE. *)
Providers ==
    Case(WithSets({1, 2, 3}, {1}, 1, {2, 3}),
         <<Subscribe(1, 2, 3), OnNode("SYNC", 1),
           [cmd |-> "RESUBSCRIBE_NODE", origin |-> 1, provider |-> 1, receiver |-> 3],
           Listen("STORE_LISTEN", 1, 2, 3), Listen("DROP_LISTEN", 1, 2, 3),
           Path("DROP_PATH", 2, 3)>>)

(* Groups of statements. *)
Groups ==
    Case(TwoSets,
         <<OnSet("LOCK_SET", 1, 1),
           Try(<<OnSet("CREATE_SET", 3, 2), Obj("SET_ADD", "table", 3, 3, 2), OnNode("DDL_SCRIPT", 2)>>,
               <<OnSet("UNLOCK_SET", 1, 1), OnNode("REPAIR_CONFIG", 3)>>,
               <<OnNode("SWITCH_LOG", 2), Obj("SET_DROP", "table", 3, 0, 2)>>),
           Try(<<Obj("SET_DROP", "table", 1, 0, 1), OnSet("CREATE_SET", 4, 2)>>,
               <<[cmd |-> "WAIT_EVENT", origin |-> 2, confirmed |-> 3, on |-> 2, timeout |-> TRUE]>>,
               <<>>),
           [cmd |-> "EXIT", code |-> 0], OnSet("DROP_SET", 2, 1)>>)

(* Moving a set to its own origin is refused before anything is done. *)
Wrong == Case(TwoSets, <<OnSet("DROP_SET", 2, 1), Move(1, 1, 1)>>)

(* Node f has failed after two SYNCs, of which each node has got one or both. *)
Failed(db0, fs, text) ==
    {[db |-> [n \in Node |-> IF n \in fs THEN NotInstalled ELSE db0[n]], text |-> text,
      event |-> [n \in Node |-> IF n \in fs THEN <<Ev("SYNC"), Ev("SYNC")>> ELSE <<>>],
      done |-> [n \in Node |-> [o \in Node |-> IF o \in fs /\ n # o THEN got[n] ELSE 0]]] :
        got \in [Node -> {1, 2}]}
FailOver(f, b) == [cmd |-> "FAILED_NODE", nodes |-> <<[id |-> f, backup |-> b]>>]

(* Both others are candidates; one is not; they form a cascade; both the origin
   and a candidate have failed. *)
TwoCandidates ==
    Failed(TwoSets, {1}, <<FailOver(1, 2), OnSet("CREATE_SET", 4, 3), DropNode({1}, 2)>>)

OneCandidate ==
    Failed([n \in Node |-> [TwoSets[n] EXCEPT
               !.sub = {IF x.receiver = 3 THEN [x EXCEPT !.forward = FALSE] ELSE x : x \in @}]],
           {1}, <<FailOver(1, 2), OnSet("CREATE_SET", 4, 3)>>)

Cascade ==
    Failed([n \in Node |-> Rebuild([TwoSets[n] EXCEPT
               !.sub = {IF x.receiver = 3 THEN [x EXCEPT !.provider = 2] ELSE x : x \in @}])],
           {1}, <<FailOver(1, 2), OnSet("CREATE_SET", 4, 3)>>)

TwoFailed ==
    Failed(TwoSets, {1, 2},
           <<[cmd |-> "FAILED_NODE", nodes |-> <<[id |-> 1, backup |-> 3], [id |-> 2, backup |-> 3]>>],
             DropNode({1, 2}, 3)>>)

Failovers == TwoCandidates \cup OneCandidate \cup Cascade \cup TwoFailed

Scripts == {NewCluster, NewNode, MoveAlong, Maintain, Leave, CloneNode, Providers, Groups, Wrong}
           \cup Failovers

(* The subscription is waited for, as its event is the last of node 1. *)
AwaitSubscription ==
    {Case(WithSets({1, 2, 3}, {1}, 1, {2}), <<Subscribe(1, 1, 3), Wait(1, 3, 1)>>)}
=============================================================================
