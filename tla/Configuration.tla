---------------------------- MODULE Configuration ----------------------------
(***************************************************************************)
(* The configuration tables of one node, and the stored procedures that    *)
(* change them.  A configuration is a record:                              *)
(*                                                                         *)
(*   id       the local node id                                            *)
(*   known    the ids in sl_node;  active, those with no_active;  failed,  *)
(*            those with no_failed                                         *)
(*   path     sl_path, as <<server, client>>;  pending, the paths whose    *)
(*            conninfo is '<event pending>'                                *)
(*   listen   sl_listen, as <<origin, provider, receiver>>                 *)
(*   set      sl_set, as <<set, origin>>;  locked, the locked sets         *)
(*   obj      sl_table and sl_sequence, as <<kind, id, set>>               *)
(*   sub      sl_subscribe                                                 *)
(*                                                                         *)
(* A procedure returns whether it succeeds, the new configuration, and the *)
(* events it has created, in order.                                        *)
(***************************************************************************)
EXTENDS Sequences, ListenPaths

SetKnown(c, s) == \E x \in c.set : x[1] = s

(* The foreign keys of slony1_base.sql: a statement that breaks one fails. *)
ReferencesHold(c) ==
    /\ \A x \in c.set : x[2] \in c.known
    /\ \A p \in c.path : {p[1], p[2]} \subseteq c.known
    /\ \A e \in c.listen : e[1] \in c.known /\ <<e[2], e[3]>> \in c.path
    /\ \A x \in c.sub : <<x.provider, x.receiver>> \in c.path /\ SetKnown(c, x.set)
    /\ \A x \in c.obj : SetKnown(c, x[3])

Failure == [ok |-> FALSE]

Done(c, ev) ==
    IF ReferencesHold(c) THEN [ok |-> TRUE, c |-> c, ev |-> ev] ELSE Failure

Check(cond, r) == IF cond THEN r ELSE Failure

(* First p, and if it succeeds q on its result. *)
Then(p, Q(_)) ==
    IF ~p.ok THEN p
    ELSE LET q == Q(p.c) IN IF q.ok THEN [q EXCEPT !.ev = p.ev \o @] ELSE q

Ev(type) == [type |-> type]

(* One event for each of the numbers ns, in their order. *)
ForEach(ns, E(_)) ==
    LET upto[ms \in SUBSET ns] ==
            IF ms = {} THEN <<>>
            ELSE LET n == CHOOSE n \in ms : \A m \in ms : n >= m
                 IN  Append(upto[ms \ {n}], E(n))
    IN  upto[ns]

Subscription(set, provider, receiver, forward, active) ==
    [set |-> set, provider |-> provider, receiver |-> receiver,
     forward |-> forward, active |-> active]

OriginOf(c, s) == (CHOOSE x \in c.set : x[1] = s)[2]
OriginHere(c, s) == <<s, c.id>> \in c.set
SubsOf(c, s, r) == {x \in c.sub : x.set = s /\ x.receiver = r}
Receivers(c, s) == {x.receiver : x \in {y \in c.sub : y.set = s}}

(* Is node p a data provider that offers set s? *)
Provides(c, s, p) ==
    \/ OriginOf(c, s) = p
    \/ \E x \in SubsOf(c, s, p) : x.forward /\ x.active

Rebuild(c) ==
    LET subs == {x \in c.sub : SetKnown(c, x.set)}
        byOrigin == {[origin |-> OriginOf(c, x.set), provider |-> x.provider,
                      receiver |-> x.receiver, active |-> x.active] : x \in subs}
    IN  [c EXCEPT !.listen = RebuildListenEntries(c.known, c.path, c.pending,
                                                  byOrigin, c.active, c.failed)]
-----------------------------------------------------------------------------
(* Nodes. *)

initializeLocalNode(n) ==
    [id |-> n, known |-> {n}, active |-> {}, failed |-> {}, path |-> {},
     pending |-> {}, listen |-> {}, set |-> {}, locked |-> {}, obj |-> {}, sub |-> {}]

storeNode_int(c, ns) == [c EXCEPT !.known = @ \cup ns]

storeNode(c, n) ==
    Done(storeNode_int(c, {n}), <<[type |-> "STORE_NODE", node |-> n]>>)

(* Add the path to a data provider that is missing, as pending. *)
NeedPath(c, p, r) ==
    IF <<p, r>> \in c.path THEN c
    ELSE [c EXCEPT !.path = @ \cup {<<p, r>>}, !.pending = @ \cup {<<p, r>>}]

enableSubscription_int(c, s, p, r) ==
    LET found == SubsOf(c, s, r)
        new   == IF found = {} THEN {Subscription(s, p, r, FALSE, TRUE)}
                 ELSE {[x EXCEPT !.active = TRUE] : x \in found}
    IN  Rebuild([NeedPath(c, p, r) EXCEPT !.sub = (@ \ found) \cup new])

(* Subscriptions of the new node to sets that originate here become active;
   this creates no event. *)
enableNode_int(c, n) ==
    IF n \notin c.known THEN Failure
    ELSE IF n \in c.active THEN Done(c, <<>>)
    ELSE LET mine == {x \in c.sub : x.receiver = n /\ OriginHere(c, x.set)}
             on   == [c EXCEPT !.active = @ \cup {n},
                               !.sub = (@ \ mine) \cup
                                       {[x EXCEPT !.active = TRUE] : x \in mine}]
         IN  Done(IF mine = {} THEN on ELSE Rebuild(on), <<>>)

enableNode(c, n) ==
    LET Event(d) == Done(d, <<[type |-> "ENABLE_NODE", node |-> n]>>)
    IN  Check(n \in c.known \ c.active, Then(enableNode_int(c, n), Event))

(* Remote nodes vanish from every table; the local one is only deactivated. *)
dropNode_int(c, ns) ==
    LET gone == ns \ {c.id}
        c1 == [c EXCEPT !.sub = {x \in @ : x.receiver \notin gone},
                        !.listen = {e \in @ : {e[1], e[2], e[3]} \cap gone = {}},
                        !.path = {p \in @ : {p[1], p[2]} \cap gone = {}},
                        !.pending = {p \in @ : {p[1], p[2]} \cap gone = {}},
                        !.known = @ \ gone, !.active = @ \ ns, !.failed = @ \ gone]
    IN  IF c.id \in ns THEN Rebuild(c1) ELSE c1

dropNode(c, ns) ==
    LET c1 == [c EXCEPT !.sub = {x \in @ : x.receiver \notin ns}]
    IN  Check(/\ c.id \notin ns /\ ns \subseteq c.known
              /\ \A x \in c1.sub : x.provider \notin ns
              /\ \A x \in c.set : x[2] \notin ns,
              Done(dropNode_int(c1, ns), <<[type |-> "DROP_NODE", nodes |-> ns]>>))

(* What the provider p has, the clone n has too; its paths are pending. *)
cloneNodePrepare_int(c, n, p) ==
    LET in   == {<<x[1], n>> : x \in {y \in c.path : y[2] = p}} \ c.path
        out  == {<<n, x[2]>> : x \in {y \in c.path : y[1] = p}} \ c.path
        subs == {[x EXCEPT !.receiver = n] : x \in {y \in c.sub : y.receiver = p}}
    IN  Rebuild([c EXCEPT !.known = @ \cup {n},
                          !.active = IF p \in @ THEN @ \cup {n} ELSE @ \ {n},
                          !.path = @ \cup in \cup out,
                          !.pending = @ \cup in \cup out,
                          !.sub = @ \cup subs])

cloneNodePrepare(c, n, p) ==
    Done(cloneNodePrepare_int(c, n, p),
         <<[type |-> "CLONE_NODE", node |-> n, provider |-> p]>>)

cloneNodeFinish(c, n) == Rebuild([c EXCEPT !.id = n])
-----------------------------------------------------------------------------
(* Paths and listen entries. *)

storePath_int(c, s, r) ==
    Rebuild([storeNode_int(c, {s, r}) EXCEPT
                !.path = @ \cup {<<s, r>>}, !.pending = @ \ {<<s, r>>}])

storePath(c, s, r) ==
    Done(storePath_int(c, s, r),
         <<[type |-> "STORE_PATH", server |-> s, client |-> r]>>)

dropListen_int(c, o, p, r) == [c EXCEPT !.listen = @ \ {Entry(o, p, r)}]

dropListen(c, o, p, r) ==
    Done(dropListen_int(c, o, p, r),
         <<[type |-> "DROP_LISTEN", origin |-> o, provider |-> p, receiver |-> r]>>)

(* sl_listen refers to sl_path. *)
storeListen_int(c, o, p, r) ==
    Check(<<p, r>> \in c.path,
          Done([storeNode_int(c, {o, p, r}) EXCEPT !.listen = @ \cup {Entry(o, p, r)}],
               <<>>))

storeListen(c, o, p, r) ==
    LET Event(d) == Done(d, <<[type |-> "STORE_LISTEN", origin |-> o,
                               provider |-> p, receiver |-> r]>>)
    IN  Then(storeListen_int(c, o, p, r), Event)

dropPath_int(c, s, r) ==
    Rebuild([c EXCEPT !.path = @ \ {<<s, r>>}, !.pending = @ \ {<<s, r>>}])

dropPath(c, s, r) ==
    LET gone == {e[1] : e \in {f \in c.listen : f[2] = s /\ f[3] = r}}
        Drop(o) == [type |-> "DROP_LISTEN", origin |-> o, provider |-> s, receiver |-> r]
    IN  Check(\A x \in c.sub : ~(x.provider = s /\ x.receiver = r),
              Done(dropPath_int(c, s, r),
                   ForEach(gone, Drop) \o <<[type |-> "DROP_PATH", server |-> s, client |-> r]>>))
-----------------------------------------------------------------------------
(* Sets, and the tables and sequences in them. *)

(* A set that is known already keeps its origin. *)
storeSet_int(c, s, o) ==
    IF SetKnown(c, s) THEN c
    ELSE [storeNode_int(c, {o}) EXCEPT !.set = @ \cup {<<s, o>>}]

storeSet(c, s) ==
    Check(~SetKnown(c, s),
          Done([c EXCEPT !.set = @ \cup {<<s, c.id>>}],
               <<[type |-> "STORE_SET", set |-> s, origin |-> c.id]>>))

dropSet_int(c, s) ==
    Rebuild([c EXCEPT !.obj = {x \in @ : x[3] # s}, !.sub = {x \in @ : x.set # s},
                      !.set = {x \in @ : x[1] # s}, !.locked = @ \ {s}])

dropSet(c, s) ==
    Check(OriginHere(c, s),
          Done(dropSet_int(c, s), <<[type |-> "DROP_SET", set |-> s]>>))

mergeSet_int(c, s, add) ==
    [c EXCEPT !.obj = {IF x[3] = add THEN <<x[1], x[2], s>> ELSE x : x \in @},
              !.sub = {x \in @ : x.set # add},
              !.set = {x \in @ : x[1] # add}, !.locked = @ \ {add}]

mergeSet(c, s, add, inProgress) ==
    Check(/\ s # add /\ OriginHere(c, s) /\ OriginHere(c, add)
          /\ Receivers(c, s) = Receivers(c, add)
          /\ ~inProgress,
          Done(mergeSet_int(c, s, add),
               <<Ev("SYNC"), [type |-> "MERGE_SET", set |-> s, add |-> add]>>))

(* setAddTable and setAddSequence: an id is used once per kind. *)
setAdd(c, kind, i, s) ==
    Check(/\ OriginHere(c, s) /\ Receivers(c, s) = {}
          /\ \A x \in c.obj : ~(x[1] = kind /\ x[2] = i),
          Done([c EXCEPT !.obj = @ \cup {<<kind, i, s>>}], <<Ev("SET_ADD")>>))

Object(c, kind, i) == {x \in c.obj : x[1] = kind /\ x[2] = i}

(* setDropTable_int, setDropSequence_int: nothing happens on a node that has
   not got the object or no longer subscribes to its set. *)
setDrop_int(c, kind, i) ==
    [c EXCEPT !.obj = @ \ {x \in Object(c, kind, i) :
                              OriginHere(c, x[3]) \/ SubsOf(c, x[3], c.id) # {}}]

setDrop(c, kind, i) ==
    Check(\E x \in Object(c, kind, i) : OriginHere(c, x[3]),
          Done(setDrop_int(c, kind, i), <<[type |-> "SET_DROP", kind |-> kind, obj |-> i]>>))

setMove_int(c, kind, i, s) ==
    LET old == Object(c, kind, i)
    IN  [c EXCEPT !.obj = (@ \ old) \cup {<<kind, i, s>> : x \in old}]

setMove(c, kind, i, s) ==
    Check(/\ OriginHere(c, s)
          /\ \E x \in Object(c, kind, i) :
                 /\ x[3] # s /\ OriginHere(c, x[3])
                 /\ Receivers(c, x[3]) = Receivers(c, s),
          Done(setMove_int(c, kind, i, s),
               <<Ev("SYNC"), [type |-> "SET_MOVE", kind |-> kind, obj |-> i, set |-> s]>>))

lockSet(c, s) ==
    Check(OriginHere(c, s) /\ s \notin c.locked,
          Done([c EXCEPT !.locked = @ \cup {s}], <<>>))

unlockSet(c, s) ==
    Check(OriginHere(c, s) /\ s \in c.locked,
          Done([c EXCEPT !.locked = @ \ {s}], <<>>))
-----------------------------------------------------------------------------
(* The origin of a set moves. *)

(* The nodes from the new origin up to the old one, along sub_provider. *)
Chain(c, s, old, new) ==
    LET up[n \in c.known, i \in 0 .. Cardinality(c.known)] ==
            IF n = old \/ i = 0 \/ SubsOf(c, s, n) = {} THEN <<n>>
            ELSE LET p == (CHOOSE x \in SubsOf(c, s, n) : TRUE).provider
                 IN  IF p \in c.known THEN <<n>> \o up[p, i - 1] ELSE <<n>>
    IN  up[new, Cardinality(c.known)]

(* Along that chain receiver and provider change places. *)
moveSet_int(c, s, old, new, wait) ==
    LET chain == Chain(c, s, old, new)
        index(n) == CHOOSE i \in 1 .. Len(chain) : chain[i] = n
        Turned(x) == IF x.set = s /\ \E i \in 2 .. Len(chain) : chain[i] = x.receiver
                     THEN [x EXCEPT !.provider = chain[index(x.receiver) - 1]] ELSE x
        subs == {Turned(x) : x \in c.sub \ SubsOf(c, s, new)} \cup
                {Subscription(s, chain[Len(chain) - 1], old, TRUE, TRUE)}
    IN  Check(/\ SubsOf(c, s, new) # {}
              /\ Len(chain) > 1 /\ chain[Len(chain)] = old
              /\ SubsOf(c, s, old) = {},
              Done(Rebuild([c EXCEPT !.sub = subs,
                                     !.set = {IF x[1] = s THEN <<s, new>> ELSE x : x \in @}]),
                   IF c.id = new
                   THEN <<Ev("SYNC"), [type |-> "ACCEPT_SET", set |-> s, old |-> old,
                                       new |-> new, wait |-> wait]>>
                   ELSE <<>>))

(* A mutant: the old origin waits for somebody else to move the set. *)
MoveSetElsewhere(c, s, new) ==
    LET Events(d) == Done(d, <<Ev("SYNC"), [type |-> "MOVE_SET", set |-> s, old |-> c.id,
                                            new |-> new]>>)
    IN  Check(\E x \in SubsOf(c, s, new) : x.active, Then(unlockSet(c, s), Events))

moveSet(c, s, new) ==
    LET Unlocked(d) == moveSet_int(d, s, c.id, new, 0)
        Events(d) == Done(d, <<Ev("SYNC"), [type |-> "MOVE_SET", set |-> s, old |-> c.id,
                                            new |-> new]>>)
    IN  Check(\E x \in SubsOf(c, s, new) : x.active,
              Then(Then(unlockSet(c, s), Unlocked), Events))
-----------------------------------------------------------------------------
(* Subscriptions. *)

(* A provider that changes for one set changes for all sets of that origin. *)
ChangeProvider(c, s, p, r, forward) ==
    LET others == {x \in c.sub : /\ x.receiver = r /\ x.set # s
                                 /\ SetKnown(c, x.set) /\ OriginOf(c, x.set) = OriginOf(c, s)}
        this   == SubsOf(c, s, r)
        new    == {[x EXCEPT !.provider = p] : x \in others} \cup
                  {[x EXCEPT !.provider = p, !.forward = forward] : x \in this}
        c1     == [c EXCEPT !.sub = (@ \ (others \cup this)) \cup new]
    IN  Check(\A x \in others : Provides(c1, x.set, p), Done(Rebuild(c1), <<>>))

subscribeSet_int(c, s, p, r, forward) ==
    LET new == [NeedPath(c, p, r) EXCEPT
                   !.sub = @ \cup {Subscription(s, p, r, forward, FALSE)}]
    IN  IF ~SetKnown(c, s) THEN Failure
        ELSE IF SubsOf(c, s, r) # {}
        THEN Check(r = c.id => \A x \in SubsOf(c, s, r) : x.active,
                   ChangeProvider(c, s, p, r, forward))
        ELSE IF OriginHere(c, s)
        THEN Done(enableSubscription_int(new, s, p, r),
                  <<[type |-> "ENABLE_SUBSCRIPTION", set |-> s, provider |-> p,
                     receiver |-> r, forward |-> forward]>>)
        ELSE Done(Rebuild(new), <<>>)

SubscribeEvent(s, p, r, forward) ==
    [type |-> "SUBSCRIBE_SET", set |-> s, provider |-> p, receiver |-> r,
     forward |-> forward]

(* All sets of an origin are subscribed through the same provider. *)
SameProvider(c, s, p, r) ==
    \A x \in c.sub : /\ x.receiver = r /\ x.set # s /\ SetKnown(c, x.set)
                     /\ OriginOf(c, x.set) = OriginOf(c, s)
                     => x.provider = p

subscribeSet(c, s, p, r, forward) ==
    LET Stored(d) == subscribeSet_int(d, s, p, r, forward)
    IN  IF /\ {p, r} \subseteq c.known /\ p # r
           /\ OriginHere(c, s) /\ r # c.id
           /\ Provides(c, s, p) /\ SameProvider(c, s, p, r)
        THEN Then(Done(c, <<SubscribeEvent(s, p, r, forward)>>), Stored)
        ELSE Failure

enableSubscription(c, s, p, r) == Done(enableSubscription_int(c, s, p, r), <<>>)

(* Called on the receiver.  The subscriptions through it go too: their nodes
   unsubscribe themselves when they hear of it. *)
unsubscribed(c, ss) ==
    Rebuild([c EXCEPT !.sub = {x \in @ : ~(x.set \in ss /\ c.id \in {x.provider, x.receiver})},
                      !.obj = {x \in @ : x[3] \notin ss}])

UnsubscribeEvent(s, r) == [type |-> "UNSUBSCRIBE_SET", set |-> s, receiver |-> r]

unsubscribeSet(c, s, r, force) ==
    Check(/\ r = c.id
          /\ force \/ \A x \in c.sub : ~(x.set = s /\ x.provider = r),
          Done(unsubscribed(c, {s}), <<UnsubscribeEvent(s, r)>>))

unsubscribeSet_int(c, s, r) ==
    LET Forget(d) == Done(Rebuild([d EXCEPT !.sub = {x \in @ : ~(x.set = s /\ x.receiver = r)}]),
                          <<>>)
    IN  IF \E x \in SubsOf(c, s, c.id) : x.provider = r
        THEN Then(unsubscribeSet(c, s, c.id, TRUE), Forget)
        ELSE Forget(c)

(* Every set of this origin that r subscribes to, in some order.  The search
   for sets that the provider does not offer never finds any: the list it
   appends to is null. *)
resubscribeNode(c, p, r) ==
    LET sets == {x.set : x \in {y \in c.sub : y.receiver = r /\ OriginHere(c, y.set)}}
        all[ss \in SUBSET sets] ==
            IF ss = {} THEN Done(c, <<>>)
            ELSE LET s == CHOOSE t \in ss : \A u \in ss : t >= u
                     f == (CHOOSE x \in SubsOf(c, s, r) : TRUE).forward
                     One(d) == Then(Done(d, <<SubscribeEvent(s, p, r, f)>>),
                                    LAMBDA e : subscribeSet_int(e, s, p, r, f))
                 IN  Then(all[ss \ {s}], One)
    IN  IF {p, r} \subseteq c.known THEN all[sets] ELSE Failure

(* On the receiver: the providers of its subscriptions to sets of origin o. *)
reshapeSubscription(c, o, p, r) ==
    LET mine == {x \in c.sub : x.receiver = r /\ <<x.set, o>> \in c.set}
    IN  IF mine = {} THEN c
        ELSE Rebuild([c EXCEPT !.sub = (@ \ mine) \cup {[x EXCEPT !.provider = p] : x \in mine}])
-----------------------------------------------------------------------------
(* Failover from node f. *)

(* sl_failover_targets: forwarding subscribers that use f directly for all of
   its sets and have a path to every node that has one to f. *)
failover_targets(c, f) ==
    LET sets == {x[1] : x \in {y \in c.set : y[2] = f}}
    IN  {n \in c.known :
            /\ sets # {}
            /\ \A s \in sets : \E x \in SubsOf(c, s, n) : x.forward /\ x.provider = f
            /\ \A p \in c.path : p[1] = f /\ p[2] # n => <<n, p[2]>> \in c.path}

(* The rows for paths to f lose their conninfo. *)
Blanked(c, f) == [c EXCEPT !.pending = @ \cup {p \in c.path : p[1] = f}]

(* A candidate subscribes to all sets, and forwards if it is not alone. *)
preFailover(c, f, candidate) ==
    Check(candidate => \A x \in c.set : x[2] = f =>
              \E y \in SubsOf(c, x[1], c.id) :
                  y.active /\ (y.forward \/ Receivers(c, x[1]) = {c.id}),
          Done(Blanked(c, f), <<>>))

(* Whoever got data from f gets it from b, which created FAILOVER_NODE. *)
failedNode(c, f, b, fs) ==
    LET Others(x) == x.provider = f /\ x.receiver \notin fs \cup {b}
        Mine(x) == <<x.set, f>> \in c.set /\ x.provider \in fs /\ x.receiver = c.id
        c1 == [Blanked(c, f) EXCEPT !.failed = IF f \in @ THEN @ ELSE @ \cup fs]
        c2 == [c1 EXCEPT !.sub = {IF Others(x) \/ Mine(x) THEN [x EXCEPT !.provider = b] ELSE x :
                                     x \in @}]
    IN  Done(IF c1 # c \/ \E x \in c.sub : Others(x) THEN Rebuild(c2) ELSE c2, <<>>)

(* seen is the last event of f that this node has. *)
failedNode2(c, f, seqno, fs, seen) ==
    Check(seqno \in 1 .. seen,
          Done(Rebuild([c EXCEPT !.failed = @ \cup fs]),
               <<[type |-> "FAILOVER_NODE", node |-> f, seqno |-> seqno, nodes |-> fs]>>))

(* A node that is ahead of the new origin drops its subscriptions, with a call
   of unsubscribeSet() for each set, in some order. *)
DropAhead(c, f) ==
    LET sets == {x[1] : x \in {y \in c.set : y[2] = f}}
    IN  Done(unsubscribed(c, sets), ForEach(sets, LAMBDA s : UnsubscribeEvent(s, c.id)))

failoverSet_int(c, f, b, seqno, seen) ==
    LET To(x, p) == [x EXCEPT !.provider = p]
        Redirected(d, x) == IF x.provider # f THEN x
                            ELSE IF x.receiver = b THEN To(x, OriginOf(d, x.set))
                            ELSE IF x.receiver \in d.failed THEN x ELSE To(x, b)
        Sets(d) == [d EXCEPT !.set = {IF x[2] = f THEN <<x[1], b>> ELSE x : x \in @},
                             !.sub = {x \in @ : ~(<<x.set, f>> \in d.set /\ x.receiver = b)}]
        Subs(d) == [d EXCEPT !.sub = {Redirected(d, x) : x \in @}, !.active = @ \ {f}]
        Finish(d) == Done(Rebuild(Subs(Sets(d))), <<>>)
    IN  Then(IF seen > seqno THEN DropAhead(c, f) ELSE Done(c, <<>>), Finish)
-----------------------------------------------------------------------------
(* The branches of remoteWorkerThread_main, one group after the other. *)

NodeEvent(c, e) ==
    CASE e.type = "STORE_NODE"  -> Done(storeNode_int(c, {e.node}), <<>>)
      [] e.type = "ENABLE_NODE" -> enableNode_int(c, e.node)
      [] e.type = "CLONE_NODE"  -> Done(cloneNodePrepare_int(c, e.node, e.provider), <<>>)
      [] e.type = "DROP_NODE"   -> Done(dropNode_int(c, e.nodes), <<>>)

PathEvent(c, e) ==
    CASE e.type = "STORE_PATH"   -> Done(storePath_int(c, e.server, e.client), <<>>)
      [] e.type = "DROP_PATH"    -> Done(dropPath_int(c, e.server, e.client), <<>>)
      [] e.type = "STORE_LISTEN" -> storeListen_int(c, e.origin, e.provider, e.receiver)
      [] e.type = "DROP_LISTEN"  -> Done(dropListen_int(c, e.origin, e.provider, e.receiver), <<>>)

SetEvent(c, e) ==
    CASE e.type = "STORE_SET" -> Done(storeSet_int(c, e.set, e.origin), <<>>)
      [] e.type = "DROP_SET"  -> Done(dropSet_int(c, e.set), <<>>)
      [] e.type = "MERGE_SET" -> Done(mergeSet_int(c, e.set, e.add), <<>>)

(* New tables matter to a subscriber only when it copies the set. *)
ObjectEvent(c, e) ==
    CASE e.type = "SET_ADD"  -> Done(c, <<>>)
      [] e.type = "SET_DROP" -> Done(setDrop_int(c, e.kind, e.obj), <<>>)
      [] e.type = "SET_MOVE" -> Done(setMove_int(c, e.kind, e.obj, e.set), <<>>)

(* The old origin has made the move itself. *)
MoveEvent(c, e, k) ==
    CASE e.type = "MOVE_SET"   -> moveSet_int(c, e.set, e.old, e.new, k)
      [] e.type = "ACCEPT_SET" -> Done(c, <<>>)

SubscriptionEvent(c, e) ==
    CASE e.type = "SUBSCRIBE_SET" ->
            subscribeSet_int(c, e.set, e.provider, e.receiver, e.forward)
      [] e.type = "ENABLE_SUBSCRIPTION" ->
            enableSubscription(c, e.set, e.provider, e.receiver)
      [] e.type = "UNSUBSCRIBE_SET" -> unsubscribeSet_int(c, e.set, e.receiver)

EventResult(c, e, k) ==
    CASE e.type = "SYNC" -> Done(c, <<>>)
      [] e.type \in {"STORE_NODE", "ENABLE_NODE", "CLONE_NODE", "DROP_NODE"} -> NodeEvent(c, e)
      [] e.type \in {"STORE_PATH", "DROP_PATH", "STORE_LISTEN", "DROP_LISTEN"} -> PathEvent(c, e)
      [] e.type \in {"STORE_SET", "DROP_SET", "MERGE_SET"} -> SetEvent(c, e)
      [] e.type \in {"SET_ADD", "SET_DROP", "SET_MOVE"} -> ObjectEvent(c, e)
      [] e.type \in {"MOVE_SET", "ACCEPT_SET"} -> MoveEvent(c, e, k)
      [] OTHER -> SubscriptionEvent(c, e)
=============================================================================
