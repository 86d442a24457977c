--------------------------- MODULE SlonDaemonProofs ---------------------------
(***************************************************************************)
(* The threads of a slon and the configuration they share: a node never    *)
(* has two remote listeners, and a remote listener that has seen the       *)
(* current cfgseq selects exactly what it is to listen for, for every      *)
(* cluster, whatever happens in it, and for any number of crashes, signals *)
(* and restarts.                                                           *)
(***************************************************************************)
EXTENDS SlonDaemon, TLAPS

-----------------------------------------------------------------------------
(* The inductive invariant. *)

MemoryFields == {"node", "active", "path", "listen", "set", "worker", "status", "thread",
                 "stale", "ok"}

(* listen_status tells whether there is a thread, and a thread whose status is
   DONE is gone.  One that is to leave, or to stay after all, is still there. *)
HasThread == {"RUNNING", "SHUTDOWN", "RESTART"}
HasNone == {"NONE", "DONE"}

GoodMemory(m) ==
    /\ DOMAIN m = MemoryFields
    /\ DOMAIN m.status = Node /\ DOMAIN m.thread = Node
    /\ \A n \in Node : \/ m.status[n] \in HasThread /\ m.thread[n] = 1
                       \/ m.status[n] \in HasNone /\ m.thread[n] = 0

(* There are workers, connections and enabled nodes only for nodes in the list. *)
Contained(m) == m.worker \cup m.active \cup m.path \subseteq m.node

DaemonInv ==
    /\ GoodMemory(mem)
    /\ DOMAIN hear = Other
    /\ \A p \in Other : DOMAIN hear[p] = {"from", "leaving"}
    /\ ListenerInformed

(* A call that succeeds never shortens the list. *)
Grows(m, k) == k.ok => m.ok /\ (Contained(m) => Contained(k) /\ m.node \subseteq k.node)

(* How a call changes the configuration: for a listener that need not look at it
   again there is nothing to see. *)
Follows(m, k) ==
    /\ GoodMemory(k) /\ Grows(m, k)
    /\ \A n \in Node \ k.stale : /\ n \notin m.stale /\ k.thread[n] = m.thread[n]
                                 /\ k.active = m.active /\ k.listen = m.listen

-----------------------------------------------------------------------------
(* The operations of runtime_config.c. *)

LEMMA FollowsTransitive ==
    ASSUME NEW m, NEW k, NEW l, Follows(m, k), Follows(k, l)
    PROVE  Follows(m, l)
<1>1. Grows(m, l)
  <2> SUFFICES ASSUME l.ok PROVE m.ok /\ (Contained(m) => Contained(l) /\ m.node \subseteq l.node)
    BY Zenon DEF Grows
  <2>1. k.ok /\ (Contained(k) => Contained(l) /\ k.node \subseteq l.node)
    BY Zenon DEF Follows, Grows
  <2>2. m.ok /\ (Contained(m) => Contained(k) /\ m.node \subseteq k.node)
    BY <2>1, Zenon DEF Follows, Grows
  <2> QED
    BY <2>1, <2>2, Zenon
<1> QED
  BY <1>1, Zenon DEF Follows

LEMMA FollowsItself == ASSUME NEW m, GoodMemory(m) PROVE Follows(m, m)
BY Zenon DEF Follows, Grows

(* An operation that has increased cfgseq, and left the threads alone. *)
LEMMA Bumped ==
    ASSUME NEW m, GoodMemory(m), NEW k, DOMAIN k = MemoryFields,
           k.status = m.status, k.thread = m.thread, k.stale = Node, Grows(m, k)
    PROVE  Follows(m, k)
BY Zenon DEF Follows, GoodMemory

LEMMA FatalFollows == ASSUME NEW m, GoodMemory(m) PROVE Follows(m, Fatal(m))
<1>1. /\ DOMAIN Fatal(m) = MemoryFields /\ Fatal(m).ok = FALSE
      /\ Fatal(m).status = m.status /\ Fatal(m).thread = m.thread /\ Fatal(m).stale = m.stale
      /\ Fatal(m).active = m.active /\ Fatal(m).listen = m.listen
  BY DEF GoodMemory, Fatal, MemoryFields
<1> QED
  BY <1>1, Zenon DEF Follows, Grows, GoodMemory

LEMMA StartStopFollows ==
    ASSUME NEW m, GoodMemory(m), NEW n
    PROVE  Follows(m, startStopNodeThread(m, n))
<1> DEFINE new   == NextStatus(NeedListen(m, n), m.status[n])
           start == new = "RUNNING" /\ m.status[n] # "RUNNING"
           k     == startStopNodeThread(m, n)
<1>1. /\ DOMAIN k = MemoryFields /\ k.active = m.active /\ k.listen = m.listen
      /\ k.status = [m.status EXCEPT ![n] = new]
      /\ k.thread = [m.thread EXCEPT ![n] = IF start THEN @ + 1 ELSE @]
      /\ k.stale = IF start THEN m.stale \cup {n} ELSE m.stale
  BY DEF startStopNodeThread, GoodMemory, MemoryFields
<1>w. /\ k.ok = m.ok /\ k.node = m.node /\ k.path = m.path /\ k.active = m.active
      /\ k.worker = IF n \in m.active THEN m.worker \cup {n} ELSE m.worker
  BY DEF startStopNodeThread, GoodMemory, MemoryFields
<1>2. n \in Node => \/ new \in HasThread /\ m.thread[n] = 1 /\ ~start
                    \/ new = "RUNNING" /\ m.thread[n] = 0 /\ start
                    \/ new \in HasNone /\ m.thread[n] = 0 /\ ~start
  BY DEF NextStatus, GoodMemory, HasThread, HasNone
<1> HIDE DEF new, start, k
<1>3. \A x \in Node : k.status[x] = IF x = n THEN new ELSE m.status[x]
  BY <1>1, Zenon DEF GoodMemory
<1>4. \A x \in Node : k.thread[x] = IF x = n /\ start THEN m.thread[n] + 1 ELSE m.thread[x]
  BY <1>1, Zenon DEF GoodMemory
<1>5. GoodMemory(k)
  BY <1>1, <1>2, <1>3, <1>4 DEF GoodMemory, HasThread, HasNone
<1>6. \A x \in Node \ k.stale : x \notin m.stale /\ k.thread[x] = m.thread[x]
  BY <1>1, <1>4, Zenon
<1>7. Grows(m, k)
  BY <1>w, Zenon DEF Grows, Contained
<1> QED
  BY <1>1, <1>5, <1>6, <1>7, Zenon DEF Follows, k

(* The loops over nodes. *)
LEMMA StartStopAllFollows ==
    ASSUME NEW m, GoodMemory(m), NEW ns
    PROVE  Follows(m, startStopNodeThreads(m, ns))
<1> DEFINE new(n)   == NextStatus(NeedListen(m, n), m.status[n])
           start(n) == n \in ns /\ new(n) = "RUNNING" /\ m.status[n] # "RUNNING"
           k        == startStopNodeThreads(m, ns)
<1>1. /\ DOMAIN k = MemoryFields /\ k.active = m.active /\ k.listen = m.listen
      /\ k.status = [n \in Node |-> IF n \in ns THEN new(n) ELSE m.status[n]]
      /\ k.thread = [n \in Node |-> IF start(n) THEN m.thread[n] + 1 ELSE m.thread[n]]
      /\ k.stale = m.stale \cup {n \in Node : start(n)}
  BY DEF startStopNodeThreads, GoodMemory, MemoryFields
<1>w. /\ k.ok = m.ok /\ k.node = m.node /\ k.path = m.path /\ k.active = m.active
      /\ k.worker = m.worker \cup (ns \cap m.active)
  BY DEF startStopNodeThreads, GoodMemory, MemoryFields
<1>2. \A n \in Node : \/ new(n) \in HasThread /\ m.thread[n] = 1 /\ ~start(n)
                      \/ new(n) = "RUNNING" /\ m.thread[n] = 0 /\ (n \in ns => start(n))
                      \/ new(n) \in HasNone /\ m.thread[n] = 0 /\ ~start(n)
  BY DEF NextStatus, GoodMemory, HasThread, HasNone
<1>3. \A n \in Node : start(n) => n \in ns
  BY Zenon
<1> HIDE DEF new, start, k
<1>4. \A x \in Node : k.status[x] = IF x \in ns THEN new(x) ELSE m.status[x]
  BY <1>1, Zenon
<1>5. \A x \in Node : k.thread[x] = IF start(x) THEN m.thread[x] + 1 ELSE m.thread[x]
  BY <1>1, Zenon
<1>6. GoodMemory(k)
  <2>1. DOMAIN k.status = Node /\ DOMAIN k.thread = Node
    BY <1>1, Zenon
  <2>2. ASSUME NEW x \in Node
        PROVE  \/ k.status[x] \in HasThread /\ k.thread[x] = 1
               \/ k.status[x] \in HasNone /\ k.thread[x] = 0
    BY <1>2, <1>3, <1>4, <1>5 DEF GoodMemory, HasThread, HasNone
  <2> QED
    BY <1>1, <2>1, <2>2, Zenon DEF GoodMemory
<1>7. \A x \in Node \ k.stale : x \notin m.stale /\ k.thread[x] = m.thread[x]
  BY <1>1, <1>5, Zenon
<1>8. Grows(m, k)
  BY <1>w, Zenon DEF Grows, Contained
<1> QED
  BY <1>1, <1>6, <1>7, <1>8, Zenon DEF Follows, k

(* A configuration that differs in nodes, paths, listens or sets, with cfgseq
   increased, and then a thread started or stopped. *)
LEMMA BumpedFollows ==
    ASSUME NEW m, GoodMemory(m), NEW k, DOMAIN k = MemoryFields,
           k.status = m.status, k.thread = m.thread, Grows(m, k)
    PROVE  /\ Follows(m, Bump(k))
           /\ \A n : Follows(m, startStopNodeThread(Bump(k), n))
           /\ \A ns : Follows(m, startStopNodeThreads(Bump(k), ns))
<1>1. /\ DOMAIN Bump(k) = MemoryFields /\ Bump(k).stale = Node
      /\ Bump(k).status = m.status /\ Bump(k).thread = m.thread
  BY DEF Bump, MemoryFields
<1>g. Grows(m, Bump(k))
  <2>1. /\ Bump(k).ok = k.ok /\ Bump(k).node = k.node /\ Bump(k).path = k.path
        /\ Bump(k).active = k.active /\ Bump(k).worker = k.worker
    BY DEF Bump, MemoryFields
  <2> QED
    BY <2>1, Zenon DEF Grows, Contained
<1>2. Follows(m, Bump(k))
  BY <1>1, <1>g, Bumped, Zenon
<1>3. GoodMemory(Bump(k))
  BY <1>2, Zenon DEF Follows
<1> QED
  BY <1>2, <1>3, StartStopFollows, StartStopAllFollows, FollowsTransitive, Zenon

LEMMA NodeCallsFollow ==
    ASSUME NEW m, GoodMemory(m), NEW n
    PROVE  /\ Follows(m, rtcfg_storeNode(m, n))
           /\ Follows(m, rtcfg_enableNode(m, n))
           /\ Follows(m, rtcfg_disableNode(m, n))
           /\ Follows(m, DisableNodes(m, n))
           /\ Follows(m, rtcfg_enableNode(rtcfg_storeNode(m, n), n))
<1> DEFINE Enabled(k) == [k EXCEPT !.active = @ \cup {n}]
           stored == [m EXCEPT !.node = @ \cup {n}]
           without == [m EXCEPT !.active = @ \ {n}]
           withoutAll == [m EXCEPT !.active = @ \ n]
<1>1. ASSUME NEW k, GoodMemory(k) PROVE Follows(k, rtcfg_enableNode(k, n))
  <2>1. /\ DOMAIN Enabled(k) = MemoryFields
        /\ Enabled(k).status = k.status /\ Enabled(k).thread = k.thread
        /\ Enabled(k).ok = k.ok /\ Enabled(k).node = k.node /\ Enabled(k).path = k.path
        /\ Enabled(k).worker = k.worker /\ Enabled(k).active = k.active \cup {n}
    BY <1>1 DEF GoodMemory, MemoryFields
  <2> HIDE DEF Enabled
  <2>2. ASSUME n \in k.node PROVE Follows(k, startStopNodeThread(Bump(Enabled(k)), n))
    <3>1. Grows(k, Enabled(k))
      BY <2>1, <2>2, Zenon DEF Grows, Contained
    <3> QED
      BY <1>1, <2>1, <3>1, BumpedFollows, Zenon
  <2> QED
    BY <1>1, <2>2, FatalFollows, Zenon DEF rtcfg_enableNode, Enabled
<1>2. Follows(m, rtcfg_storeNode(m, n))
  <2>1. /\ DOMAIN stored = MemoryFields /\ stored.status = m.status /\ stored.thread = m.thread
        /\ stored.ok = m.ok /\ stored.node = m.node \cup {n} /\ stored.path = m.path
        /\ stored.worker = m.worker /\ stored.active = m.active
    BY DEF GoodMemory, MemoryFields
  <2> HIDE DEF stored
  <2>g. Grows(m, stored)
    BY <2>1, Zenon DEF Grows, Contained
  <2>2. Follows(m, Bump(stored))
    BY <2>1, <2>g, BumpedFollows, Zenon
  <2> QED
    BY <2>2, FollowsItself, Zenon DEF rtcfg_storeNode, stored
<1>3. Follows(m, rtcfg_disableNode(m, n))
  <2>1. /\ DOMAIN without = MemoryFields /\ without.status = m.status /\ without.thread = m.thread
        /\ without.ok = m.ok /\ without.node = m.node /\ without.path = m.path
        /\ without.worker = m.worker /\ without.active = m.active \ {n}
    BY DEF GoodMemory, MemoryFields
  <2> HIDE DEF without
  <2>g. Grows(m, without)
    BY <2>1, Zenon DEF Grows, Contained
  <2>2. Follows(m, Bump(without))
    BY <2>1, <2>g, BumpedFollows, Zenon
  <2> QED
    BY <2>2, FatalFollows, Zenon DEF rtcfg_disableNode, without
<1>4. Follows(m, DisableNodes(m, n))
  <2>1. /\ DOMAIN withoutAll = MemoryFields
        /\ withoutAll.status = m.status /\ withoutAll.thread = m.thread
        /\ withoutAll.ok = m.ok /\ withoutAll.node = m.node /\ withoutAll.path = m.path
        /\ withoutAll.worker = m.worker /\ withoutAll.active = m.active \ n
    BY DEF GoodMemory, MemoryFields
  <2> HIDE DEF withoutAll
  <2>g. Grows(m, withoutAll)
    BY <2>1, Zenon DEF Grows, Contained
  <2>2. Follows(m, Bump(withoutAll))
    BY <2>1, <2>g, BumpedFollows, Zenon
  <2> QED
    BY <2>2, FatalFollows, FollowsItself, Zenon DEF DisableNodes, withoutAll
<1>5. GoodMemory(rtcfg_storeNode(m, n))
  BY <1>2, Zenon DEF Follows
<1> QED
  BY <1>1, <1>2, <1>3, <1>4, <1>5, FollowsTransitive, Zenon

LEMMA PathCallsFollow ==
    ASSUME NEW m, GoodMemory(m), NEW s
    PROVE  /\ Follows(m, rtcfg_storePath(m, s))
           /\ Follows(m, rtcfg_dropPath(m, s))
<1> DEFINE stored(k) == [k EXCEPT !.path = @ \cup {s}]
           dropped == [m EXCEPT !.path = @ \ {s}, !.listen = {e \in @ : e[2] # s}]
<1>1. Follows(m, rtcfg_storePath(m, s))
  <2>1. PICK k : k = rtcfg_storeNode(m, s)
    BY Zenon
  <2>2. Follows(m, k)
    BY <2>1, NodeCallsFollow, Zenon
  <2>g. GoodMemory(k)
    BY <2>2, Zenon DEF Follows
  <2>3. /\ DOMAIN stored(k) = MemoryFields
        /\ stored(k).status = k.status /\ stored(k).thread = k.thread
        /\ stored(k).ok = k.ok /\ stored(k).node = k.node /\ stored(k).path = k.path \cup {s}
        /\ stored(k).worker = k.worker /\ stored(k).active = k.active
    BY <2>g DEF GoodMemory, MemoryFields
  <2> HIDE DEF stored
  <2>n. s \in k.node
    BY <2>1 DEF rtcfg_storeNode, Bump, GoodMemory, MemoryFields
  <2>s. Grows(k, stored(k))
    BY <2>3, <2>n, Zenon DEF Grows, Contained
  <2>4. Follows(k, startStopNodeThread(Bump(stored(k)), s))
    BY <2>g, <2>3, <2>s, BumpedFollows, Zenon
  <2> QED
    BY <2>1, <2>2, <2>4, FollowsTransitive, Zenon DEF rtcfg_storePath, stored
<1>2. Follows(m, rtcfg_dropPath(m, s))
  <2>1. /\ DOMAIN dropped = MemoryFields
        /\ dropped.status = m.status /\ dropped.thread = m.thread
        /\ dropped.ok = m.ok /\ dropped.node = m.node /\ dropped.path = m.path \ {s}
        /\ dropped.worker = m.worker /\ dropped.active = m.active
    BY DEF GoodMemory, MemoryFields
  <2> HIDE DEF dropped
  <2>g. Grows(m, dropped)
    BY <2>1, Zenon DEF Grows, Contained
  <2>2. Follows(m, startStopNodeThread(Bump(dropped), s))
    BY <2>1, <2>g, BumpedFollows, Zenon
  <2> QED
    BY <2>2, FollowsItself, Zenon DEF rtcfg_dropPath, dropped
<1> QED
  BY <1>1, <1>2, Zenon

LEMMA ListenCallsFollow ==
    ASSUME NEW m, GoodMemory(m)
    PROVE  /\ \A o, p : Follows(m, rtcfg_storeListen(m, o, p)) /\ Follows(m, rtcfg_dropListen(m, o, p))
           /\ Follows(m, ClearListen(m))
           /\ \A rows : Follows(m, StoreListens(m, rows))
<1> DEFINE With(l) == [m EXCEPT !.listen = l]
<1>1. \A l : Follows(m, Bump(With(l))) /\ \A n : /\ Follows(m, startStopNodeThread(Bump(With(l)), n))
                                                 /\ Follows(m, startStopNodeThreads(Bump(With(l)), n))
  <2> SUFFICES ASSUME NEW l
               PROVE  Follows(m, Bump(With(l))) /\ \A n : /\ Follows(m, startStopNodeThread(Bump(With(l)), n))
                                                        /\ Follows(m, startStopNodeThreads(Bump(With(l)), n))
    BY Zenon
  <2>1. /\ DOMAIN With(l) = MemoryFields
        /\ With(l).status = m.status /\ With(l).thread = m.thread
        /\ With(l).ok = m.ok /\ With(l).node = m.node /\ With(l).path = m.path
        /\ With(l).worker = m.worker /\ With(l).active = m.active
    BY DEF GoodMemory, MemoryFields
  <2> HIDE DEF With
  <2>2. Grows(m, With(l))
    BY <2>1, Zenon DEF Grows, Contained
  <2> QED
    BY <2>1, <2>2, BumpedFollows, Zenon
<1>2. \A o, p : Follows(m, rtcfg_storeListen(m, o, p)) /\ Follows(m, rtcfg_dropListen(m, o, p))
  <2> SUFFICES ASSUME NEW o, NEW p
               PROVE  /\ Follows(m, rtcfg_storeListen(m, o, p))
                      /\ Follows(m, rtcfg_dropListen(m, o, p))
    BY Zenon
  <2>1. /\ Follows(m, startStopNodeThread(Bump(With(m.listen \cup {<<o, p>>})), p))
        /\ Follows(m, startStopNodeThread(Bump(With(m.listen \ {<<o, p>>})), p))
    BY <1>1, Zenon
  <2> QED
    BY <2>1, FatalFollows, FollowsItself, Zenon DEF rtcfg_storeListen, rtcfg_dropListen
<1>3. Follows(m, ClearListen(m))
  BY <1>1, Zenon DEF ClearListen
<1>4. ASSUME NEW rows PROVE Follows(m, StoreListens(m, rows))
  <2> DEFINE new == rows \ m.listen
             stored == startStopNodeThreads(Bump(With(m.listen \cup new)), {e[2] : e \in new})
             k == IF new = {} THEN m ELSE stored
  <2>1. Follows(m, stored)
    BY <1>1, Zenon
  <2>2. Follows(m, k)
    BY <2>1, FollowsItself, Zenon
  <2>3. StoreListens(m, rows) = Fatal(m) \/ StoreListens(m, rows) = startStopNodeThreads(k, m.node)
    BY Zenon DEF StoreListens
  <2> HIDE DEF k
  <2>4. GoodMemory(k)
    BY <2>2, Zenon DEF Follows
  <2>5. Follows(m, startStopNodeThreads(k, m.node))
    BY <2>2, <2>4, StartStopAllFollows, FollowsTransitive, Zenon
  <2> QED
    BY <2>3, <2>5, FatalFollows, Zenon
<1> QED
  BY <1>2, <1>3, <1>4, Zenon

LEMMA ActivateFollows ==
    ASSUME NEW m, GoodMemory(m), NEW ns
    PROVE  Follows(m, DoActivate(m, ns))
<1> DEFINE on == [m EXCEPT !.active = @ \cup ns]
<1>1. /\ DOMAIN on = MemoryFields /\ on.status = m.status /\ on.thread = m.thread
      /\ on.ok = m.ok /\ on.node = m.node /\ on.path = m.path
      /\ on.worker = m.worker /\ on.active = m.active \cup ns
  BY DEF GoodMemory, MemoryFields
<1> HIDE DEF on
<1>2. Follows(m, startStopNodeThreads(m, ns))
  BY StartStopAllFollows, Zenon
<1>3. ASSUME ns \subseteq m.node PROVE Follows(m, startStopNodeThreads(Bump(on), ns))
  <2>1. Grows(m, on)
    BY <1>1, <1>3, Zenon DEF Grows, Contained
  <2> QED
    BY <1>1, <2>1, BumpedFollows, Zenon
<1> QED
  BY <1>2, <1>3, FatalFollows, Zenon DEF DoActivate, on

(* Sets do not matter to listeners. *)
LEMMA SetCallsFollow ==
    ASSUME NEW m, GoodMemory(m)
    PROVE  /\ \A s, o : Follows(m, rtcfg_storeSet(m, s, o))
           /\ \A s : Follows(m, rtcfg_dropSet(m, s)) /\ Follows(m, rtcfg_unsubscribeSet(m, s))
           /\ \A self, s, old, new, p : Follows(m, rtcfg_moveSet(m, self, s, old, new, p))
           /\ \A s, p, f : /\ Follows(m, rtcfg_storeSubscribe(m, s, p, f))
                           /\ Follows(m, rtcfg_enableSubscription(m, s, p, f))
           /\ \A c : Follows(m, rtcfg_reloadSets(m, c))
<1> DEFINE With(l) == [m EXCEPT !.set = l]
<1>1. ASSUME NEW l PROVE Follows(m, Bump(With(l))) /\ Follows(m, With(l))
  <2>1. /\ DOMAIN With(l) = MemoryFields /\ With(l).status = m.status /\ With(l).thread = m.thread
        /\ With(l).stale = m.stale /\ With(l).active = m.active /\ With(l).listen = m.listen
        /\ With(l).ok = m.ok /\ With(l).node = m.node /\ With(l).path = m.path
        /\ With(l).worker = m.worker
    BY DEF GoodMemory, MemoryFields
  <2> HIDE DEF With
  <2>g. Grows(m, With(l))
    BY <2>1, Zenon DEF Grows, Contained
  <2>2. Follows(m, Bump(With(l)))
    BY <2>1, <2>g, BumpedFollows, Zenon
  <2> QED
    BY <2>1, <2>2, <2>g, Zenon DEF Follows, GoodMemory
<1>2. \A s, o : Follows(m, rtcfg_storeSet(m, s, o))
  BY <1>1, FatalFollows, Zenon DEF rtcfg_storeSet, ChangeSet
<1>3. \A s : Follows(m, rtcfg_dropSet(m, s)) /\ Follows(m, rtcfg_unsubscribeSet(m, s))
  BY <1>1, FatalFollows, FollowsItself, Zenon DEF rtcfg_dropSet, rtcfg_unsubscribeSet, ChangeSet
<1>4. \A self, s, old, new, p : Follows(m, rtcfg_moveSet(m, self, s, old, new, p))
  BY <1>1, FatalFollows, Zenon DEF rtcfg_moveSet, ChangeSet
<1>5. \A s, p, f : /\ Follows(m, rtcfg_storeSubscribe(m, s, p, f))
                   /\ Follows(m, rtcfg_enableSubscription(m, s, p, f))
  BY <1>1, FatalFollows, Zenon DEF rtcfg_storeSubscribe, rtcfg_enableSubscription, ChangeSet
<1>6. \A c : Follows(m, rtcfg_reloadSets(m, c))
  BY <1>1, Zenon DEF rtcfg_reloadSets
<1> QED
  BY <1>2, <1>3, <1>4, <1>5, <1>6, Zenon

(* What the remote workers and the local listener do to it. *)
LEMMA EffectsFollow ==
    ASSUME NEW m, GoodMemory(m), NEW e, NEW c
    PROVE  /\ Follows(m, WorkerEffect(m, e, c))
           /\ Follows(m, ListenerEffect(m, e, c))
<1>1. ASSUME e.type \in PathTypes PROVE Follows(m, PathEffect(m, e))
  BY <1>1, PathCallsFollow, ListenCallsFollow, FollowsItself, Zenon DEF PathEffect, PathTypes, If
<1>2. ASSUME e.type \in SetTypes PROVE Follows(m, SetEffect(m, e, c))
  BY <1>2, SetCallsFollow, FollowsItself, Zenon DEF SetEffect, SetTypes, If
<1>3. Follows(m, WorkerEffect(m, e, c))
  BY <1>1, <1>2, NodeCallsFollow, SetCallsFollow, FollowsItself, Zenon DEF WorkerEffect, If
<1>4. Follows(m, ListenerEffect(m, e, c))
  BY <1>1, <1>2, NodeCallsFollow, SetCallsFollow, FatalFollows, FollowsItself, Zenon
     DEF ListenerEffect, If, SetTypes
<1> QED
  BY <1>3, <1>4, Zenon
-----------------------------------------------------------------------------
(* The steps. *)

(* A call in some thread. *)
LEMMA CallKeepsInv ==
    ASSUME DaemonInv, Follows(mem, mem'), UNCHANGED hear
    PROVE  DaemonInv'
<1>1. GoodMemory(mem)' /\ GoodMemory(mem')
  BY Zenon DEF Follows, GoodMemory
<1>2. ASSUME NEW p \in Other, mem'.thread[p] = 1, p \notin mem'.stale, ~hear[p].leaving
      PROVE  hear[p].from = {o \in mem'.active : <<o, p>> \in mem'.listen}
  <2>1. p \in Node \ mem'.stale
    BY <1>2, Zenon DEF Other
  <2>2. /\ p \notin mem.stale /\ mem.thread[p] = 1
        /\ mem'.active = mem.active /\ mem'.listen = mem.listen
    BY <1>2, <2>1, Zenon DEF Follows
  <2> QED
    BY <1>2, <2>2, Zenon DEF DaemonInv, ListenerInformed
<1> QED
  BY <1>1, <1>2, Zenon DEF DaemonInv, ListenerInformed

(* A configuration without threads. *)
LEMMA LoadKeepsInv ==
    ASSUME NEW c, mem' = LoadConfig(c), DOMAIN hear' = Other,
           \A p \in Other : DOMAIN hear'[p] = {"from", "leaving"}
    PROVE  DaemonInv'
<1>1. /\ DOMAIN mem' = MemoryFields /\ mem'.status = [n \in Node |-> "NONE"]
      /\ mem'.thread = [n \in Node |-> 0]
  BY DEF LoadConfig, MemoryFields
<1>2. \A n \in Node : mem'.status[n] = "NONE" /\ mem'.thread[n] = 0 /\ mem'.thread[n] # 1
  BY <1>1
<1>3. GoodMemory(mem)'
  BY <1>1, <1>2, Zenon DEF GoodMemory, HasNone
<1> QED
  BY <1>2, <1>3, Zenon DEF DaemonInv, ListenerInformed, Other

LEMMA LookKeepsInv ==
    ASSUME DaemonInv, NEW p \in Other, Look(p)
    PROVE  DaemonInv'
<1>0. p \in Node
  BY Zenon DEF Other
<1>1. CASE hear' = [hear EXCEPT ![p].leaving = TRUE] /\ UNCHANGED mem
  <2>1. /\ DOMAIN hear' = Other /\ hear'[p].leaving
        /\ \A q \in Other : DOMAIN hear'[q] = {"from", "leaving"} /\ (q # p => hear'[q] = hear[q])
    BY <1>1 DEF DaemonInv
  <2> QED
    BY <1>1, <2>1, Zenon DEF DaemonInv, ListenerInformed, GoodMemory
<1>2. CASE /\ hear' = [hear EXCEPT ![p].from = {o \in mem.active : <<o, p>> \in mem.listen}]
           /\ mem' = [mem EXCEPT !.status[p] = "RUNNING", !.stale = @ \ {p}]
           /\ mem.thread[p] > 0
  <2>1. /\ DOMAIN hear' = Other
        /\ hear'[p].from = {o \in mem.active : <<o, p>> \in mem.listen}
        /\ \A q \in Other : DOMAIN hear'[q] = {"from", "leaving"} /\ (q # p => hear'[q] = hear[q])
    BY <1>2 DEF DaemonInv
  <2>2. /\ DOMAIN mem' = MemoryFields /\ mem'.status = [mem.status EXCEPT ![p] = "RUNNING"]
        /\ mem'.thread = mem.thread /\ mem'.stale = mem.stale \ {p}
        /\ mem'.active = mem.active /\ mem'.listen = mem.listen
    BY <1>2 DEF DaemonInv, GoodMemory, MemoryFields
  <2>3. mem.thread[p] = 1
    BY <1>0, <1>2 DEF DaemonInv, GoodMemory
  <2>4. \A n \in Node : mem'.status[n] = IF n = p THEN "RUNNING" ELSE mem.status[n]
    BY <2>2, Zenon DEF DaemonInv, GoodMemory
  <2>5. GoodMemory(mem)'
    BY <2>2, <2>3, <2>4, Zenon DEF DaemonInv, GoodMemory, HasThread
  <2>6. ListenerInformed'
    BY <2>1, <2>2, ZenonT(40) DEF DaemonInv, ListenerInformed
  <2> QED
    BY <2>1, <2>5, <2>6, Zenon DEF DaemonInv
<1> QED
  BY <1>1, <1>2, Zenon DEF Look

LEMMA LeaveKeepsInv ==
    ASSUME DaemonInv, NEW p \in Other, Leave(p)
    PROVE  DaemonInv'
<1>0. p \in Node
  BY Zenon DEF Other
<1>1. /\ DOMAIN hear' = Other
      /\ \A q \in Other : DOMAIN hear'[q] = {"from", "leaving"} /\ (q # p => hear'[q] = hear[q])
  BY DEF Leave, DaemonInv, Deaf
<1>2. /\ DOMAIN mem' = MemoryFields /\ mem'.status = [mem.status EXCEPT ![p] = "DONE"]
      /\ mem'.thread = [mem.thread EXCEPT ![p] = @ - 1] /\ mem'.stale = mem.stale
      /\ mem'.active = mem.active /\ mem'.listen = mem.listen
  BY DEF Leave, DaemonInv, GoodMemory, MemoryFields
<1>3. mem.thread[p] - 1 = 0
  BY <1>0 DEF Leave, DaemonInv, GoodMemory
<1>4. /\ \A n \in Node : mem'.status[n] = IF n = p THEN "DONE" ELSE mem.status[n]
      /\ \A n \in Node : mem'.thread[n] = IF n = p THEN 0 ELSE mem.thread[n]
  BY <1>2, <1>3, Zenon DEF DaemonInv, GoodMemory
<1>5. DOMAIN mem'.status = Node /\ DOMAIN mem'.thread = Node
  BY <1>2, Zenon DEF DaemonInv, GoodMemory
<1>6. GoodMemory(mem)'
  BY <1>2, <1>4, <1>5, Zenon DEF DaemonInv, GoodMemory, HasNone
<1>7. ListenerInformed'
  <2>1. mem'.thread[p] # 1
    BY <1>0, <1>4
  <2>2. \A q \in Other : q # p => mem'.thread[q] = mem.thread[q]
    BY <1>4, Zenon DEF Other
  <2> QED
    BY <1>1, <1>2, <2>1, <2>2, ZenonT(40) DEF DaemonInv, ListenerInformed
<1> QED
  BY <1>1, <1>6, <1>7, Zenon DEF DaemonInv

LEMMA EndKeepsInv ==
    ASSUME NEW pc, End(pc)
    PROVE  DaemonInv'
<1>1. \A p \in Other : DOMAIN hear'[p] = {"from", "leaving"}
  BY DEF End, Deaf
<1>2. DOMAIN hear' = Other
  BY Zenon DEF End
<1> QED
  BY <1>1, <1>2, LoadKeepsInv, Zenon DEF End, NoMemory

(* Everything else leaves the memory and what listeners select alone. *)
LEMMA OthersKeepInv ==
    ASSUME DaemonInv, UNCHANGED <<mem, hear>>
    PROVE  DaemonInv'
BY FollowsItself, CallKeepsInv, Zenon DEF DaemonInv

LEMMA MainThreadKeepsInv ==
    ASSUME DaemonInv, MainThread
    PROVE  DaemonInv'
<1>1. ASSUME Load PROVE DaemonInv'
  BY <1>1, LoadKeepsInv, Zenon DEF Load, DaemonInv
<1>2. ASSUME Activate PROVE DaemonInv'
  BY <1>2, ActivateFollows, CallKeepsInv, Zenon DEF Activate, DaemonInv
<1>3. ASSUME Listen \/ ObtainLock \/ LockTaken PROVE DaemonInv'
  BY <1>3, OthersKeepInv, Zenon DEF Listen, ObtainLock, LockTaken
<1> QED
  BY <1>1, <1>2, <1>3, Zenon DEF MainThread

LEMMA LocalListenerKeepsInv ==
    ASSUME DaemonInv, LocalListener
    PROVE  DaemonInv'
<1>g. GoodMemory(mem)
  BY Zenon DEF DaemonInv
<1>1. ASSUME ApplyEvent PROVE DaemonInv'
  <2> DEFINE e == event[slon.last + 1]
             m == ListenerEffect(mem, e, ll.snap)
  <2>1. Follows(mem, m)
    BY <1>g, EffectsFollow, Zenon
  <2>2. GoodMemory(m)
    BY <2>1, Zenon DEF Follows
  <2>3. UNCHANGED hear /\ (mem' = mem \/ mem' = m \/ mem' = ClearListen(m))
    BY <1>1, Zenon DEF ApplyEvent
  <2> HIDE DEF m
  <2>4. Follows(mem, ClearListen(m))
    BY <2>1, <2>2, ListenCallsFollow, FollowsTransitive, Zenon
  <2> QED
    BY <1>g, <2>1, <2>3, <2>4, FollowsItself, CallKeepsInv, Zenon
<1>2. ASSUME StoreReloaded PROVE DaemonInv'
  BY <1>2, <1>g, ListenCallsFollow, FollowsItself, CallKeepsInv, Zenon DEF StoreReloaded
<1>3. ASSUME RestartRequested \/ BeginEvents \/ CommitEvents PROVE DaemonInv'
  BY <1>3, OthersKeepInv, Zenon DEF RestartRequested, BeginEvents, CommitEvents
<1> QED
  BY <1>1, <1>2, <1>3, Zenon DEF LocalListener

LEMMA RemoteWorkerKeepsInv ==
    ASSUME DaemonInv, NEW o \in Other, RemoteWorker(o)
    PROVE  DaemonInv'
<1>g. GoodMemory(mem)
  BY Zenon DEF DaemonInv
<1>1. ASSUME StartEvent(o) PROVE DaemonInv'
  <2> DEFINE e == EventAt(o, slon.got[o] + 1)
             r == IF Early(e) THEN Result(o, slon.got[o] + 1) ELSE Done(cfg, <<>>)
             m == IF r.ok THEN WorkerEffect(mem, e, r.c) ELSE Fatal(mem)
  <2>1. Follows(mem, m)
    <3> HIDE DEF r, e
    <3> QED
      BY <1>g, EffectsFollow, FatalFollows, Zenon
  <2>2. UNCHANGED hear /\ (mem' = mem \/ mem' = m)
    BY <1>1, Zenon DEF StartEvent
  <2> HIDE DEF m
  <2> QED
    BY <1>g, <2>1, <2>2, FollowsItself, CallKeepsInv, Zenon
<1>2. ASSUME ClearListens(o) PROVE DaemonInv'
  BY <1>2, <1>g, ListenCallsFollow, CallKeepsInv, Zenon DEF ClearListens
<1>3. ASSUME StoreQueried(o) PROVE DaemonInv'
  BY <1>3, <1>g, ListenCallsFollow, FollowsItself, CallKeepsInv, Zenon DEF StoreQueried
<1>4. ASSUME ReloadSets(o) PROVE DaemonInv'
  BY <1>4, <1>g, SetCallsFollow, CallKeepsInv, Zenon DEF ReloadSets
<1>5. ASSUME StartFailover(o) \/ CommitEvent(o) \/ QueryListens(o) PROVE DaemonInv'
  BY <1>5, OthersKeepInv, Zenon DEF StartFailover, CommitEvent, QueryListens
<1> QED
  BY <1>1, <1>2, <1>3, <1>4, <1>5, Zenon DEF RemoteWorker

(* The worker process ends in the handler of a signal, or by itself. *)
LEMMA ProcessesKeepInv ==
    ASSUME DaemonInv, Watchdog \/ Backends \/ Disturb \/ Execute
    PROVE  DaemonInv'
<1>1. ASSUME NEW s, Handle(s) PROVE DaemonInv'
  BY <1>1, EndKeepsInv, OthersKeepInv, Zenon DEF Handle, process
<1>2. ASSUME Watchdog PROVE DaemonInv'
  BY <1>1, <1>2, OthersKeepInv, Zenon DEF Watchdog, WorkerSignal, Reap, RestartWorker, RetryWorker
<1>3. ASSUME Backends PROVE DaemonInv'
  BY <1>3, OthersKeepInv, Zenon DEF Backends, BackendGone, OrphanCommits, OrphanAborts, process
<1>4. ASSUME Disturb PROVE DaemonInv'
  <2>1. ASSUME NEW s \in Signals, OperatorSignal(s) PROVE DaemonInv'
    BY <1>1, <2>1, Zenon DEF OperatorSignal
  <2>2. ASSUME Crash \/ SchedulerFails \/ Quit PROVE DaemonInv'
    BY <2>2, EndKeepsInv, OthersKeepInv, Zenon DEF Crash, SchedulerFails, Quit, process
  <2> QED
    BY <1>4, <2>1, <2>2, Zenon DEF Disturb
<1>5. ASSUME Execute PROVE DaemonInv'
  BY <1>5, OthersKeepInv, Zenon DEF Execute
<1> QED
  BY <1>2, <1>3, <1>4, <1>5, Zenon

-----------------------------------------------------------------------------
(* The threads of slon keep the invariant, whichever clusters, events, signals
   and crashes there are. *)
THEOREM DaemonInvariant == Spec => []DaemonInv
<1>1. Init => DaemonInv
  <2> SUFFICES ASSUME Init PROVE DaemonInv
    BY Zenon
  <2>1. /\ DOMAIN mem = MemoryFields /\ mem.status = [n \in Node |-> "NONE"]
        /\ mem.thread = [n \in Node |-> 0]
    BY DEF Init, NoMemory, LoadConfig, MemoryFields
  <2>2. \A n \in Node : mem.status[n] = "NONE" /\ mem.thread[n] = 0 /\ mem.thread[n] # 1
    BY <2>1
  <2>3. GoodMemory(mem)
    BY <2>1, <2>2, Zenon DEF GoodMemory, HasNone
  <2>4. DOMAIN hear = Other /\ \A p \in Other : DOMAIN hear[p] = {"from", "leaving"}
    BY DEF Init, Deaf
  <2> QED
    BY <2>2, <2>3, <2>4, Zenon DEF DaemonInv, ListenerInformed, Other
<1>2. DaemonInv /\ [Next]_vars => DaemonInv'
  <2> SUFFICES ASSUME DaemonInv, [Next]_vars PROVE DaemonInv'
    BY Zenon
  <2>1. ASSUME MainThread \/ LocalListener PROVE DaemonInv'
    BY <2>1, MainThreadKeepsInv, LocalListenerKeepsInv, Zenon
  <2>2. ASSUME NEW o \in Other, RemoteWorker(o) PROVE DaemonInv'
    BY <2>2, RemoteWorkerKeepsInv, Zenon
  <2>3. ASSUME NEW p \in Other, RemoteListener(p) PROVE DaemonInv'
    BY <2>3, LookKeepsInv, LeaveKeepsInv, Zenon DEF RemoteListener
  <2>4. ASSUME Watchdog \/ Backends \/ Disturb \/ Execute PROVE DaemonInv'
    BY <2>4, ProcessesKeepInv, Zenon
  <2>5. ASSUME UNCHANGED vars PROVE DaemonInv'
    BY <2>5, OthersKeepInv, Zenon DEF vars, process
  <2> QED
    BY <2>1, <2>2, <2>3, <2>4, <2>5, Zenon DEF Next, Step
<1> QED
  BY <1>1, <1>2, PTL DEF Spec

(* startStopNodeThread() never starts a second remote listener for a node, because
   the one that leaves sets listen_status only when it is gone. *)
THEOREM ListenersUnique == Spec => []OneListener
<1>1. DaemonInv => OneListener
  BY Zenon DEF DaemonInv, GoodMemory, OneListener, Other
<1> QED
  BY <1>1, DaemonInvariant, PTL

(* A remote listener that has seen the current value of cfgseq selects the events
   it is to listen for: every change of the nodes and listens is followed by
   rtcfg_seq_bump(). *)
THEOREM ListenersInformed == Spec => []ListenerInformed
<1>1. DaemonInv => ListenerInformed
  BY Zenon DEF DaemonInv
<1> QED
  BY <1>1, DaemonInvariant, PTL
-----------------------------------------------------------------------------
(* The tables. *)

ConfigFields == {"id", "known", "active", "failed", "path", "pending", "listen", "set", "locked",
                 "obj", "sub"}

GoodConfig(c) == DOMAIN c = ConfigFields /\ c.id = Self /\ c.active \subseteq c.known

(* A procedure that succeeds returns tables of this node. *)
GoodResult(r) == r.ok => DOMAIN r = {"ok", "c", "ev"} /\ r.ok = TRUE /\ GoodConfig(r.c)

LEMMA FailureGood == GoodResult(Failure)
BY DEF GoodResult, Failure

LEMMA DoneGood == ASSUME NEW c, GoodConfig(c), NEW ev PROVE GoodResult(Done(c, ev))
<1>1. /\ DOMAIN [ok |-> TRUE, c |-> c, ev |-> ev] = {"ok", "c", "ev"}
      /\ [ok |-> TRUE, c |-> c, ev |-> ev].ok = TRUE /\ [ok |-> TRUE, c |-> c, ev |-> ev].c = c
  OBVIOUS
<1> QED
  BY <1>1, FailureGood, Zenon DEF Done, GoodResult

(* The second of two calls. *)
LEMMA SecondGood ==
    ASSUME NEW q, GoodResult(q), NEW ev
    PROVE  GoodResult(IF q.ok THEN [q EXCEPT !.ev = ev] ELSE q)
<1> DEFINE r == [q EXCEPT !.ev = ev]
<1>1. ASSUME q.ok PROVE GoodResult(r)
  <2>1. DOMAIN q = {"ok", "c", "ev"}
    BY <1>1, Zenon DEF GoodResult
  <2>2. DOMAIN r = {"ok", "c", "ev"} /\ r.ok = q.ok /\ r.c = q.c
    BY <2>1
  <2> HIDE DEF r
  <2> QED
    BY <1>1, <2>2, Zenon DEF GoodResult
<1> QED
  BY <1>1, Zenon

(* The tables that matter little here. *)
LEMMA FieldsGood ==
    ASSUME NEW c, GoodConfig(c)
    PROVE  /\ \A x : /\ GoodConfig([c EXCEPT !.failed = x]) /\ GoodConfig([c EXCEPT !.pending = x])
                     /\ GoodConfig([c EXCEPT !.listen = x]) /\ GoodConfig([c EXCEPT !.set = x])
                     /\ GoodConfig([c EXCEPT !.locked = x]) /\ GoodConfig([c EXCEPT !.obj = x])
                     /\ GoodConfig([c EXCEPT !.sub = x])
           /\ \A x, y : /\ GoodConfig([c EXCEPT !.path = x, !.pending = y])
                        /\ GoodConfig([c EXCEPT !.sub = x, !.set = y])
                        /\ GoodConfig([c EXCEPT !.set = x, !.sub = y])
                        /\ GoodConfig([c EXCEPT !.sub = x, !.obj = y])
           /\ \A x, y, z, l : GoodConfig([c EXCEPT !.obj = x, !.sub = y, !.set = z, !.locked = l])
BY DEF GoodConfig, ConfigFields

LEMMA RebuildGood == ASSUME NEW c, GoodConfig(c) PROVE GoodConfig(Rebuild(c))
BY FieldsGood, Zenon DEF Rebuild

LEMMA NodesGood ==
    ASSUME NEW c, GoodConfig(c)
    PROVE  /\ \A ns : GoodConfig(storeNode_int(c, ns)) /\ GoodConfig(dropNode_int(c, ns))
           /\ \A n, p : GoodConfig(cloneNodePrepare_int(c, n, p))
           /\ \A n : GoodResult(enableNode_int(c, n))
<1>1. ASSUME NEW ns PROVE GoodConfig(storeNode_int(c, ns))
  BY DEF storeNode_int, GoodConfig, ConfigFields
<1>2. ASSUME NEW ns PROVE GoodConfig(dropNode_int(c, ns))
  <2>1. \A s, l, p, q, f, gone : gone = ns \ {c.id} =>
            GoodConfig([c EXCEPT !.sub = s, !.listen = l, !.path = p, !.pending = q,
                        !.known = @ \ gone, !.active = @ \ ns, !.failed = f])
    BY DEF GoodConfig, ConfigFields
  <2> QED
    BY <2>1, RebuildGood, Zenon DEF dropNode_int
<1>3. ASSUME NEW n, NEW p PROVE GoodConfig(cloneNodePrepare_int(c, n, p))
  <2>1. \A x, y, z : GoodConfig([c EXCEPT !.known = @ \cup {n},
                                 !.active = IF p \in @ THEN @ \cup {n} ELSE @ \ {n},
                                 !.path = x, !.pending = y, !.sub = z])
    BY DEF GoodConfig, ConfigFields
  <2> QED
    BY <2>1, RebuildGood, Zenon DEF cloneNodePrepare_int
<1>4. ASSUME NEW n PROVE GoodResult(enableNode_int(c, n))
  <2>1. ASSUME n \in c.known PROVE \A x : GoodConfig([c EXCEPT !.active = @ \cup {n}, !.sub = x])
    BY <2>1 DEF GoodConfig, ConfigFields
  <2> QED
    BY <2>1, RebuildGood, DoneGood, FailureGood, Zenon DEF enableNode_int
<1> QED
  BY <1>1, <1>2, <1>3, <1>4, Zenon

LEMMA PathsGood ==
    ASSUME NEW c, GoodConfig(c)
    PROVE  /\ \A s, r : GoodConfig(storePath_int(c, s, r)) /\ GoodConfig(dropPath_int(c, s, r))
           /\ \A o, p, r : /\ GoodResult(storeListen_int(c, o, p, r))
                           /\ GoodConfig(dropListen_int(c, o, p, r))
           /\ \A p, r : GoodConfig(NeedPath(c, p, r))
BY NodesGood, FieldsGood, RebuildGood, DoneGood, FailureGood, Zenon
   DEF storePath_int, dropPath_int, storeListen_int, dropListen_int, NeedPath, Check

LEMMA SetsGood ==
    ASSUME NEW c, GoodConfig(c)
    PROVE  /\ \A s, o : GoodConfig(storeSet_int(c, s, o))
           /\ \A s : GoodConfig(dropSet_int(c, s))
           /\ \A s, add : GoodConfig(mergeSet_int(c, s, add))
           /\ \A kind, i : GoodConfig(setDrop_int(c, kind, i))
           /\ \A kind, i, s : GoodConfig(setMove_int(c, kind, i, s))
           /\ \A s, old, new, wait : GoodResult(moveSet_int(c, s, old, new, wait))
<1>1. \A s, o : GoodConfig(storeSet_int(c, s, o))
  BY NodesGood, FieldsGood, Zenon DEF storeSet_int
<1>2. \A s : GoodConfig(dropSet_int(c, s))
  BY RebuildGood, FieldsGood, Zenon DEF dropSet_int
<1>3. \A s, add : GoodConfig(mergeSet_int(c, s, add))
  BY FieldsGood, Zenon DEF mergeSet_int
<1>4. \A kind, i : GoodConfig(setDrop_int(c, kind, i))
  BY FieldsGood, Zenon DEF setDrop_int
<1>5. \A kind, i, s : GoodConfig(setMove_int(c, kind, i, s))
  BY FieldsGood, Zenon DEF setMove_int
<1>6. ASSUME NEW s, NEW old, NEW new, NEW wait PROVE GoodResult(moveSet_int(c, s, old, new, wait))
  <2>1. \A x, y : GoodConfig(Rebuild([c EXCEPT !.sub = x, !.set = y]))
    BY RebuildGood, FieldsGood, Zenon
  <2>2. \A x, y, ev : GoodResult(Done(Rebuild([c EXCEPT !.sub = x, !.set = y]), ev))
    BY <2>1, DoneGood, Zenon
  <2> QED
    BY <2>2, FailureGood, Zenon DEF moveSet_int, Check
<1> QED
  BY <1>1, <1>2, <1>3, <1>4, <1>5, <1>6, Zenon

LEMMA SubscriptionsGood ==
    ASSUME NEW c, GoodConfig(c)
    PROVE  /\ \A s, p, r : GoodConfig(enableSubscription_int(c, s, p, r))
           /\ \A s, p, r, f : GoodResult(subscribeSet_int(c, s, p, r, f))
           /\ \A ss : GoodConfig(unsubscribed(c, ss))
           /\ \A s, r : GoodResult(unsubscribeSet_int(c, s, r))
<1>0. \A d : GoodConfig(d) => \A x : GoodConfig(Rebuild([d EXCEPT !.sub = x]))
  BY RebuildGood, FieldsGood, Zenon
<1>1. \A d : GoodConfig(d) => \A s, p, r : GoodConfig(enableSubscription_int(d, s, p, r))
  BY <1>0, PathsGood, Zenon DEF enableSubscription_int
<1>2. \A s, p, r, f : GoodResult(ChangeProvider(c, s, p, r, f))
  <2>1. \A x, ev : GoodResult(Done(Rebuild([c EXCEPT !.sub = x]), ev))
    BY <1>0, DoneGood, Zenon
  <2> QED
    BY <2>1, FailureGood, ZenonT(40) DEF ChangeProvider, Check
<1>3. ASSUME NEW s, NEW p, NEW r, NEW f PROVE GoodResult(subscribeSet_int(c, s, p, r, f))
  <2> DEFINE new == [NeedPath(c, p, r) EXCEPT !.sub = @ \cup {Subscription(s, p, r, f, FALSE)}]
  <2>1. GoodConfig(new)
    BY PathsGood, FieldsGood, Zenon
  <2> HIDE DEF new
  <2> QED
    BY <1>1, <1>2, <2>1, RebuildGood, DoneGood, FailureGood, Zenon DEF subscribeSet_int, Check, new
<1>4. \A ss : GoodConfig(unsubscribed(c, ss))
  BY RebuildGood, FieldsGood, Zenon DEF unsubscribed
<1>5. ASSUME NEW s, NEW r PROVE GoodResult(unsubscribeSet_int(c, s, r))
  <2> DEFINE Forget(d) == Done(Rebuild([d EXCEPT !.sub = {x \in @ : ~(x.set = s /\ x.receiver = r)}]),
                               <<>>)
             u == unsubscribeSet(c, s, c.id, TRUE)
  <2>1. \A d : GoodConfig(d) => GoodResult(Forget(d))
    BY RebuildGood, FieldsGood, DoneGood, Zenon
  <2>2. GoodResult(u)
    BY <1>4, DoneGood, FailureGood, Zenon DEF unsubscribeSet, Check
  <2> HIDE DEF Forget, u
  <2>3. ASSUME u.ok PROVE GoodResult(IF Forget(u.c).ok THEN [Forget(u.c) EXCEPT !.ev = u.ev \o @]
                                     ELSE Forget(u.c))
    BY <2>1, <2>2, <2>3, SecondGood, Zenon DEF GoodResult
  <2> QED
    BY <2>1, <2>2, <2>3, Zenon DEF unsubscribeSet_int, Then, Forget, u
<1> QED
  BY <1>1, <1>3, <1>4, <1>5, Zenon

LEMMA FailoverGood ==
    ASSUME NEW c, GoodConfig(c)
    PROVE  /\ \A f : GoodConfig(Blanked(c, f))
           /\ \A f, b, fs : GoodResult(failedNode(c, f, b, fs))
           /\ \A f, b, n, k : GoodResult(failoverSet_int(c, f, b, n, k))
<1>1. \A f : GoodConfig(Blanked(c, f))
  BY FieldsGood, Zenon DEF Blanked
<1>2. ASSUME NEW f, NEW b, NEW fs PROVE GoodResult(failedNode(c, f, b, fs))
  <2>1. \A x : GoodConfig([Blanked(c, f) EXCEPT !.failed = x])
    BY <1>1, FieldsGood, Zenon
  <2>2. \A x, y : GoodConfig([[Blanked(c, f) EXCEPT !.failed = x] EXCEPT !.sub = y])
    BY <2>1, FieldsGood, Zenon
  <2>3. \A x, y : GoodConfig(Rebuild([[Blanked(c, f) EXCEPT !.failed = x] EXCEPT !.sub = y]))
    BY <2>2, RebuildGood, Zenon
  <2> QED
    BY <2>2, <2>3, DoneGood, Zenon DEF failedNode
<1>3. ASSUME NEW f, NEW b, NEW n, NEW k PROVE GoodResult(failoverSet_int(c, f, b, n, k))
  <2> DEFINE To(x, p) == [x EXCEPT !.provider = p]
             Redirected(d, x) == IF x.provider # f THEN x
                                 ELSE IF x.receiver = b THEN To(x, OriginOf(d, x.set))
                                 ELSE IF x.receiver \in d.failed THEN x ELSE To(x, b)
             Sets(d) == [d EXCEPT !.set = {IF x[2] = f THEN <<x[1], b>> ELSE x : x \in @},
                                  !.sub = {x \in @ : ~(<<x.set, f>> \in d.set /\ x.receiver = b)}]
             Subs(d) == [d EXCEPT !.sub = {Redirected(d, x) : x \in @}, !.active = @ \ {f}]
             Finish(d) == Done(Rebuild(Subs(Sets(d))), <<>>)
             p == IF k > n THEN DropAhead(c, f) ELSE Done(c, <<>>)
  <2>1. \A d : GoodConfig(d) => GoodConfig(Sets(d))
    BY FieldsGood, Zenon
  <2>2. \A d : GoodConfig(d) => GoodConfig(Subs(d))
    <3>1. \A d, x : GoodConfig(d) => GoodConfig([d EXCEPT !.sub = x, !.active = @ \ {f}])
      BY DEF GoodConfig, ConfigFields
    <3> QED
      BY <3>1, Zenon
  <2> HIDE DEF Sets, Subs
  <2>3. \A d : GoodConfig(d) => GoodResult(Finish(d))
    BY <2>1, <2>2, RebuildGood, DoneGood, Zenon
  <2>4. GoodResult(p)
    BY SubscriptionsGood, DoneGood, Zenon DEF DropAhead
  <2> HIDE DEF Finish, p
  <2>5. ASSUME p.ok PROVE GoodResult(IF Finish(p.c).ok THEN [Finish(p.c) EXCEPT !.ev = p.ev \o @]
                                     ELSE Finish(p.c))
    BY <2>3, <2>4, <2>5, SecondGood, Zenon DEF GoodResult
  <2>6. failoverSet_int(c, f, b, n, k) = Then(p, Finish)
    BY Zenon DEF failoverSet_int, Finish, p, Sets, Subs
  <2> QED
    BY <2>4, <2>5, <2>6, Zenon DEF Then
<1> QED
  BY <1>1, <1>2, <1>3, Zenon

(* Whatever event of another node is processed. *)
LEMMA EventGood ==
    ASSUME NEW c, GoodConfig(c), NEW e, e.type \in EventTypes \ {"FAILOVER_NODE"}, NEW k
    PROVE  GoodResult(EventResult(c, e, k))
<1>1. ASSUME e.type \in {"STORE_NODE", "ENABLE_NODE", "CLONE_NODE", "DROP_NODE"}
      PROVE  GoodResult(NodeEvent(c, e))
  BY <1>1, NodesGood, DoneGood, Zenon DEF NodeEvent
<1>2. ASSUME e.type \in {"STORE_PATH", "DROP_PATH", "STORE_LISTEN", "DROP_LISTEN"}
      PROVE  GoodResult(PathEvent(c, e))
  BY <1>2, PathsGood, DoneGood, Zenon DEF PathEvent
<1>3. ASSUME e.type \in {"STORE_SET", "DROP_SET", "MERGE_SET"} PROVE GoodResult(SetEvent(c, e))
  BY <1>3, SetsGood, DoneGood, Zenon DEF SetEvent
<1>4. ASSUME e.type \in {"SET_ADD", "SET_DROP", "SET_MOVE"} PROVE GoodResult(ObjectEvent(c, e))
  BY <1>4, SetsGood, DoneGood, Zenon DEF ObjectEvent
<1>5. ASSUME e.type \in {"MOVE_SET", "ACCEPT_SET"} PROVE GoodResult(MoveEvent(c, e, k))
  BY <1>5, SetsGood, DoneGood, Zenon DEF MoveEvent
<1>6. ASSUME e.type \in {"SUBSCRIBE_SET", "ENABLE_SUBSCRIPTION", "UNSUBSCRIBE_SET"}
      PROVE  GoodResult(SubscriptionEvent(c, e))
  BY <1>6, SubscriptionsGood, DoneGood, Zenon DEF SubscriptionEvent, enableSubscription
<1>7. GoodResult(Done(c, <<>>))
  BY DoneGood, Zenon
<1> QED
  BY <1>1, <1>2, <1>3, <1>4, <1>5, <1>6, <1>7, ZenonT(40) DEF EventResult, EventTypes

(* Whatever procedure the administrator calls. *)
LEMMA StatementGood ==
    ASSUME NEW c, GoodConfig(c), NEW s, s.cmd \in Commands
    PROVE  GoodResult(Executed(c, s))
<1>1. \A d, n : GoodConfig(d) => GoodResult(enableNode(d, n))
  <2> SUFFICES ASSUME NEW d, NEW n, GoodConfig(d) PROVE GoodResult(enableNode(d, n))
    BY Zenon
  <2> DEFINE Event(x) == Done(x, <<[type |-> "ENABLE_NODE", node |-> n]>>)
             p == enableNode_int(d, n)
  <2>1. GoodResult(p)
    BY NodesGood, Zenon
  <2>2. \A x : GoodConfig(x) => GoodResult(Event(x))
    BY DoneGood, Zenon
  <2> HIDE DEF p, Event
  <2>3. ASSUME p.ok PROVE GoodResult(IF Event(p.c).ok THEN [Event(p.c) EXCEPT !.ev = p.ev \o @]
                                     ELSE Event(p.c))
    BY <2>1, <2>2, <2>3, SecondGood, Zenon DEF GoodResult
  <2> QED
    BY <2>1, <2>3, FailureGood, Zenon DEF enableNode, Check, Then, p, Event
<1>2. ASSUME s.cmd = "STORE_NODE" PROVE GoodResult(Executed(c, s))
  <2> DEFINE p == storeNode(c, s.node)
             Enable(d) == enableNode(d, s.node)
  <2>1. GoodResult(p)
    BY NodesGood, DoneGood, Zenon DEF storeNode
  <2>2. \A d : GoodConfig(d) => GoodResult(Enable(d))
    BY <1>1, Zenon
  <2> HIDE DEF p, Enable
  <2>3. ASSUME p.ok PROVE GoodResult(IF Enable(p.c).ok THEN [Enable(p.c) EXCEPT !.ev = p.ev \o @]
                                     ELSE Enable(p.c))
    BY <2>1, <2>2, <2>3, SecondGood, Zenon DEF GoodResult
  <2> QED
    BY <1>2, <2>1, <2>3, Zenon DEF Executed, Then, p, Enable
<1>3. /\ \A ns : GoodResult(dropNode(c, ns))
      /\ \A n, p : GoodResult(cloneNodePrepare(c, n, p))
  <2>1. \A x, ns : GoodConfig(dropNode_int([c EXCEPT !.sub = x], ns))
    BY NodesGood, FieldsGood, Zenon
  <2> QED
    BY <2>1, NodesGood, DoneGood, FailureGood, Zenon DEF dropNode, cloneNodePrepare, Check
<1>4. /\ \A r, p : GoodResult(storePath(c, r, p)) /\ GoodResult(dropPath(c, r, p))
      /\ \A o, p, r : GoodResult(dropListen(c, o, p, r))
  BY PathsGood, DoneGood, FailureGood, Zenon DEF storePath, dropPath, dropListen, Check
<1>5. ASSUME NEW o, NEW p, NEW r PROVE GoodResult(storeListen(c, o, p, r))
  <2> DEFINE Event(d) == Done(d, <<[type |-> "STORE_LISTEN", origin |-> o,
                                    provider |-> p, receiver |-> r]>>)
             q == storeListen_int(c, o, p, r)
  <2>1. GoodResult(q)
    BY PathsGood, Zenon
  <2>2. \A x : GoodConfig(x) => GoodResult(Event(x))
    BY DoneGood, Zenon
  <2> HIDE DEF q, Event
  <2>3. ASSUME q.ok PROVE GoodResult(IF Event(q.c).ok THEN [Event(q.c) EXCEPT !.ev = q.ev \o @]
                                     ELSE Event(q.c))
    BY <2>1, <2>2, <2>3, SecondGood, Zenon DEF GoodResult
  <2> QED
    BY <2>1, <2>3, Zenon DEF storeListen, Then, q, Event
<1>6. /\ \A x : GoodResult(storeSet(c, x)) /\ GoodResult(dropSet(c, x))
      /\ \A x, y : GoodResult(mergeSet(c, x, y, FALSE))
      /\ \A x, r : GoodResult(unsubscribeSet(c, x, r, FALSE))
      /\ \A f : GoodResult(preFailover(c, f, FALSE))
  BY SetsGood, FieldsGood, SubscriptionsGood, FailoverGood, DoneGood, FailureGood, Zenon
     DEF storeSet, dropSet, mergeSet, unsubscribeSet, preFailover, Check
<1>7. ASSUME NEW x, NEW p, NEW r PROVE GoodResult(subscribeSet(c, x, p, r, TRUE))
  <2> DEFINE Stored(d) == subscribeSet_int(d, x, p, r, TRUE)
             q == Done(c, <<SubscribeEvent(x, p, r, TRUE)>>)
  <2>1. GoodResult(q)
    BY DoneGood, Zenon
  <2>2. \A d : GoodConfig(d) => GoodResult(Stored(d))
    BY SubscriptionsGood, Zenon
  <2> HIDE DEF q, Stored
  <2>3. ASSUME q.ok PROVE GoodResult(IF Stored(q.c).ok THEN [Stored(q.c) EXCEPT !.ev = q.ev \o @]
                                     ELSE Stored(q.c))
    BY <2>1, <2>2, <2>3, SecondGood, Zenon DEF GoodResult
  <2> QED
    BY <2>1, <2>3, FailureGood, Zenon DEF subscribeSet, Then, q, Stored
<1>8. \A d, x, new : GoodConfig(d) => GoodResult(moveSet(d, x, new))
  <2> SUFFICES ASSUME NEW d, NEW x, NEW new, GoodConfig(d) PROVE GoodResult(moveSet(d, x, new))
    BY Zenon
  <2> DEFINE Unlocked(y) == moveSet_int(y, x, d.id, new, 0)
             Created(y) == Done(y, <<Ev("SYNC"), [type |-> "MOVE_SET", set |-> x, old |-> d.id,
                                                 new |-> new]>>)
             p == unlockSet(d, x)
             q == Then(p, Unlocked)
  <2>1. GoodResult(p)
    BY FieldsGood, DoneGood, FailureGood, Zenon DEF unlockSet, Check
  <2>2. \A y : GoodConfig(y) => GoodResult(Unlocked(y)) /\ GoodResult(Created(y))
    BY SetsGood, DoneGood, Zenon
  <2> HIDE DEF p, Unlocked, Created
  <2>3. ASSUME p.ok PROVE GoodResult(IF Unlocked(p.c).ok THEN [Unlocked(p.c) EXCEPT !.ev = p.ev \o @]
                                     ELSE Unlocked(p.c))
    BY <2>1, <2>2, <2>3, SecondGood, Zenon DEF GoodResult
  <2>4. GoodResult(q)
    BY <2>1, <2>3, Zenon DEF Then
  <2>5. moveSet(d, x, new) = Check(\E y \in SubsOf(d, x, new) : y.active, Then(q, Created))
    BY Zenon DEF moveSet, p, Unlocked, Created
  <2> HIDE DEF q
  <2>6. ASSUME q.ok PROVE GoodResult(IF Created(q.c).ok THEN [Created(q.c) EXCEPT !.ev = q.ev \o @]
                                     ELSE Created(q.c))
    BY <2>2, <2>4, <2>6, SecondGood, Zenon DEF GoodResult
  <2> QED
    BY <2>4, <2>5, <2>6, FailureGood, Zenon DEF Then, Check
<1>9. ASSUME s.cmd = "MOVE_SET" PROVE GoodResult(Executed(c, s))
  <2> DEFINE p == lockSet(c, s.set)
             Move(d) == moveSet(d, s.set, s.new)
  <2>1. GoodResult(p)
    BY FieldsGood, DoneGood, FailureGood, Zenon DEF lockSet, Check
  <2>2. \A d : GoodConfig(d) => GoodResult(Move(d))
    BY <1>8, Zenon
  <2> HIDE DEF p, Move
  <2>3. ASSUME p.ok PROVE GoodResult(IF Move(p.c).ok THEN [Move(p.c) EXCEPT !.ev = p.ev \o @]
                                     ELSE Move(p.c))
    BY <2>1, <2>2, <2>3, SecondGood, Zenon DEF GoodResult
  <2> QED
    BY <1>9, <2>1, <2>3, Zenon DEF Executed, Then, p, Move
<1> QED
  BY <1>2, <1>3, <1>4, <1>5, <1>6, <1>7, <1>9, Zenon DEF Executed, Commands
-----------------------------------------------------------------------------
(* The types. *)

Loaded == slon.pc \in {"loaded", "lock", "activate", "up"}

MainFields == {"pc", "watched", "restarted", "activate", "first", "last", "got", "missed"}

TablesInv ==
    /\ GoodConfig(cfg)
    /\ DOMAIN done = Other /\ \A o \in Other : done[o] \in 0 .. Len(remote[o])
    /\ lock \in {0} \cup Other \cup {-o : o \in Other}
    /\ \A x \in orphan : x[1] \in Other /\ x[2] \in 1 .. Len(remote[x[1]])
    /\ linger \in BOOLEAN /\ notify \in BOOLEAN
    /\ script \in Seq(Statements) /\ remote \in [Other -> Seq(Events)]

WatchdogStates == [pc : {"waiting", "sleep20", "sleep10", "exited"},
                   status : {"NORMAL", "RESTART", "RETRY", "SHUTDOWN"}]

(* While the watchdog sleeps there is no worker process. *)
WatchInv ==
    /\ wd \in WatchdogStates
    /\ sig \in {"none", "HUP", "USR1", "TERM"}
    /\ wd.pc \in {"sleep20", "sleep10"} => slon.pc = "none"

MainInv ==
    /\ "pc" \in DOMAIN slon
    /\ Loaded => /\ DOMAIN slon = MainFields /\ DOMAIN slon.got = Other
                 /\ \A o \in Other : slon.got[o] \in 0 .. Len(remote[o])

(* The nodes to be enabled have been loaded. *)
MemInv ==
    /\ mem.ok /\ Contained(mem)
    /\ slon.pc \in {"loaded", "lock", "activate"} => slon.activate \subseteq mem.node

ListenerInv == "pc" \in DOMAIN ll /\ ll.pc \in {"none", "idle", "apply", "store"}

WorkerPcs == {"none", "idle", "commit", "clear", "query", "store", "sets"}

(* A worker that is about to commit has an event. *)
WorkerInv ==
    /\ DOMAIN work = Other
    /\ \A o \in Other : /\ "pc" \in DOMAIN work[o] /\ work[o].pc \in WorkerPcs
                        /\ work[o].pc = "commit" => Loaded /\ slon.got[o] + 1 \in 1 .. Len(remote[o])

ThreadsInv == TablesInv /\ WatchInv /\ MainInv /\ MemInv /\ ListenerInv /\ WorkerInv

(* The fields of the main thread that others set. *)
LEMMA OtherFieldSet ==
    ASSUME MainInv, NEW f \in {"watched", "last", "missed"}, NEW x, slon' = [slon EXCEPT ![f] = x]
    PROVE  /\ DOMAIN slon' = DOMAIN slon /\ slon'.pc = slon.pc
           /\ Loaded => slon'.got = slon.got /\ slon'.activate = slon.activate
<1>1. DOMAIN slon' = DOMAIN slon /\ \A g \in DOMAIN slon : g # f => slon'[g] = slon[g]
  BY Zenon
<1>2. "pc" \in DOMAIN slon /\ (Loaded => "got" \in DOMAIN slon /\ "activate" \in DOMAIN slon)
  BY Zenon DEF MainInv, MainFields
<1>3. f # "pc" /\ f # "got" /\ f # "activate"
  BY Zenon
<1>4. slon'["pc"] = slon["pc"] /\ (Loaded => slon'["got"] = slon["got"] /\ slon'["activate"] = slon["activate"])
  BY <1>1, <1>2, <1>3, Zenon
<1> QED
  BY <1>1, <1>4, Zenon

LEMMA SignalSent ==
    ASSUME NEW s \in {"HUP", "USR1", "TERM"}, Signal(s), MainInv, WatchInv
    PROVE  /\ sig' \in {"none", "HUP", "USR1", "TERM"}
           /\ DOMAIN slon' = DOMAIN slon /\ slon'.pc = slon.pc
           /\ Loaded => slon'.got = slon.got /\ slon'.activate = slon.activate
<1>1. sig' \in {"none", "HUP", "USR1", "TERM"}
  BY Zenon DEF Signal, WatchInv
<1> QED
  BY <1>1, OtherFieldSet, Zenon DEF Signal

(* The process is where it was. *)
LEMMA MainKept ==
    ASSUME MainInv, UNCHANGED remote, DOMAIN slon' = DOMAIN slon, slon'.pc = slon.pc,
           Loaded => slon'.got = slon.got
    PROVE  MainInv'
BY Zenon DEF MainInv, Loaded

LEMMA WatchKept ==
    ASSUME WatchInv, UNCHANGED wd, sig' \in {"none", "HUP", "USR1", "TERM"}, slon'.pc = slon.pc
    PROVE  WatchInv'
BY Zenon DEF WatchInv

LEMMA MemKept ==
    ASSUME MemInv, slon'.pc = slon.pc, Loaded => slon'.activate = slon.activate,
           GoodMemory(mem), Follows(mem, mem'), mem'.ok
    PROVE  MemInv'
<1>1. Contained(mem') /\ mem.node \subseteq mem'.node
  BY Zenon DEF MemInv, Follows, Grows
<1>2. slon'.pc \in {"loaded", "lock", "activate"} => slon'.activate \subseteq mem'.node
  BY <1>1, Zenon DEF MemInv, Loaded
<1> QED
  BY <1>1, <1>2, Zenon DEF MemInv, Contained

LEMMA WorkerKept ==
    ASSUME WorkerInv, UNCHANGED <<work, remote>>, slon'.pc = slon.pc,
           Loaded => slon'.got = slon.got
    PROVE  WorkerInv'
BY Zenon DEF WorkerInv, Loaded

LEMMA WorkerMoved ==
    ASSUME WorkerInv, UNCHANGED remote, slon'.pc = slon.pc,
           NEW o \in Other, NEW w, "pc" \in DOMAIN w, w.pc \in WorkerPcs,
           work' = [work EXCEPT ![o] = w],
           w.pc = "commit" => Loaded /\ slon'.got[o] + 1 \in 1 .. Len(remote[o]),
           \A p \in Other \ {o} : Loaded => slon'.got[p] = slon.got[p]
    PROVE  WorkerInv'
<1>1. DOMAIN work' = Other /\ work'[o] = w /\ \A p \in Other \ {o} : work'[p] = work[p]
  BY Zenon DEF WorkerInv
<1>2. Loaded' <=> Loaded
  BY Zenon DEF Loaded
<1>3. ASSUME NEW p \in Other
      PROVE  /\ "pc" \in DOMAIN work'[p] /\ work'[p].pc \in WorkerPcs
             /\ work'[p].pc = "commit" => Loaded' /\ slon'.got[p] + 1 \in 1 .. Len(remote'[p])
  BY <1>1, <1>2, Zenon DEF WorkerInv
<1> QED
  BY <1>1, <1>3, Zenon DEF WorkerInv

(* Only the place of the worker changes. *)
LEMMA WorkerGoes ==
    ASSUME WorkerInv, NEW o \in Other, NEW pc
    PROVE  \E w : /\ [work EXCEPT ![o].pc = pc] = [work EXCEPT ![o] = w]
                  /\ "pc" \in DOMAIN w /\ w.pc = pc
<1> DEFINE w == [work[o] EXCEPT !.pc = pc]
<1>1. "pc" \in DOMAIN w /\ w.pc = pc
  BY DEF WorkerInv
<1>2. [work EXCEPT ![o].pc = pc] = [work EXCEPT ![o] = w]
  OBVIOUS
<1> QED
  BY <1>1, <1>2, Zenon

LEMMA TablesKept ==
    ASSUME TablesInv, UNCHANGED <<cfg, done, orphan, script, remote>>,
           lock' \in {0} \cup Other \cup {-o : o \in Other},
           linger' \in BOOLEAN, notify' \in BOOLEAN
    PROVE  TablesInv'
BY Zenon DEF TablesInv, GoodConfig

LEMMA NotifyIsBoolean == ASSUME NEW n, Notify(n) PROVE notify' \in BOOLEAN
BY Zenon DEF Notify

(* The main thread. *)
LEMMA LoadTyped == ASSUME ThreadsInv, Load PROVE ThreadsInv'
<1>1. TablesInv'
  BY TablesKept, Zenon DEF ThreadsInv, Load, TablesInv, database, world
<1>2. /\ slon'.pc = "loaded" /\ DOMAIN slon' = MainFields /\ slon'.got = done
      /\ slon'.activate = cfg.active \ {Self} /\ slon.pc = "load"
  BY DEF Load, MainFields
<1>3. WatchInv'
  BY <1>2, Zenon DEF ThreadsInv, WatchInv, Load
<1>4. MainInv'
  BY <1>2, Zenon DEF ThreadsInv, MainInv, MainFields, TablesInv, Load, world
<1>5. MemInv'
  <2>1. /\ mem'.ok = TRUE /\ mem'.worker = {} /\ mem'.active = {} /\ mem'.path = PathsOf(cfg)
        /\ mem'.node = (cfg.known \ {cfg.id}) \cup PathsOf(cfg)
    BY Zenon DEF Load, LoadConfig
  <2>2. cfg.active \ {Self} \subseteq cfg.known \ {cfg.id}
    BY Zenon DEF ThreadsInv, TablesInv, GoodConfig
  <2> QED
    BY <1>2, <2>1, <2>2, Zenon DEF MemInv, Contained
<1>6. WorkerInv' /\ ListenerInv'
  BY <1>2, Zenon DEF ThreadsInv, WorkerInv, ListenerInv, Load, Loaded
<1> QED
  BY <1>1, <1>3, <1>4, <1>5, <1>6, Zenon DEF ThreadsInv

LEMMA MainThreadTyped ==
    ASSUME ThreadsInv, GoodMemory(mem), MainThread
    PROVE  ThreadsInv'
<1>t. TablesInv'
  BY TablesKept, Zenon
     DEF ThreadsInv, MainThread, Load, Listen, ObtainLock, LockTaken, Activate, TablesInv, database, world
<1>1. ASSUME Listen \/ ObtainLock, NEW pc \in {"lock", "activate"}, slon' = [slon EXCEPT !.pc = pc],
             Loaded, slon.pc # "up"
      PROVE  ThreadsInv'
  <2>1. /\ DOMAIN slon' = MainFields /\ slon'.pc = pc
        /\ slon'.got = slon.got /\ slon'.activate = slon.activate
    BY <1>1 DEF ThreadsInv, MainInv, MainFields
  <2>2. UNCHANGED <<wd, sig, mem, work, remote>>
    BY <1>1, Zenon DEF Listen, ObtainLock, world
  <2>3. WatchInv'
    BY <1>1, <2>1, <2>2, Zenon DEF ThreadsInv, WatchInv, Loaded
  <2>4. MainInv'
    BY <1>1, <2>1, <2>2, Zenon DEF ThreadsInv, MainInv, MainFields
  <2>5. MemInv'
    BY <1>1, <2>1, <2>2, Zenon DEF ThreadsInv, MemInv, Contained, Loaded
  <2>6. WorkerInv'
    BY <1>1, <2>1, <2>2, Zenon DEF ThreadsInv, WorkerInv, Loaded
  <2>7. ListenerInv'
    BY <1>1 DEF Listen, ObtainLock, ThreadsInv, ListenerInv
  <2> QED
    BY <1>t, <2>3, <2>4, <2>5, <2>6, <2>7, Zenon DEF ThreadsInv
<1>2. ASSUME LockTaken PROVE ThreadsInv'
  <2>1. Signal("TERM") /\ UNCHANGED <<wd, mem, ll, work, remote>>
    BY <1>2, Zenon DEF LockTaken, world
  <2>2. /\ sig' \in {"none", "HUP", "USR1", "TERM"}
        /\ DOMAIN slon' = DOMAIN slon /\ slon'.pc = slon.pc
        /\ Loaded => slon'.got = slon.got /\ slon'.activate = slon.activate
    BY <2>1, SignalSent, Zenon DEF ThreadsInv
  <2>3. MemInv'
    BY <2>1, <2>2, FollowsItself, MemKept, Zenon DEF ThreadsInv, MemInv
  <2> QED
    BY <1>t, <2>1, <2>2, <2>3, MainKept, WatchKept, WorkerKept, Zenon DEF ThreadsInv, ListenerInv
<1>3. ASSUME Activate PROVE ThreadsInv'
  <2>1. /\ DOMAIN slon' = MainFields /\ slon'.pc = "up"
        /\ slon'.got = slon.got /\ slon'.activate = slon.activate
    BY <1>3 DEF Activate, ThreadsInv, MainInv, MainFields, Loaded
  <2>2. slon.pc = "activate" /\ UNCHANGED <<wd, sig, ll, work, remote>>
    BY <1>3, Zenon DEF Activate, world
  <2>3. WatchInv'
    BY <2>1, <2>2, Zenon DEF ThreadsInv, WatchInv
  <2>4. MainInv'
    BY <2>1, <2>2, Zenon DEF ThreadsInv, MainInv, Loaded, MainFields
  <2>5. MemInv'
    <3>1. slon.activate \subseteq mem.node
      BY <2>2, Zenon DEF ThreadsInv, MemInv
    <3>2. /\ mem' = startStopNodeThreads(IF slon.activate = {} THEN mem
                                         ELSE Bump([mem EXCEPT !.active = @ \cup slon.activate]),
                                         slon.activate)
          /\ Follows(mem, mem')
      BY <1>3, <3>1, ActivateFollows, Zenon DEF Activate, DoActivate
    <3>3. mem'.ok
      BY <3>2 DEF startStopNodeThreads, Bump, GoodMemory, MemoryFields, ThreadsInv, MemInv
    <3>4. Contained(mem')
      BY <3>2, <3>3, Zenon DEF Follows, Grows, ThreadsInv, MemInv
    <3> QED
      BY <2>1, <3>3, <3>4, Zenon DEF MemInv, Contained
  <2>6. WorkerInv' /\ ListenerInv'
    BY <2>1, <2>2, Zenon DEF ThreadsInv, WorkerInv, Loaded, ListenerInv
  <2> QED
    BY <1>t, <2>3, <2>4, <2>5, <2>6, Zenon DEF ThreadsInv
<1>4. ASSUME Listen \/ ObtainLock PROVE ThreadsInv'
  BY <1>1, <1>4, Zenon DEF Listen, ObtainLock, Loaded
<1> QED
  BY <1>2, <1>3, <1>4, LoadTyped, Zenon DEF MainThread

(* The local listener. *)
LEMMA LocalListenerTyped ==
    ASSUME ThreadsInv, GoodMemory(mem), LocalListener
    PROVE  ThreadsInv'
<1> DEFINE SameMain == /\ DOMAIN slon' = DOMAIN slon /\ slon'.pc = slon.pc
                       /\ Loaded => slon'.got = slon.got /\ slon'.activate = slon.activate
           Sig == sig' \in {"none", "HUP", "USR1", "TERM"}
<1>i. TablesInv /\ WatchInv /\ MainInv /\ MemInv /\ ListenerInv /\ WorkerInv
  BY Zenon DEF ThreadsInv
<1>u. /\ UNCHANGED <<cfg, done, orphan, script, remote, lock, linger, wd, work>>
      /\ notify' \in BOOLEAN
  <2>1. UNCHANGED <<cfg, done, orphan, script, remote, lock, linger, wd, work>>
    BY Zenon DEF LocalListener, RestartRequested, BeginEvents, ApplyEvent, StoreReloaded,
                 CommitEvents, database, world
  <2>2. notify' = notify \/ notify' = FALSE \/ \E n : Notify(n)
    BY Zenon DEF LocalListener, RestartRequested, BeginEvents, ApplyEvent, StoreReloaded, CommitEvents
  <2> QED
    BY <1>i, <2>1, <2>2, NotifyIsBoolean, Zenon DEF TablesInv
<1>t. TablesInv'
  BY <1>i, <1>u, TablesKept, Zenon DEF TablesInv
<1>s. ASSUME NEW s \in {"HUP", "USR1"}, Signal(s) PROVE SameMain /\ Sig
  BY <1>i, <1>s, SignalSent, Zenon
<1>k. ASSUME SameMain, Sig, Follows(mem, mem'), mem'.ok, ListenerInv' PROVE ThreadsInv'
  BY <1>i, <1>u, <1>t, <1>k, MainKept, WatchKept, MemKept, WorkerKept, Zenon DEF ThreadsInv
<1>m. Follows(mem, mem) /\ mem.ok
  BY <1>i, FollowsItself, Zenon DEF MemInv
<1>q. UNCHANGED <<slon, sig>> => SameMain /\ Sig
  BY <1>i, Zenon DEF WatchInv
<1> HIDE DEF SameMain, Sig
<1>n. ll' = NoThread \/ ll' = [pc |-> "idle"] => ListenerInv'
  BY DEF NoThread, ListenerInv
<1>1. ASSUME RestartRequested PROVE ThreadsInv'
  BY <1>1, <1>k, <1>m, <1>n, <1>s, Zenon DEF RestartRequested
<1>2. ASSUME BeginEvents PROVE ThreadsInv'
  <2>1. ListenerInv'
    BY <1>2 DEF BeginEvents, ListenerInv
  <2> QED
    BY <1>2, <1>k, <1>m, <1>q, <2>1, Zenon DEF BeginEvents
<1>3. ASSUME CommitEvents PROVE ThreadsInv'
  BY <1>3, <1>k, <1>m, <1>n, <1>q, Zenon DEF CommitEvents
<1>4. ASSUME StoreReloaded PROVE ThreadsInv'
  <2> DEFINE m == StoreListens(mem, ListenRows(ll.snap))
  <2>1. CASE m.ok
    <3>1. mem' = m /\ ll' = [ll EXCEPT !.pc = "apply"] /\ UNCHANGED <<slon, sig>>
      BY <1>4, <2>1, Zenon DEF StoreReloaded
    <3>2. ListenerInv'
      BY <1>i, <3>1 DEF ListenerInv
    <3>3. Follows(mem, m)
      BY ListenCallsFollow, Zenon
    <3> QED
      BY <1>k, <1>q, <2>1, <3>1, <3>2, <3>3, Zenon
  <2>2. CASE ~m.ok
    BY <1>4, <1>k, <1>m, <1>n, <1>s, <2>2, Zenon DEF StoreReloaded
  <2> QED
    BY <2>1, <2>2, Zenon
<1>5. ASSUME ApplyEvent PROVE ThreadsInv'
  <2> DEFINE e == event[slon.last + 1]
             m == ListenerEffect(mem, e, ll.snap)
  <2>1. CASE m.ok
    <3>1. /\ mem' = IF e.type \in ListenerReloads THEN ClearListen(m) ELSE m
          /\ ll' = [ll EXCEPT !.pc = IF e.type \in ListenerReloads THEN "store" ELSE @,
                              !.drop = @ \/ e.type = "DROP_NODE"]
          /\ slon' = [slon EXCEPT !.last = @ + 1] /\ UNCHANGED sig
      BY <1>5, <2>1, Zenon DEF ApplyEvent
    <3> HIDE DEF e
    <3>2. ListenerInv'
      BY <1>i, <3>1 DEF ListenerInv
    <3>3. Follows(mem, m)
      BY EffectsFollow, Zenon
    <3> HIDE DEF m
    <3>4. GoodMemory(m)
      BY <3>3, Zenon DEF Follows
    <3>5. Follows(mem, ClearListen(m))
      BY <3>3, <3>4, ListenCallsFollow, FollowsTransitive, ZenonT(40)
    <3>6. ClearListen(m).ok = m.ok
      BY <3>4 DEF ClearListen, Bump, GoodMemory, MemoryFields
    <3>7. Follows(mem, mem') /\ mem'.ok
      BY <2>1, <3>1, <3>3, <3>5, <3>6, Zenon
    <3>8. SameMain /\ Sig
      BY <1>i, <3>1, OtherFieldSet, Zenon DEF SameMain, Sig, WatchInv
    <3> QED
      BY <1>k, <3>2, <3>7, <3>8, Zenon
  <2>2. CASE ~m.ok
    BY <1>5, <1>k, <1>m, <1>n, <1>s, <2>2, Zenon DEF ApplyEvent
  <2> QED
    BY <2>1, <2>2, Zenon
<1> QED
  BY <1>1, <1>2, <1>3, <1>4, <1>5, Zenon DEF LocalListener

(* The events of other nodes, and what processing one does to the tables. *)
LEMMA ResultGood ==
    ASSUME TablesInv, NEW o \in Other, NEW k \in 1 .. Len(remote[o])
    PROVE  GoodResult(Result(o, k))
<1>1. remote[o] \in Seq(Events)
  BY Zenon DEF TablesInv
<1>2. remote[o][k] \in Events
  BY <1>1
<1>3. EventAt(o, k).type \in EventTypes /\ GoodConfig(cfg)
  BY <1>2, CaseAssumption, Zenon DEF EventAt, TablesInv
<1> QED
  BY <1>3, FailoverGood, EventGood, Zenon DEF Result

LEMMA CommitTyped ==
    ASSUME TablesInv, NEW o \in Other, NEW k \in 1 .. Len(remote[o]),
           Committed(o, k), Commit(o, k), orphan' \subseteq orphan,
           lock' \in {0} \cup Other \cup {-p : p \in Other}, UNCHANGED <<linger, script, remote>>
    PROVE  TablesInv'
<1>1. GoodConfig(cfg')
  BY ResultGood, Zenon DEF Committed, Commit, GoodResult
<1>2. DOMAIN done' = Other /\ \A p \in Other : done'[p] = IF p = o THEN k ELSE done[p]
  BY Zenon DEF Commit, TablesInv
<1>3. k \in 0 .. Len(remote[o])
  OBVIOUS
<1>4. notify' \in BOOLEAN
  BY NotifyIsBoolean, Zenon DEF Commit
<1> QED
  BY <1>1, <1>2, <1>3, <1>4, Zenon DEF TablesInv, GoodConfig

(* A remote worker. *)
LEMMA StartEventTyped ==
    ASSUME ThreadsInv, GoodMemory(mem), NEW o \in Other, StartEvent(o)
    PROVE  ThreadsInv'
<1> DEFINE e == EventAt(o, slon.got[o] + 1)
           r == IF Early(e) THEN Result(o, slon.got[o] + 1) ELSE Done(cfg, <<>>)
           m == IF r.ok THEN WorkerEffect(mem, e, r.c) ELSE Fatal(mem)
<1>i. TablesInv /\ WatchInv /\ MainInv /\ MemInv /\ ListenerInv /\ WorkerInv
  BY Zenon DEF ThreadsInv
<1>l. Loaded /\ slon.got[o] + 1 \in 1 .. Len(remote[o])
  <2>1. Loaded /\ slon.got[o] < Len(remote[o])
    BY Zenon DEF StartEvent, Running, Loaded
  <2>2. slon.got[o] \in 0 .. Len(remote[o])
    BY <1>i, <2>1, Zenon DEF MainInv
  <2> QED
    BY <2>1, <2>2
<1>u. UNCHANGED <<cfg, done, orphan, script, remote, linger, notify, wd, ll>>
  BY Zenon DEF StartEvent, world
<1>f. Follows(mem, m)
  <2> HIDE DEF r, e
  <2> QED
    BY EffectsFollow, FatalFollows, Zenon
<1>s. /\ lock' = lock \/ lock' = o
      /\ \/ m.ok /\ mem' = m /\ work' = [work EXCEPT ![o].pc = "commit"] /\ UNCHANGED <<sig, slon>>
         \/ Signal("USR1") /\ work' = [work EXCEPT ![o].pc = "none"] /\ UNCHANGED mem
  BY Zenon DEF StartEvent
<1> HIDE DEF m, r, e
<1>t. TablesInv'
  BY <1>i, <1>u, <1>s, TablesKept, Zenon DEF TablesInv
<1>1. CASE m.ok /\ mem' = m /\ work' = [work EXCEPT ![o].pc = "commit"] /\ UNCHANGED <<sig, slon>>
  <2>1. PICK w : work' = [work EXCEPT ![o] = w] /\ "pc" \in DOMAIN w /\ w.pc = "commit"
    BY <1>1, <1>i, WorkerGoes, ZenonT(40)
  <2>2. WorkerInv'
    BY <1>1, <1>i, <1>l, <1>u, <2>1, WorkerMoved, Zenon DEF WorkerPcs
  <2>3. MemInv'
    BY <1>1, <1>i, <1>f, MemKept, Zenon
  <2> QED
    BY <1>1, <1>i, <1>t, <1>u, <2>2, <2>3, MainKept, WatchKept, ZenonT(40)
       DEF ThreadsInv, ListenerInv, WatchInv
<1>2. CASE Signal("USR1") /\ work' = [work EXCEPT ![o].pc = "none"] /\ UNCHANGED mem
  <2>1. PICK w : work' = [work EXCEPT ![o] = w] /\ "pc" \in DOMAIN w /\ w.pc = "none"
    BY <1>2, <1>i, WorkerGoes, Zenon
  <2>2. /\ sig' \in {"none", "HUP", "USR1", "TERM"}
        /\ DOMAIN slon' = DOMAIN slon /\ slon'.pc = slon.pc
        /\ Loaded => slon'.got = slon.got /\ slon'.activate = slon.activate
    BY <1>2, <1>i, SignalSent, Zenon
  <2>3. WorkerInv'
    BY <1>i, <1>u, <2>1, <2>2, WorkerMoved, Zenon DEF WorkerPcs
  <2>4. MemInv'
    BY <1>2, <1>i, <2>2, FollowsItself, MemKept, Zenon DEF MemInv
  <2> QED
    BY <1>i, <1>t, <1>u, <2>2, <2>3, <2>4, MainKept, WatchKept, Zenon DEF ThreadsInv, ListenerInv
<1> QED
  BY <1>s, <1>1, <1>2, Zenon

LEMMA StartFailoverTyped ==
    ASSUME ThreadsInv, GoodMemory(mem), NEW o \in Other, StartFailover(o)
    PROVE  ThreadsInv'
<1> DEFINE e == EventAt(o, slon.got[o] + 1)
           r == failedNode(cfg, e.node, o, e.nodes)
<1>i. TablesInv /\ WatchInv /\ MainInv /\ MemInv /\ ListenerInv /\ WorkerInv
  BY Zenon DEF ThreadsInv
<1>l. Loaded /\ slon.got[o] + 1 \in 1 .. Len(remote[o])
  <2>1. Loaded /\ slon.got[o] < Len(remote[o])
    BY Zenon DEF StartFailover, Running, Loaded
  <2>2. slon.got[o] \in 0 .. Len(remote[o])
    BY <1>i, <2>1, Zenon DEF MainInv
  <2> QED
    BY <2>1, <2>2
<1>u. UNCHANGED <<done, lock, orphan, script, remote, linger, wd, mem, ll>>
  BY Zenon DEF StartFailover, world
<1>s. \/ /\ r.ok /\ cfg' = r.c /\ Notify(r.c # cfg)
         /\ work' = [work EXCEPT ![o].pc = "commit"] /\ UNCHANGED <<sig, slon>>
      \/ /\ Signal("USR1") /\ work' = [work EXCEPT ![o].pc = "none"] /\ UNCHANGED <<cfg, notify>>
  BY Zenon DEF StartFailover
<1>r. GoodResult(r)
  BY <1>i, FailoverGood, Zenon DEF TablesInv
<1>m. Follows(mem, mem') /\ mem'.ok
  BY <1>i, <1>u, FollowsItself, Zenon DEF MemInv
<1> HIDE DEF r, e
<1>1. CASE /\ r.ok /\ cfg' = r.c /\ Notify(r.c # cfg)
           /\ work' = [work EXCEPT ![o].pc = "commit"] /\ UNCHANGED <<sig, slon>>
  <2>1. PICK w : work' = [work EXCEPT ![o] = w] /\ "pc" \in DOMAIN w /\ w.pc = "commit"
    BY <1>1, <1>i, WorkerGoes, Zenon
  <2>2. WorkerInv'
    BY <1>1, <1>i, <1>l, <1>u, <2>1, WorkerMoved, Zenon DEF WorkerPcs
  <2>3. TablesInv'
    <3>1. GoodConfig(cfg')
      BY <1>1, <1>r, Zenon DEF GoodResult
    <3>2. notify' \in BOOLEAN
      BY <1>1, NotifyIsBoolean, Zenon
    <3> QED
      BY <1>i, <1>u, <3>1, <3>2, Zenon DEF TablesInv, GoodConfig
  <2>4. MemInv'
    BY <1>1, <1>i, <1>m, MemKept, Zenon
  <2> QED
    BY <1>1, <1>i, <1>u, <2>2, <2>3, <2>4, MainKept, WatchKept, Zenon
       DEF ThreadsInv, ListenerInv, WatchInv
<1>2. CASE Signal("USR1") /\ work' = [work EXCEPT ![o].pc = "none"] /\ UNCHANGED <<cfg, notify>>
  <2>1. PICK w : work' = [work EXCEPT ![o] = w] /\ "pc" \in DOMAIN w /\ w.pc = "none"
    BY <1>2, <1>i, WorkerGoes, Zenon
  <2>2. /\ sig' \in {"none", "HUP", "USR1", "TERM"}
        /\ DOMAIN slon' = DOMAIN slon /\ slon'.pc = slon.pc
        /\ Loaded => slon'.got = slon.got /\ slon'.activate = slon.activate
    BY <1>2, <1>i, SignalSent, Zenon
  <2>3. WorkerInv'
    BY <1>i, <1>u, <2>1, <2>2, WorkerMoved, Zenon DEF WorkerPcs
  <2>4. MemInv'
    BY <1>i, <1>m, <2>2, MemKept, Zenon
  <2>5. TablesInv'
    BY <1>2, <1>i, <1>u, TablesKept, Zenon DEF TablesInv
  <2> QED
    BY <1>i, <1>u, <2>2, <2>3, <2>4, <2>5, MainKept, WatchKept, ZenonT(40) DEF ThreadsInv, ListenerInv
<1> QED
  BY <1>s, <1>1, <1>2, Zenon

LEMMA CommitEventTyped ==
    ASSUME ThreadsInv, GoodMemory(mem), NEW o \in Other, CommitEvent(o)
    PROVE  ThreadsInv'
<1> DEFINE k == slon.got[o] + 1
           e == EventAt(o, k)
           w == AfterCommit(work[o], e)
<1>i. TablesInv /\ WatchInv /\ MainInv /\ MemInv /\ ListenerInv /\ WorkerInv
  BY Zenon DEF ThreadsInv
<1>l. Loaded /\ k \in 1 .. Len(remote[o])
  BY <1>i, Zenon DEF CommitEvent, WorkerInv
<1>u. UNCHANGED <<orphan, script, remote, linger, wd, mem, ll>> /\ lock' = 0
  BY Zenon DEF CommitEvent, world
<1>s. \/ /\ Committed(o, k) /\ Commit(o, k) /\ work' = [work EXCEPT ![o] = w]
         /\ Signal("USR1") \/ (slon' = [slon EXCEPT !.got[o] = k] /\ UNCHANGED sig)
      \/ /\ Signal("USR1") /\ work' = [work EXCEPT ![o].pc = "none"]
         /\ UNCHANGED <<cfg, done, notify>>
  BY Zenon DEF CommitEvent
<1>w. "pc" \in DOMAIN w /\ w.pc \in WorkerPcs \ {"commit"}
  BY DEF AfterCommit, WorkerPcs
<1>m. Follows(mem, mem') /\ mem'.ok
  BY <1>i, <1>u, FollowsItself, Zenon DEF MemInv
<1>g. Signal("USR1") => /\ sig' \in {"none", "HUP", "USR1", "TERM"}
                        /\ DOMAIN slon' = DOMAIN slon /\ slon'.pc = slon.pc
                        /\ Loaded => slon'.got = slon.got /\ slon'.activate = slon.activate
  BY <1>i, SignalSent, Zenon
<1> HIDE DEF k, e, w
<1>1. CASE /\ Committed(o, k) /\ Commit(o, k) /\ work' = [work EXCEPT ![o] = w]
           /\ Signal("USR1") \/ (slon' = [slon EXCEPT !.got[o] = k] /\ UNCHANGED sig)
  <2>1. TablesInv'
    BY <1>1, <1>i, <1>l, <1>u, CommitTyped, Zenon
  <2>2. /\ sig' \in {"none", "HUP", "USR1", "TERM"}
        /\ DOMAIN slon' = DOMAIN slon /\ slon'.pc = slon.pc /\ slon'.activate = slon.activate
        /\ DOMAIN slon'.got = Other
        /\ \A p \in Other \ {o} : slon'.got[p] = slon.got[p]
        /\ slon'.got[o] = k \/ slon'.got[o] = slon.got[o]
    <3>1. DOMAIN slon = MainFields /\ DOMAIN slon.got = Other
      BY <1>i, <1>l, Zenon DEF MainInv
    <3>2. CASE Signal("USR1")
      BY <1>g, <1>l, <3>1, <3>2, Zenon
    <3>3. CASE slon' = [slon EXCEPT !.got[o] = k] /\ UNCHANGED sig
      <4>1. /\ DOMAIN slon' = DOMAIN slon /\ slon'.pc = slon.pc /\ slon'.activate = slon.activate
            /\ slon'.got = [slon.got EXCEPT ![o] = k]
        BY <3>1, <3>3 DEF MainFields
      <4>2. DOMAIN slon'.got = Other /\ \A p \in Other : slon'.got[p] = IF p = o THEN k ELSE slon.got[p]
        BY <3>1, <4>1, Zenon
      <4> QED
        BY <1>i, <3>3, <4>1, <4>2, Zenon DEF WatchInv
    <3> QED
      BY <1>1, <3>2, <3>3, Zenon
  <2>3. MainInv'
    <3>1. k \in 0 .. Len(remote[o])
      BY <1>l
    <3>2. \A p \in Other : slon'.got[p] \in 0 .. Len(remote'[p])
      BY <1>i, <1>l, <1>u, <2>2, <3>1, Zenon DEF MainInv
    <3> QED
      BY <1>i, <1>l, <2>2, <3>2, Zenon DEF MainInv
  <2>4. WorkerInv'
    BY <1>1, <1>i, <1>u, <1>w, <2>2, WorkerMoved, Zenon
  <2>5. MemInv'
    BY <1>i, <1>m, <2>2, MemKept, Zenon
  <2> QED
    BY <1>i, <1>u, <2>1, <2>2, <2>3, <2>4, <2>5, WatchKept, ZenonT(40) DEF ThreadsInv, ListenerInv
<1>2. CASE /\ Signal("USR1") /\ work' = [work EXCEPT ![o].pc = "none"]
           /\ UNCHANGED <<cfg, done, notify>>
  <2>1. PICK v : work' = [work EXCEPT ![o] = v] /\ "pc" \in DOMAIN v /\ v.pc = "none"
    BY <1>2, <1>i, WorkerGoes, Zenon
  <2>2. WorkerInv'
    BY <1>2, <1>i, <1>u, <1>g, <2>1, WorkerMoved, Zenon DEF WorkerPcs
  <2>3. MemInv'
    BY <1>2, <1>i, <1>m, <1>g, MemKept, Zenon
  <2>4. TablesInv'
    BY <1>2, <1>i, <1>u, TablesKept, Zenon DEF TablesInv
  <2> QED
    BY <1>2, <1>i, <1>u, <1>g, <2>2, <2>3, <2>4, MainKept, WatchKept, ZenonT(40) DEF ThreadsInv, ListenerInv
<1> QED
  BY <1>s, <1>1, <1>2, ZenonT(40)

LEMMA ReloadTyped ==
    ASSUME ThreadsInv, GoodMemory(mem), NEW o \in Other,
           ClearListens(o) \/ QueryListens(o) \/ StoreQueried(o) \/ ReloadSets(o)
    PROVE  ThreadsInv'
<1>i. TablesInv /\ WatchInv /\ MainInv /\ MemInv /\ ListenerInv /\ WorkerInv
  BY Zenon DEF ThreadsInv
<1>u. UNCHANGED <<cfg, done, lock, orphan, script, remote, linger, notify, wd, ll>>
  BY Zenon DEF ClearListens, QueryListens, StoreQueried, ReloadSets, database, world
<1>t. TablesInv' /\ ListenerInv'
  BY <1>i, <1>u, TablesKept, Zenon DEF TablesInv, ListenerInv
<1>k. ASSUME UNCHANGED <<sig, slon>> \/ Signal("USR1"), Follows(mem, mem'), mem'.ok,
             NEW w, work' = [work EXCEPT ![o] = w], "pc" \in DOMAIN w, w.pc \in WorkerPcs \ {"commit"}
      PROVE  ThreadsInv'
  <2>1. /\ sig' \in {"none", "HUP", "USR1", "TERM"}
        /\ DOMAIN slon' = DOMAIN slon /\ slon'.pc = slon.pc
        /\ Loaded => slon'.got = slon.got /\ slon'.activate = slon.activate
    BY <1>k, <1>i, SignalSent, Zenon DEF WatchInv
  <2>2. WorkerInv'
    BY <1>k, <1>i, <1>u, <2>1, WorkerMoved, Zenon
  <2> QED
    BY <1>k, <1>i, <1>u, <1>t, <2>1, <2>2, MainKept, WatchKept, MemKept, ZenonT(40) DEF ThreadsInv
<1>m. Follows(mem, mem) /\ mem.ok
  BY <1>i, FollowsItself, Zenon DEF MemInv
<1>1. ASSUME ClearListens(o) PROVE ThreadsInv'
  <2>1. ClearListen(mem).ok
    BY <1>m DEF ClearListen, Bump, GoodMemory, MemoryFields
  <2>2. PICK w : work' = [work EXCEPT ![o] = w] /\ "pc" \in DOMAIN w /\ w.pc = "query"
    BY <1>1, <1>i, WorkerGoes, ZenonT(40) DEF ClearListens
  <2> QED
    BY <1>1, <1>k, <2>1, <2>2, ListenCallsFollow, Zenon DEF ClearListens, WorkerPcs
<1>2. ASSUME QueryListens(o) PROVE ThreadsInv'
  <2> DEFINE w == [pc |-> "store", sets |-> work[o].sets, rows |-> ListenRows(cfg)]
  <2>1. "pc" \in DOMAIN w /\ w.pc = "store"
    OBVIOUS
  <2>2. work' = [work EXCEPT ![o] = w] /\ UNCHANGED <<sig, slon, mem>>
    BY <1>2, Zenon DEF QueryListens
  <2> HIDE DEF w
  <2> QED
    BY <1>k, <1>m, <2>1, <2>2, Zenon DEF WorkerPcs
<1>3. ASSUME StoreQueried(o) PROVE ThreadsInv'
  <2> DEFINE m == StoreListens(mem, work[o].rows)
             w == [pc |-> IF ~m.ok THEN "none" ELSE IF work[o].sets THEN "sets" ELSE "idle",
                   sets |-> work[o].sets]
  <2>1. "pc" \in DOMAIN w /\ w.pc \in WorkerPcs \ {"commit"}
    BY DEF WorkerPcs
  <2>2. /\ work' = [work EXCEPT ![o] = w]
        /\ \/ m.ok /\ mem' = m /\ UNCHANGED <<sig, slon>>
           \/ Signal("USR1") /\ UNCHANGED mem
    BY <1>3, Zenon DEF StoreQueried
  <2>3. Follows(mem, m)
    BY ListenCallsFollow, Zenon
  <2> HIDE DEF w, m
  <2> QED
    BY <1>k, <1>m, <2>1, <2>2, <2>3, ZenonT(40)
<1>4. ASSUME ReloadSets(o) PROVE ThreadsInv'
  <2>1. rtcfg_reloadSets(mem, cfg).ok = mem.ok
    BY DEF rtcfg_reloadSets, GoodMemory, MemoryFields
  <2>2. PICK w : work' = [work EXCEPT ![o] = w] /\ "pc" \in DOMAIN w /\ w.pc = "idle"
    BY <1>4, <1>i, WorkerGoes, ZenonT(40) DEF ReloadSets
  <2> QED
    BY <1>4, <1>k, <1>m, <2>1, <2>2, SetCallsFollow, Zenon DEF ReloadSets, WorkerPcs
<1> QED
  BY <1>1, <1>2, <1>3, <1>4, Zenon

(* A remote listener. *)
LEMMA RemoteListenerTyped ==
    ASSUME ThreadsInv, GoodMemory(mem), NEW p \in Other, RemoteListener(p)
    PROVE  ThreadsInv'
<1>i. TablesInv /\ WatchInv /\ MainInv /\ MemInv /\ ListenerInv /\ WorkerInv
  BY Zenon DEF ThreadsInv
<1>u. UNCHANGED <<cfg, done, lock, orphan, script, remote, linger, notify, wd, sig, slon, ll, work>>
  BY Zenon DEF RemoteListener, Look, Leave, database, world
<1>m. /\ mem'.ok = mem.ok /\ mem'.node = mem.node /\ mem'.active = mem.active
      /\ mem'.worker = mem.worker /\ mem'.path = mem.path
  <2>1. \/ UNCHANGED mem
        \/ mem' = [mem EXCEPT !.status[p] = "RUNNING", !.stale = @ \ {p}]
        \/ mem' = [mem EXCEPT !.status[p] = "DONE", !.thread[p] = @ - 1]
    BY Zenon DEF RemoteListener, Look, Leave
  <2> QED
    BY <2>1, Zenon DEF GoodMemory, MemoryFields
<1>1. TablesInv'
  BY <1>i, <1>u, TablesKept, Zenon DEF TablesInv
<1>2. MemInv'
  BY <1>i, <1>u, <1>m, Zenon DEF MemInv, Contained
<1> QED
  BY <1>i, <1>u, <1>1, <1>2, MainKept, WatchKept, WorkerKept, Zenon
     DEF ThreadsInv, ListenerInv, WatchInv

(* The worker process ends. *)
LEMMA EndTyped ==
    ASSUME ThreadsInv, NEW pc \in {"killed", "finished"}, End(pc), UNCHANGED <<script, remote>>
    PROVE  TablesInv' /\ MainInv' /\ MemInv' /\ ListenerInv' /\ WorkerInv' /\ slon'.pc = pc
<1> DEFINE sent == {o \in Other : work[o].pc = "commit"}
<1>i. TablesInv /\ MainInv /\ WorkerInv
  BY Zenon DEF ThreadsInv
<1>s. slon'.pc = pc /\ DOMAIN slon' = {"pc"} /\ ~Loaded'
  BY DEF End, NoProcess, Loaded
<1>1. TablesInv'
  <2>1. \A x \in orphan' : x[1] \in Other /\ x[2] \in 1 .. Len(remote'[x[1]])
    <3> SUFFICES ASSUME NEW x \in orphan'
                 PROVE  x[1] \in Other /\ x[2] \in 1 .. Len(remote[x[1]])
      BY Zenon
    <3>1. x \in orphan \/ \E o \in sent : x = <<o, slon.got[o] + 1>>
      BY Zenon DEF End
    <3>2. CASE x \in orphan
      BY <1>i, <3>2, Zenon DEF TablesInv
    <3>3. ASSUME NEW o \in sent, x = <<o, slon.got[o] + 1>>
          PROVE  x[1] \in Other /\ x[2] \in 1 .. Len(remote[x[1]])
      <4>1. o \in Other /\ slon.got[o] + 1 \in 1 .. Len(remote[o])
        BY <1>i, Zenon DEF WorkerInv
      <4>2. x[1] = o /\ x[2] = slon.got[o] + 1
        BY <3>3
      <4> QED
        BY <4>1, <4>2, Zenon
    <3> QED
      BY <3>1, <3>2, <3>3, Zenon
  <2>2. lock' \in {0} \cup Other \cup {-o : o \in Other}
    <3>1. lock' = 0 \/ lock' = lock \/ (lock \in sent /\ lock' = -lock)
      BY Zenon DEF End
    <3>2. sent \subseteq Other
      BY Zenon
    <3> HIDE DEF sent
    <3> QED
      BY <1>i, <3>1, <3>2, Zenon DEF TablesInv
  <2>3. linger' \in BOOLEAN /\ notify' \in BOOLEAN /\ UNCHANGED <<cfg, done>>
    BY Zenon DEF End
  <2> QED
    BY <1>i, <2>1, <2>2, <2>3, Zenon DEF TablesInv, GoodConfig
<1>2. MainInv'
  BY <1>s, Zenon DEF MainInv
<1>3. MemInv'
  <2> DEFINE none == [initializeLocalNode(Self) EXCEPT !.known = {}]
  <2> HIDE DEF none
  <2>1. /\ mem'.ok = TRUE /\ mem'.worker = {} /\ mem'.active = {} /\ mem'.path = PathsOf(none)
        /\ mem'.node = (none.known \ {none.id}) \cup PathsOf(none)
    BY Zenon DEF End, NoMemory, LoadConfig, none
  <2> QED
    BY <1>s, <2>1, Zenon DEF MemInv, Contained
<1>4. ListenerInv'
  BY DEF End, NoThread, ListenerInv
<1>5. WorkerInv'
  <2>1. work' = [o \in Other |-> Idle] /\ "pc" \in DOMAIN Idle /\ Idle.pc = "idle"
    BY DEF End, Idle
  <2> QED
    BY <2>1, Zenon DEF WorkerInv, WorkerPcs
<1> QED
  BY <1>s, <1>1, <1>2, <1>3, <1>4, <1>5, Zenon

(* Nothing but the watchdog and the signals. *)
LEMMA NothingElse ==
    ASSUME ThreadsInv, UNCHANGED <<database, linger, notify, script, remote, process>>, WatchInv'
    PROVE  ThreadsInv'
<1>1. TablesInv'
  BY TablesKept, Zenon DEF ThreadsInv, TablesInv, database
<1> QED
  BY <1>1, Zenon DEF ThreadsInv, MainInv, MemInv, Contained, ListenerInv, WorkerInv, Loaded, process

LEMMA WatchdogRecord ==
    ASSUME NEW w \in WatchdogStates
    PROVE  /\ [w EXCEPT !.pc = "sleep20"] \in WatchdogStates
           /\ [w EXCEPT !.pc = "exited"] \in WatchdogStates /\ [w EXCEPT !.pc = "exited"].pc = "exited"
           /\ [w EXCEPT !.status = "NORMAL"] \in WatchdogStates /\ [w EXCEPT !.status = "NORMAL"].pc = w.pc
           /\ [pc |-> "sleep10", status |-> "RETRY"] \in WatchdogStates
           /\ [pc |-> "waiting", status |-> "NORMAL"] \in WatchdogStates
           /\ [pc |-> "waiting", status |-> "NORMAL"].pc = "waiting"
BY DEF WatchdogStates

LEMMA HandleTyped ==
    ASSUME ThreadsInv, NEW s \in {"RESTART", "RETRY", "SHUTDOWN"}, Handle(s),
           UNCHANGED <<script, remote>>, sig' \in {sig, "none"}
    PROVE  ThreadsInv'
<1>1. /\ wd' \in WatchdogStates
      /\ wd'.pc = wd.pc
  BY DEF Handle, ThreadsInv, WatchInv, WatchdogStates
<1>2. sig' \in {"none", "HUP", "USR1", "TERM"}
  BY Zenon DEF ThreadsInv, WatchInv
<1>3. ASSUME Alive, End("killed") PROVE ThreadsInv'
  <2>1. wd.pc \notin {"sleep20", "sleep10"}
    BY <1>3, Zenon DEF Alive, ThreadsInv, WatchInv
  <2>2. WatchInv'
    BY <1>1, <1>2, <2>1, Zenon DEF WatchInv
  <2> QED
    BY <1>3, <2>2, EndTyped, Zenon DEF ThreadsInv
<1>4. ASSUME UNCHANGED <<database, linger, notify, process>> PROVE ThreadsInv'
  <2>1. WatchInv'
    BY <1>1, <1>2, <1>4, Zenon DEF ThreadsInv, WatchInv, process
  <2> QED
    BY <1>4, <2>1, NothingElse, Zenon
<1> QED
  BY <1>3, <1>4, Zenon DEF Handle

LEMMA DisturbTyped ==
    ASSUME ThreadsInv, Disturb
    PROVE  ThreadsInv'
<1>1. ASSUME NEW s \in Signals, OperatorSignal(s) PROVE ThreadsInv'
  BY <1>1, HandleTyped, Zenon DEF OperatorSignal
<1>2. ASSUME NEW pc \in {"killed", "finished"}, End(pc), Alive, UNCHANGED <<sig, script, remote>>,
             wd' = wd \/ wd' = [wd EXCEPT !.pc = "exited"]
      PROVE  ThreadsInv'
  <2>1. /\ wd' \in WatchdogStates
        /\ wd'.pc \in {wd.pc, "exited"}
    BY <1>2 DEF ThreadsInv, WatchInv, WatchdogStates
  <2>2. wd.pc \notin {"sleep20", "sleep10"} /\ sig \in {"none", "HUP", "USR1", "TERM"}
    BY <1>2, Zenon DEF Alive, ThreadsInv, WatchInv
  <2>3. WatchInv'
    BY <1>2, <2>1, <2>2, Zenon DEF WatchInv
  <2> QED
    BY <1>2, <2>3, EndTyped, Zenon DEF ThreadsInv
<1>3. ASSUME Crash PROVE ThreadsInv'
  BY <1>2, <1>3, Zenon DEF Crash
<1>4. ASSUME SchedulerFails PROVE ThreadsInv'
  BY <1>2, <1>4, Zenon DEF SchedulerFails, Alive
<1>5. ASSUME Quit PROVE ThreadsInv'
  <2>1. CASE Alive
    BY <1>2, <1>5, <2>1, Zenon DEF Quit
  <2>2. CASE ~Alive
    <3>1. UNCHANGED <<database, linger, notify, process, sig, script, remote>>
      BY <1>5, <2>2, Zenon DEF Quit
    <3>2. wd' \in WatchdogStates /\ wd'.pc = "exited"
      BY <1>5, WatchdogRecord, Zenon DEF Quit, ThreadsInv, WatchInv
    <3>3. WatchInv'
      BY <3>1, <3>2, Zenon DEF ThreadsInv, WatchInv
    <3> QED
      BY <3>1, <3>3, NothingElse, Zenon
  <2> QED
    BY <2>1, <2>2, Zenon
<1> QED
  BY <1>1, <1>3, <1>4, <1>5, Zenon DEF Disturb

LEMMA WatchdogTyped ==
    ASSUME ThreadsInv, Watchdog
    PROVE  ThreadsInv'
<1>i. TablesInv /\ WatchInv /\ MainInv /\ MemInv /\ ListenerInv /\ WorkerInv
  BY Zenon DEF ThreadsInv
<1>1. ASSUME WorkerSignal PROVE ThreadsInv'
  <2> DEFINE s == CASE sig = "HUP" -> "RESTART" [] sig = "USR1" -> "RETRY" [] sig = "TERM" -> "SHUTDOWN"
  <2>1. s \in {"RESTART", "RETRY", "SHUTDOWN"}
    BY <1>1, <1>i, Zenon DEF WorkerSignal, WatchInv
  <2>2. Handle(s) /\ sig' = "none" /\ UNCHANGED <<script, remote>>
    BY <1>1, Zenon DEF WorkerSignal
  <2> HIDE DEF s
  <2> QED
    BY <2>1, <2>2, HandleTyped, Zenon
<1>k. ASSUME UNCHANGED <<database, linger, notify, sig, mem, ll, work, script, remote>>,
             wd' \in WatchdogStates,
             slon.pc \in {"none", "killed", "finished"}, "pc" \in DOMAIN slon',
             slon'.pc \in {"none", "load", "killed", "finished"},
             wd'.pc \in {"sleep20", "sleep10"} => slon'.pc = "none"
      PROVE  ThreadsInv'
  <2>1. ~Loaded /\ ~Loaded'
    BY <1>k, Zenon DEF Loaded
  <2>2. TablesInv'
    BY <1>i, <1>k, TablesKept, Zenon DEF TablesInv, database
  <2>3. WatchInv' /\ MainInv'
    BY <1>i, <1>k, <2>1, Zenon DEF WatchInv, MainInv
  <2>4. MemInv'
    BY <1>i, <1>k, Zenon DEF MemInv, Contained
  <2>5. ListenerInv' /\ WorkerInv'
    BY <1>i, <1>k, <2>1, Zenon DEF ListenerInv, WorkerInv
  <2> QED
    BY <2>2, <2>3, <2>4, <2>5, Zenon DEF ThreadsInv
<1>f. /\ "pc" \in DOMAIN Forked(TRUE) /\ Forked(TRUE).pc = "load"
      /\ "pc" \in DOMAIN NoProcess("none") /\ NoProcess("none").pc = "none"
  BY DEF Forked, NoProcess
<1>2. ASSUME Reap PROVE ThreadsInv'
  <2>1. /\ UNCHANGED <<database, linger, notify, sig, mem, ll, work, script, remote>>
        /\ slon.pc \in {"none", "killed", "finished"}
    BY <1>2, Zenon DEF Reap, world
  <2>2. \/ wd' = [wd EXCEPT !.pc = "sleep20"] /\ slon' = NoProcess("none")
        \/ wd' = [pc |-> "sleep10", status |-> "RETRY"] /\ slon' = NoProcess("none")
        \/ wd' = [wd EXCEPT !.status = "NORMAL"] /\ slon' = Forked(TRUE) /\ wd.pc = "waiting"
        \/ wd' = [wd EXCEPT !.pc = "exited"] /\ slon' = NoProcess("none")
    BY <1>2, Zenon DEF Reap
  <2>3. /\ wd' \in WatchdogStates
        /\ wd'.pc \in {"sleep20", "sleep10"} => slon' = NoProcess("none")
    BY <1>i, <2>2, WatchdogRecord, Zenon DEF WatchInv
  <2> QED
    BY <1>f, <1>k, <2>1, <2>2, <2>3, Zenon
<1>3. ASSUME RestartWorker \/ RetryWorker PROVE ThreadsInv'
  <2>1. /\ UNCHANGED <<database, linger, notify, sig, mem, ll, work, script, remote>>
        /\ wd.pc \in {"sleep20", "sleep10"}
    BY <1>3, Zenon DEF RestartWorker, RetryWorker, world
  <2>2. slon.pc = "none"
    BY <1>i, <2>1, Zenon DEF WatchInv
  <2>3. \/ wd' = [pc |-> "waiting", status |-> "NORMAL"] /\ slon' = Forked(TRUE)
        \/ wd' = [wd EXCEPT !.pc = "exited"] /\ UNCHANGED slon
    BY <1>3, Zenon DEF RestartWorker, RetryWorker
  <2>4. /\ wd' \in WatchdogStates
        /\ wd'.pc \notin {"sleep20", "sleep10"}
    BY <1>i, <2>3, WatchdogRecord, Zenon DEF WatchInv
  <2> QED
    BY <1>f, <1>i, <1>k, <2>1, <2>2, <2>3, <2>4, Zenon DEF MainInv
<1> QED
  BY <1>1, <1>2, <1>3, Zenon DEF Watchdog

LEMMA BackendsTyped ==
    ASSUME ThreadsInv, Backends
    PROVE  ThreadsInv'
<1>i. TablesInv /\ WatchInv /\ MainInv /\ MemInv /\ ListenerInv /\ WorkerInv
  BY Zenon DEF ThreadsInv
<1>u. UNCHANGED <<wd, sig, slon, mem, ll, work, script, remote>>
  BY Zenon DEF Backends, BackendGone, OrphanCommits, OrphanAborts, process, world
<1>k. ASSUME TablesInv' PROVE ThreadsInv'
  BY <1>i, <1>u, <1>k, MainKept, WatchKept, WorkerKept, Zenon
     DEF ThreadsInv, MemInv, Contained, ListenerInv, WatchInv
<1>1. ASSUME BackendGone PROVE TablesInv'
  BY <1>1, <1>i, <1>u, TablesKept, Zenon DEF BackendGone, TablesInv, database
<1>2. ASSUME NEW x \in orphan, Committed(x[1], x[2]), Commit(x[1], x[2]), orphan' = orphan \ {x},
             lock' = 0 \/ lock' = lock, UNCHANGED linger
      PROVE  TablesInv'
  <2>1. PICK o, k : o = x[1] /\ k = x[2]
    BY Zenon
  <2>2. o \in Other /\ k \in 1 .. Len(remote[o])
    BY <1>i, <2>1, Zenon DEF TablesInv
  <2>3. /\ Committed(o, k) /\ Commit(o, k) /\ orphan' \subseteq orphan
        /\ lock' \in {0} \cup Other \cup {-p : p \in Other}
    BY <1>2, <1>i, <2>1, Zenon DEF TablesInv
  <2> QED
    BY <1>2, <1>i, <1>u, <2>2, <2>3, CommitTyped, Zenon
<1>3. ASSUME OrphanCommits PROVE TablesInv'
  BY <1>2, <1>3, Zenon DEF OrphanCommits
<1>4. ASSUME OrphanAborts PROVE TablesInv'
  <2>1. /\ orphan' \subseteq orphan /\ (lock' = 0 \/ lock' = lock)
        /\ UNCHANGED <<cfg, done, linger, notify>>
    BY <1>4, Zenon DEF OrphanAborts
  <2> QED
    BY <1>i, <1>u, <2>1, Zenon DEF TablesInv, GoodConfig
<1> QED
  BY <1>k, <1>1, <1>3, <1>4, Zenon DEF Backends

LEMMA ExecuteTyped ==
    ASSUME ThreadsInv, GoodMemory(mem), Execute
    PROVE  ThreadsInv'
<1> DEFINE r == Executed(cfg, Head(script))
<1>i. TablesInv /\ WatchInv /\ MainInv /\ MemInv /\ ListenerInv /\ WorkerInv
  BY Zenon DEF ThreadsInv
<1>u. UNCHANGED <<done, lock, orphan, linger, wd, sig, mem, ll, work, remote>>
  BY Zenon DEF Execute
<1>1. Head(script) \in Statements /\ Tail(script) \in Seq(Statements)
  <2>1. script \in Seq(Statements) /\ script # <<>>
    BY <1>i, Zenon DEF TablesInv, Execute
  <2> QED
    BY <2>1
<1>2. GoodResult(r)
  BY <1>i, <1>1, StatementGood, CaseAssumption, Zenon DEF TablesInv
<1>3. GoodConfig(cfg')
  <2>1. cfg' = IF r.ok THEN r.c ELSE cfg
    BY Zenon DEF Execute
  <2> HIDE DEF r
  <2> QED
    BY <1>i, <1>2, <2>1, Zenon DEF GoodResult, TablesInv
<1>4. notify' \in BOOLEAN
  BY NotifyIsBoolean, Zenon DEF Execute
<1>5. TablesInv'
  <2>1. script' = Tail(script)
    BY Zenon DEF Execute
  <2> QED
    BY <1>i, <1>u, <1>1, <1>3, <1>4, <2>1, Zenon DEF TablesInv, GoodConfig
<1>6. slon' = slon \/ slon' = [slon EXCEPT !.missed = TRUE]
  BY Zenon DEF Execute
<1>7. /\ DOMAIN slon' = DOMAIN slon /\ slon'.pc = slon.pc
      /\ Loaded => slon'.got = slon.got /\ slon'.activate = slon.activate
  BY <1>i, <1>6, OtherFieldSet, Zenon
<1>8. MemInv'
  BY <1>i, <1>u, <1>7, FollowsItself, MemKept, Zenon DEF MemInv
<1> QED
  BY <1>i, <1>u, <1>5, <1>7, <1>8, MainKept, WatchKept, WorkerKept, Zenon
     DEF ThreadsInv, ListenerInv, WatchInv

(* A node is enabled, gets a worker or a conninfo only in a list that contains it,
   and no worker commits an event that is not there, whichever thread, process or
   backend takes the next step. *)
THEOREM DaemonTypes == Spec => []TypeOK
<1>1. Init => ThreadsInv
  <2> SUFFICES ASSUME Init PROVE ThreadsInv
    BY Zenon
  <2>1. PICK x \in Cases : /\ cfg = x.cfg /\ linger = x.linger /\ script = x.script /\ remote = x.remote
                           /\ done = [o \in Other |-> 0]
    BY Zenon DEF Init
  <2>2. TablesInv
    <3>1. GoodConfig(cfg) /\ linger \in BOOLEAN /\ script \in Seq(Statements) /\ remote \in [Other -> Seq(Events)]
      <4>1. DOMAIN initializeLocalNode(Self) = ConfigFields
        BY DEF initializeLocalNode, ConfigFields
      <4> QED
        BY <2>1, <4>1, CaseAssumption, Zenon DEF GoodConfig
    <3>2. \A o \in Other : 0 \in 0 .. Len(remote[o])
      <4> SUFFICES ASSUME NEW o \in Other PROVE 0 \in 0 .. Len(remote[o])
        BY Zenon
      <4>1. remote[o] \in Seq(Events)
        BY <3>1, Zenon
      <4> QED
        BY <4>1
    <3>3. DOMAIN done = Other /\ \A o \in Other : done[o] = 0
      BY <2>1, Zenon
    <3>4. lock = 0 /\ orphan = {} /\ notify = FALSE
      BY Zenon DEF Init
    <3> QED
      BY <3>1, <3>2, <3>3, <3>4, Zenon DEF TablesInv
  <2>3. slon.pc = "load" /\ "pc" \in DOMAIN slon /\ ~Loaded
    BY DEF Init, Forked, Loaded
  <2>4. WatchInv
    BY DEF Init, WatchInv, WatchdogStates
  <2>5. MainInv
    BY <2>3, Zenon DEF MainInv
  <2>6. MemInv
    <3> DEFINE none == [initializeLocalNode(Self) EXCEPT !.known = {}]
    <3> HIDE DEF none
    <3>1. /\ mem.ok = TRUE /\ mem.worker = {} /\ mem.active = {} /\ mem.path = PathsOf(none)
          /\ mem.node = (none.known \ {none.id}) \cup PathsOf(none)
      BY Zenon DEF Init, NoMemory, LoadConfig, none
    <3> QED
      BY <2>3, <3>1, Zenon DEF MemInv, Contained
  <2>7. ListenerInv
    BY DEF Init, NoThread, ListenerInv
  <2>8. WorkerInv
    <3>1. work = [o \in Other |-> Idle] /\ "pc" \in DOMAIN Idle /\ Idle.pc = "idle"
      BY DEF Init, Idle
    <3> QED
      BY <3>1, Zenon DEF WorkerInv, WorkerPcs
  <2> QED
    BY <2>2, <2>4, <2>5, <2>6, <2>7, <2>8, Zenon DEF ThreadsInv
<1>2. DaemonInv /\ ThreadsInv /\ [Next]_vars => ThreadsInv'
  <2> SUFFICES ASSUME DaemonInv, ThreadsInv, [Next]_vars PROVE ThreadsInv'
    BY Zenon
  <2>g. GoodMemory(mem)
    BY Zenon DEF DaemonInv
  <2>1. ASSUME MainThread \/ LocalListener PROVE ThreadsInv'
    BY <2>g, <2>1, MainThreadTyped, LocalListenerTyped, Zenon
  <2>2. ASSUME NEW o \in Other, RemoteWorker(o) PROVE ThreadsInv'
    BY <2>g, <2>2, StartEventTyped, StartFailoverTyped, CommitEventTyped, ReloadTyped, Zenon
       DEF RemoteWorker
  <2>3. ASSUME NEW p \in Other, RemoteListener(p) PROVE ThreadsInv'
    BY <2>g, <2>3, RemoteListenerTyped, Zenon
  <2>4. ASSUME Watchdog \/ Backends \/ Disturb \/ Execute PROVE ThreadsInv'
    BY <2>g, <2>4, WatchdogTyped, BackendsTyped, DisturbTyped, ExecuteTyped, Zenon
  <2>5. ASSUME UNCHANGED vars PROVE ThreadsInv'
    <3>1. UNCHANGED <<database, linger, notify, script, remote, process>> /\ UNCHANGED <<wd, sig, slon>>
      BY <2>5, Zenon DEF vars, process, world
    <3>2. WatchInv'
      BY <3>1, Zenon DEF ThreadsInv, WatchInv
    <3> QED
      BY <3>1, <3>2, NothingElse, Zenon
  <2> QED
    BY <2>1, <2>2, <2>3, <2>4, <2>5, Zenon DEF Next, Step
<1>3. DaemonInv /\ ThreadsInv => TypeOK
  <2> SUFFICES ASSUME DaemonInv, ThreadsInv PROVE TypeOK
    BY Zenon
  <2>1. DOMAIN initializeLocalNode(Self) = ConfigFields
    BY DEF initializeLocalNode, ConfigFields
  <2>2. \A n \in Node : mem.status[n] \in {"NONE", "RUNNING", "SHUTDOWN", "RESTART", "DONE"}
    BY Zenon DEF DaemonInv, GoodMemory, HasThread, HasNone
  <2>3. /\ GoodConfig(cfg) /\ \A o \in Other : done[o] \in 0 .. Len(remote[o])
        /\ lock \in {0} \cup Other \cup {-o : o \in Other}
        /\ \A x \in orphan : x[1] \in Other /\ x[2] \in 1 .. Len(remote[x[1]])
        /\ {linger, notify} \subseteq BOOLEAN
    BY Zenon DEF ThreadsInv, TablesInv
  <2> QED
    BY <2>1, <2>2, <2>3, Zenon
       DEF TypeOK, ThreadsInv, GoodConfig, WatchInv, MemInv, Contained, ListenerInv, WorkerInv, WorkerPcs,
           WatchdogStates
<1> QED
  BY <1>1, <1>2, <1>3, DaemonInvariant, PTL DEF Spec
=============================================================================
