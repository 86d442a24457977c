---------------------------- MODULE RuntimeConfig ----------------------------
(***************************************************************************)
(* The configuration that a slon keeps in memory (runtime_config.c).  All  *)
(* threads of the process share it.  It is a record:                       *)
(*                                                                         *)
(*   node, active   the other nodes it knows, and those that are enabled   *)
(*   path           the nodes it has a conninfo for                        *)
(*   listen         <<origin, provider>>: whose events to look for where   *)
(*   set            the sets, with its own subscription to them            *)
(*   worker         the nodes with a remote worker thread                  *)
(*   status         listen_status of every node                            *)
(*   thread         the number of remote listener threads of every node    *)
(*   stale          the nodes whose listener has not yet seen the current  *)
(*                  value of the counter cfgseq                            *)
(*   ok             FALSE when the caller finds itself calling slon_retry  *)
(***************************************************************************)
EXTENDS Configuration, Integers

CONSTANT Node

NoProvider == 0

(* rtcfg_seq_bump: every listener has to look at the configuration again. *)
Bump(m) == [m EXCEPT !.stale = Node]

Fatal(m) == [m EXCEPT !.ok = FALSE]

NeedListen(m, n) == n \in m.active /\ \E e \in m.listen : e[2] = n

(* A mutant: a thread that is to leave counts as none. *)
NextStatusForgetful(need, s) ==
    CASE s = "DONE"                              -> "NONE"
      [] need /\ s \in {"NONE", "SHUTDOWN"}      -> "RUNNING"
      [] ~need /\ s \in {"RUNNING", "RESTART"}   -> "SHUTDOWN"
      [] OTHER                                   -> s

(* What becomes of listen_status.  A thread that is done is joined, and one is
   started only by the next call. *)
NextStatus(need, s) ==
    CASE s = "DONE"                              -> "NONE"
      [] need /\ s = "NONE"                      -> "RUNNING"
      [] need /\ s = "SHUTDOWN"                  -> "RESTART"
      [] ~need /\ s \in {"RUNNING", "RESTART"}   -> "SHUTDOWN"
      [] OTHER                                   -> s

(* Workers are started, never stopped. *)
startStopNodeThread(m, n) ==
    LET new   == NextStatus(NeedListen(m, n), m.status[n])
        start == new = "RUNNING" /\ m.status[n] # "RUNNING"
    IN  [m EXCEPT !.worker = IF n \in m.active THEN @ \cup {n} ELSE @,
                  !.status[n] = new,
                  !.thread[n] = IF start THEN @ + 1 ELSE @,
                  !.stale = IF start THEN @ \cup {n} ELSE @]

(* The same for the nodes ns, one after the other: a call looks at and changes
   its own node only. *)
startStopNodeThreads(m, ns) ==
    LET new(n)   == NextStatus(NeedListen(m, n), m.status[n])
        start(n) == n \in ns /\ new(n) = "RUNNING" /\ m.status[n] # "RUNNING"
    IN  [m EXCEPT !.worker = @ \cup (ns \cap m.active),
                  !.status = [n \in Node |-> IF n \in ns THEN new(n) ELSE @[n]],
                  !.thread = [n \in Node |-> IF start(n) THEN @[n] + 1 ELSE @[n]],
                  !.stale = @ \cup {n \in Node : start(n)}]
-----------------------------------------------------------------------------
rtcfg_storeNode(m, n) ==
    IF n \in m.node THEN m ELSE Bump([m EXCEPT !.node = @ \cup {n}])

(* A mutant: cfgseq is not increased. *)
EnableUnseen(m, n) ==
    IF n \notin m.node THEN Fatal(m)
    ELSE startStopNodeThread([m EXCEPT !.active = @ \cup {n}], n)

rtcfg_enableNode(m, n) ==
    IF n \notin m.node THEN Fatal(m)
    ELSE startStopNodeThread(Bump([m EXCEPT !.active = @ \cup {n}]), n)

(* The threads of the node are not stopped here. *)
rtcfg_disableNode(m, n) ==
    IF n \notin m.node THEN Fatal(m) ELSE Bump([m EXCEPT !.active = @ \ {n}])

(* It is called for each node of a list. *)
DisableNodes(m, ns) ==
    IF ns \subseteq m.node
    THEN (IF ns = {} THEN m ELSE Bump([m EXCEPT !.active = @ \ ns]))
    ELSE Fatal(m)

(* A mutant: the node is taken to be known. *)
StorePathOnly(m, s) == startStopNodeThread(Bump([m EXCEPT !.path = @ \cup {s}]), s)

rtcfg_storePath(m, s) ==
    startStopNodeThread(Bump([rtcfg_storeNode(m, s) EXCEPT !.path = @ \cup {s}]), s)

rtcfg_dropPath(m, s) ==
    IF s \notin m.node THEN m
    ELSE startStopNodeThread(Bump([m EXCEPT !.path = @ \ {s},
                                            !.listen = {e \in @ : e[2] # s}]), s)

rtcfg_storeListen(m, o, p) ==
    IF p \notin m.node THEN Fatal(m)
    ELSE IF <<o, p>> \in m.listen THEN m
    ELSE startStopNodeThread(Bump([m EXCEPT !.listen = @ \cup {<<o, p>>}]), p)

rtcfg_dropListen(m, o, p) ==
    IF p \notin m.node THEN Fatal(m)
    ELSE IF <<o, p>> \notin m.listen THEN m
    ELSE startStopNodeThread(Bump([m EXCEPT !.listen = @ \ {<<o, p>>}]), p)

(* rtcfg_reloadListen: the list is emptied, sl_listen is read, and each row is
   stored by itself; then every thread is started or stopped. *)
ClearListen(m) == Bump([m EXCEPT !.listen = {}])

ListenRows(c) == {<<e[1], e[2]>> : e \in {f \in c.listen : f[3] = c.id}}

(* The calls of rtcfg_storeListen together.  What a second row of the same
   provider would do to its thread the last loop does anyway, and after two calls
   another one changes nothing. *)
StoreListens(m, rows) ==
    LET new    == rows \ m.listen
        stored == startStopNodeThreads(Bump([m EXCEPT !.listen = @ \cup new]), {e[2] : e \in new})
    IN  IF \E e \in rows : e[2] \notin m.node THEN Fatal(m)
        ELSE startStopNodeThreads(IF new = {} THEN m ELSE stored, m.node)
-----------------------------------------------------------------------------
SetIn(m, s) == {x \in m.set : x.id = s}

SetRecord(s, o, p, forward, active) ==
    [id |-> s, origin |-> o, provider |-> p, forward |-> forward, active |-> active]

(* All entries of set s changed by F; a set that is not there is fatal. *)
ChangeSet(m, s, F(_)) ==
    IF SetIn(m, s) = {} THEN Fatal(m)
    ELSE Bump([m EXCEPT !.set = {IF x.id = s THEN F(x) ELSE x : x \in @}])

rtcfg_storeSet(m, s, o) ==
    IF SetIn(m, s) # {} THEN ChangeSet(m, s, LAMBDA x : [x EXCEPT !.origin = o])
    ELSE Bump([m EXCEPT !.set = @ \cup {SetRecord(s, o, NoProvider, FALSE, FALSE)}])

rtcfg_dropSet(m, s) ==
    IF SetIn(m, s) = {} THEN m ELSE Bump([m EXCEPT !.set = {x \in @ : x.id # s}])

rtcfg_reloadSets(m, c) ==
    [m EXCEPT !.set = {IF SetKnown(c, x.id) THEN [x EXCEPT !.origin = OriginOf(c, x.id)] ELSE x :
                          x \in @}]

(* The old origin becomes a subscriber; who is without provider is none. *)
rtcfg_moveSet(m, self, s, old, new, p) ==
    ChangeSet(m, s, LAMBDA x : SetRecord(s, new, p, p # NoProvider /\ (self = old \/ x.forward),
                                         p # NoProvider /\ (self = old \/ x.active)))

rtcfg_storeSubscribe(m, s, p, forward) ==
    ChangeSet(m, s, LAMBDA x : SetRecord(s, x.origin, p, forward,
                                         x.provider # NoProvider /\ x.active))

rtcfg_enableSubscription(m, s, p, forward) ==
    ChangeSet(m, s, LAMBDA x : SetRecord(s, x.origin, p, forward, p # NoProvider))

rtcfg_unsubscribeSet(m, s) ==
    ChangeSet(m, s, LAMBDA x : SetRecord(s, x.origin, NoProvider, FALSE, FALSE))
-----------------------------------------------------------------------------
(* The paths and sets that configuration c prescribes. *)
PathsOf(c) == {p[1] : p \in {q \in c.path \ c.pending : q[2] = c.id}}

SetsOf(c) ==
    {LET mine == SubsOf(c, x[1], c.id)
         sub  == CHOOSE y \in mine : TRUE
     IN  IF mine = {} THEN SetRecord(x[1], x[2], NoProvider, FALSE, FALSE)
         ELSE SetRecord(x[1], x[2], sub.provider, sub.forward, sub.active) : x \in c.set}

(* What SlonMain reads at the start.  No node is enabled yet, so that no thread
   is started; a path is stored together with its node. *)
LoadConfig(c) ==
    [node |-> (c.known \ {c.id}) \cup PathsOf(c), active |-> {}, path |-> PathsOf(c), listen |-> ListenRows(c),
     set |-> SetsOf(c), worker |-> {}, status |-> [n \in Node |-> "NONE"],
     thread |-> [n \in Node |-> 0], stale |-> Node, ok |-> TRUE]

(* rtcfg_doActivate: the nodes that were active then, one after the other. *)
DoActivate(m, ns) ==
    IF ns \subseteq m.node
    THEN startStopNodeThreads(IF ns = {} THEN m ELSE Bump([m EXCEPT !.active = @ \cup ns]), ns)
    ELSE Fatal(m)
=============================================================================
