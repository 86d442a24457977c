----------------------------- MODULE SlonDaemon -----------------------------
(***************************************************************************)
(* The slon of one node: the watchdog process, the worker process that it  *)
(* starts again and again, and in it the main thread, the local listener,  *)
(* a remote worker and a remote listener for every other node.  They share *)
(* the configuration in memory, which follows the tables of the database   *)
(* while an administrator and the events of other nodes change them.       *)
(***************************************************************************)
EXTENDS RuntimeConfig

CONSTANTS
    Self,        \* the node of this slon
    Cases,       \* the clusters to start from, and what happens in them
    MaxDisturbances, \* how often the worker process dies or slon is signalled
    Signals          \* the signals the operator may send, once

VARIABLES
    cfg,      \* the committed configuration of this node
    event,    \* its own committed events, numbered from 1
    done,     \* done[o]: the last event of o that is committed here
    lock,     \* the worker whose transaction holds sl_config_lock, negative when
              \* the worker has been killed, or 0
    orphan,   \* transactions of a killed slon, as <<origin, event>>
    linger,   \* a backend of a dead slon still holds the row of sl_nodelock
    notify,   \* a restart notification is on its way to the local listener
    wd,       \* the watchdog: where it is, and watchdog_status
    sig,      \* a signal of the worker process to the watchdog
    slon,     \* the worker process and its main thread
    mem,      \* the runtime configuration
    ll,       \* the local listener
    work,     \* work[o]: the remote worker for origin o
    hear,     \* hear[p]: the remote listener of p: whose events it selects, and
              \* whether it is about to leave
    script, remote, \* what is still to happen here, and the events of others
    disturbed, told \* what has been done to this slon

database == <<cfg, event, done, lock, orphan>>
process == <<slon, mem, ll, work, hear>>
world == <<script, remote, disturbed, told>>
vars == <<database, linger, notify, wd, sig, process, world>>

Other == Node \ {Self}

(* The procedures the administrator calls, and the events of other nodes. *)
Commands == {"STORE_NODE", "DROP_NODE", "CLONE_NODE", "STORE_PATH", "DROP_PATH", "STORE_LISTEN",
             "DROP_LISTEN", "STORE_SET", "DROP_SET", "MERGE_SET", "MOVE_SET", "SUBSCRIBE_SET",
             "UNSUBSCRIBE_SET", "PRE_FAILOVER"}
EventTypes == {"SYNC", "STORE_NODE", "ENABLE_NODE", "CLONE_NODE", "DROP_NODE", "STORE_PATH",
               "DROP_PATH", "STORE_LISTEN", "DROP_LISTEN", "STORE_SET", "DROP_SET", "MERGE_SET",
               "SET_ADD", "SET_DROP", "SET_MOVE", "MOVE_SET", "ACCEPT_SET", "SUBSCRIBE_SET",
               "ENABLE_SUBSCRIPTION", "UNSUBSCRIBE_SET", "FAILOVER_NODE"}

Elements(q) == {q[i] : i \in DOMAIN q}
Statements == UNION {Elements(x.script) : x \in Cases}
Events == UNION {Elements(x.remote[o]) : x \in Cases, o \in Other}

(* The tables are those of this node, and no node is active that is not known. *)
ASSUME CaseAssumption ==
    /\ \A x \in Cases :
           /\ DOMAIN x.cfg = DOMAIN initializeLocalNode(Self) /\ x.cfg.id = Self
           /\ x.cfg.active \subseteq x.cfg.known
           /\ x.linger \in BOOLEAN
           /\ x.script \in Seq(Statements) /\ x.remote \in [Other -> Seq(Events)]
    /\ \A s \in Statements : s.cmd \in Commands
    /\ \A e \in Events : e.type \in EventTypes

NoThread == [pc |-> "none"]
Idle == [pc |-> "idle", sets |-> FALSE]
Deaf == [from |-> {}, leaving |-> FALSE]

(* There is a process only from the fork on. *)
Forked(again) == [pc |-> "load", watched |-> TRUE, restarted |-> again]
NoProcess(pc) == [pc |-> pc]
Alive == slon.pc \in {"load", "loaded", "lock", "activate", "up"}
Listening == slon.pc \in {"lock", "activate", "up"}
Running == slon.pc \in {"activate", "up"}

NoMemory == LoadConfig([initializeLocalNode(Self) EXCEPT !.known = {}])

Init ==
    /\ \E x \in Cases :
           /\ cfg = x.cfg /\ linger = x.linger /\ script = x.script /\ remote = x.remote
           /\ event = <<>> /\ done = [o \in Other |-> 0]
    /\ lock = 0 /\ orphan = {} /\ notify = FALSE
    /\ wd = [pc |-> "waiting", status |-> "NORMAL"] /\ sig = "none"
    /\ slon = Forked(FALSE) /\ mem = NoMemory /\ ll = NoThread
    /\ work = [o \in Other |-> Idle] /\ hear = [p \in Other |-> Deaf]
    /\ disturbed = 0 /\ told = {}

(* slon_retry, slon_restart and slon_abort: the first thread that calls one of
   them signals the watchdog; the thread ends, the others go on. *)
Signal(s) ==
    /\ sig' = IF slon.watched THEN s ELSE sig
    /\ slon' = [slon EXCEPT !.watched = FALSE]
-----------------------------------------------------------------------------
(* The node is administered: stored procedures run on it, each in its own
   transaction.  One that fails changes nothing. *)

Executed(c, s) ==
    CASE s.cmd = "STORE_NODE"   -> Then(storeNode(c, s.node), LAMBDA d : enableNode(d, s.node))
      [] s.cmd = "DROP_NODE"    -> dropNode(c, {s.node})
      [] s.cmd = "CLONE_NODE"   -> cloneNodePrepare(c, s.node, s.provider)
      [] s.cmd = "STORE_PATH"   -> storePath(c, s.server, s.client)
      [] s.cmd = "DROP_PATH"    -> dropPath(c, s.server, s.client)
      [] s.cmd = "STORE_LISTEN" -> storeListen(c, s.origin, s.provider, s.receiver)
      [] s.cmd = "DROP_LISTEN"  -> dropListen(c, s.origin, s.provider, s.receiver)
      [] s.cmd = "STORE_SET"    -> storeSet(c, s.set)
      [] s.cmd = "DROP_SET"     -> dropSet(c, s.set)
      [] s.cmd = "MERGE_SET"    -> mergeSet(c, s.set, s.add, FALSE)
      [] s.cmd = "MOVE_SET"     -> Then(lockSet(c, s.set), LAMBDA d : moveSet(d, s.set, s.new))
      [] s.cmd = "SUBSCRIBE_SET" -> subscribeSet(c, s.set, s.provider, s.receiver, TRUE)
      [] s.cmd = "UNSUBSCRIBE_SET" -> unsubscribeSet(c, s.set, Self, FALSE)
      [] s.cmd = "PRE_FAILOVER" -> preFailover(c, s.node, FALSE)

(* Whoever listens at the time of the commit gets the notification.  A slon that
   has loaded its configuration and does not listen yet misses it. *)
Notify(n) == notify' = (notify \/ (n /\ Listening))

Execute ==
    /\ script # <<>> /\ lock = 0
    /\ LET r == Executed(cfg, Head(script))
       IN  /\ cfg' = IF r.ok THEN r.c ELSE cfg
           /\ event' = IF r.ok THEN event \o r.ev ELSE event
           /\ Notify(r.ok /\ Head(script).cmd = "PRE_FAILOVER")
           /\ slon' = IF r.ok /\ Head(script).cmd = "PRE_FAILOVER" /\ slon.pc = "loaded"
                      THEN [slon EXCEPT !.missed = TRUE] ELSE slon
    /\ script' = Tail(script)
    /\ UNCHANGED <<done, lock, orphan, linger, wd, sig, mem, ll, work, hear, remote, disturbed, told>>
-----------------------------------------------------------------------------
(* The main thread. *)

(* One snapshot of the tables, the own last event included. *)
Load ==
    /\ slon.pc = "load"
    /\ slon' = [pc |-> "loaded", watched |-> slon.watched, restarted |-> slon.restarted,
                activate |-> cfg.active \ {Self}, first |-> Len(event), last |-> Len(event),
                got |-> done, missed |-> FALSE]
    /\ mem' = LoadConfig(cfg)
    /\ UNCHANGED <<database, linger, notify, wd, sig, ll, work, hear, world>>

(* The local listener connects and listens for notifications. *)
Listen ==
    /\ slon.pc = "loaded"
    /\ slon' = [slon EXCEPT !.pc = "lock"]
    /\ UNCHANGED <<database, linger, notify, wd, sig, mem, ll, work, hear, world>>

(* It takes the row of sl_nodelock.  When a backend of another slon has it, a
   restarted worker tries again every five seconds, a first one gives up. *)
ObtainLock ==
    /\ slon.pc = "lock" /\ ~linger
    /\ slon' = [slon EXCEPT !.pc = "activate"]
    /\ ll' = [pc |-> "idle"]
    /\ UNCHANGED <<database, linger, notify, wd, sig, mem, work, hear, world>>

LockTaken ==
    /\ slon.pc = "lock" /\ linger /\ ~slon.restarted /\ slon.watched
    /\ Signal("TERM")
    /\ UNCHANGED <<database, linger, notify, wd, mem, ll, work, hear, world>>

(* The backend notices that its client is gone. *)
BackendGone ==
    /\ linger
    /\ linger' = FALSE
    /\ UNCHANGED <<database, notify, wd, sig, process, world>>

(* Nodes that were active in the snapshot are enabled, while the local listener
   is at work already. *)
Activate ==
    /\ slon.pc = "activate"
    /\ mem' = DoActivate(mem, slon.activate)
    /\ slon' = [slon EXCEPT !.pc = "up"]
    /\ UNCHANGED <<database, linger, notify, wd, sig, ll, work, hear, world>>
-----------------------------------------------------------------------------
(* What an event means for the configuration in memory. *)

If(cond, new, m) == IF cond THEN new ELSE m

PathEffect(m, e) ==
    CASE e.type = "STORE_PATH"   -> If(e.client = Self, rtcfg_storePath(m, e.server), m)
      [] e.type = "DROP_PATH"    -> If(e.client = Self, rtcfg_dropPath(m, e.server), m)
      [] e.type = "STORE_LISTEN" -> If(e.receiver = Self, rtcfg_storeListen(m, e.origin, e.provider), m)
      [] e.type = "DROP_LISTEN"  -> If(e.receiver = Self, rtcfg_dropListen(m, e.origin, e.provider), m)

(* c holds the provider that the node has after a move. *)
SetEffect(m, e, c) ==
    LET mine == SubsOf(c, e.set, Self)
        p == IF mine = {} THEN NoProvider ELSE (CHOOSE x \in mine : TRUE).provider
    IN  CASE e.type = "DROP_SET"  -> rtcfg_dropSet(m, e.set)
          [] e.type = "MERGE_SET" -> rtcfg_dropSet(m, e.add)
          [] e.type = "MOVE_SET"  -> rtcfg_moveSet(m, Self, e.set, e.old, e.new, p)
          [] e.type = "SUBSCRIBE_SET" ->
                If(e.receiver = Self, rtcfg_storeSubscribe(m, e.set, e.provider, e.forward), m)
          [] e.type = "ENABLE_SUBSCRIPTION" ->
                If(e.receiver = Self, rtcfg_enableSubscription(m, e.set, e.provider, e.forward), m)

PathTypes == {"STORE_PATH", "DROP_PATH", "STORE_LISTEN", "DROP_LISTEN"}
SetTypes == {"DROP_SET", "MERGE_SET", "MOVE_SET", "SUBSCRIBE_SET", "ENABLE_SUBSCRIPTION"}

(* In the remote worker. *)
WorkerEffect(m, e, c) ==
    CASE e.type = "STORE_NODE"  -> If(e.node # Self, rtcfg_storeNode(m, e.node), m)
      [] e.type = "ENABLE_NODE" -> If(e.node # Self, rtcfg_enableNode(m, e.node), m)
      [] e.type = "DROP_NODE"   -> DisableNodes(m, e.nodes \ {Self})
      [] e.type = "CLONE_NODE"  -> rtcfg_enableNode(rtcfg_storeNode(m, e.node), e.node)
      [] e.type = "STORE_SET"   -> If(e.origin # Self, rtcfg_storeSet(m, e.set, e.origin), m)
      [] e.type \in PathTypes   -> PathEffect(m, e)
      [] e.type \in SetTypes    -> SetEffect(m, e, c)
      [] OTHER                  -> m

(* In the local listener: of a list of dropped nodes only the first counts, a
   clone is stored and not enabled, and a set that moved away has a provider. *)
ListenerEffect(m, e, c) ==
    CASE e.type = "STORE_NODE"  -> rtcfg_storeNode(m, e.node)
      [] e.type = "ENABLE_NODE" -> rtcfg_enableNode(m, e.node)
      [] e.type = "DROP_NODE"   -> rtcfg_disableNode(m, CHOOSE n \in e.nodes : TRUE)
      [] e.type = "CLONE_NODE"  -> rtcfg_storeNode(m, e.node)
      [] e.type = "STORE_SET"   -> rtcfg_storeSet(m, e.set, e.origin)
      [] e.type = "MOVE_SET"    -> If(SubsOf(c, e.set, Self) = {}, Fatal(m), SetEffect(m, e, c))
      [] e.type = "UNSUBSCRIBE_SET" ->
            If(e.receiver = Self, rtcfg_unsubscribeSet(m, e.set), m)
      [] e.type \in PathTypes   -> PathEffect(m, e)
      [] e.type \in SetTypes    -> SetEffect(m, e, c)
      [] OTHER                  -> m

(* The events after which sl_listen is read again. *)
Reloads == {"STORE_NODE", "ENABLE_NODE", "DROP_NODE", "STORE_PATH", "DROP_PATH",
            "MOVE_SET", "SUBSCRIBE_SET", "ENABLE_SUBSCRIPTION", "UNSUBSCRIBE_SET"}
WorkerReloads == Reloads \cup {"FAILOVER_NODE"}
ListenerReloads == Reloads \cup {"ACCEPT_SET"}
-----------------------------------------------------------------------------
(* The local listener. *)

(* At the start of a round it looks for the restart notification. *)
RestartRequested ==
    /\ ll.pc = "idle" /\ notify
    /\ Signal("HUP")
    /\ ll' = NoThread /\ notify' = FALSE
    /\ UNCHANGED <<database, linger, wd, mem, work, hear, world>>

(* The transaction is serializable: events and tables are those of now. *)
BeginEvents ==
    /\ ll.pc = "idle" /\ ~notify /\ slon.last < Len(event)
    /\ ll' = [pc |-> "apply", snap |-> cfg, upto |-> Len(event), drop |-> FALSE]
    /\ UNCHANGED <<database, linger, notify, wd, sig, slon, mem, work, hear, world>>

(* The next event, and the list of listens emptied if it is to be reloaded.  The
   last event is remembered first. *)
ApplyEvent ==
    /\ ll.pc = "apply" /\ slon.last < ll.upto
    /\ LET e == event[slon.last + 1]
           m == ListenerEffect(mem, e, ll.snap)
       IN  IF m.ok
           THEN /\ mem' = IF e.type \in ListenerReloads THEN ClearListen(m) ELSE m
                /\ ll' = [ll EXCEPT !.pc = IF e.type \in ListenerReloads THEN "store" ELSE @,
                                    !.drop = @ \/ e.type = "DROP_NODE"]
                /\ slon' = [slon EXCEPT !.last = @ + 1]
                /\ UNCHANGED sig
           ELSE /\ Signal("USR1") /\ ll' = NoThread
                /\ UNCHANGED mem
    /\ UNCHANGED <<database, linger, notify, wd, work, hear, world>>

StoreReloaded ==
    /\ ll.pc = "store"
    /\ LET m == StoreListens(mem, ListenRows(ll.snap))
       IN  IF m.ok THEN mem' = m /\ ll' = [ll EXCEPT !.pc = "apply"] /\ UNCHANGED <<slon, sig>>
           ELSE Signal("USR1") /\ ll' = NoThread /\ UNCHANGED mem
    /\ UNCHANGED <<database, linger, notify, wd, work, hear, world>>

(* With the transaction the notification for a dropped node is sent. *)
CommitEvents ==
    /\ ll.pc = "apply" /\ slon.last = ll.upto
    /\ Notify(ll.drop)
    /\ ll' = [pc |-> "idle"]
    /\ UNCHANGED <<database, linger, wd, sig, slon, mem, work, hear, world>>
-----------------------------------------------------------------------------
(* The remote worker for origin o. *)

EventAt(o, k) == remote[o][k]

(* A node that is neither the old nor the new origin of a set. *)
Bystander(e) == e.type = "ACCEPT_SET" /\ Self \notin {e.old, e.new}

(* A mutant: the new provider is selected before the set is moved. *)
EarlyButMove(e) == \/ e.type = "CLONE_NODE"
                   \/ e.type = "ENABLE_SUBSCRIPTION" /\ e.receiver = Self

(* The procedures that run before the memory is changed. *)
Early(e) == \/ e.type \in {"CLONE_NODE", "MOVE_SET"}
            \/ e.type = "ENABLE_SUBSCRIPTION" /\ e.receiver = Self

Result(o, k) ==
    LET e == EventAt(o, k)
    IN  IF e.type = "FAILOVER_NODE"
        THEN failoverSet_int(cfg, e.node, o, e.seqno, done[e.node])
        ELSE EventResult(cfg, e, k)

(* The memory is changed before the transaction is committed. *)
StartEvent(o) ==
    /\ Running /\ o \in mem.worker /\ work[o].pc = "idle"
    /\ slon.got[o] < Len(remote[o])
    /\ LET k == slon.got[o] + 1
           e == EventAt(o, k)
           r == IF Early(e) THEN Result(o, k) ELSE Done(cfg, <<>>)
           m == IF r.ok THEN WorkerEffect(mem, e, r.c) ELSE Fatal(mem)
       IN  /\ e.type # "FAILOVER_NODE"
           /\ Bystander(e) => done[e.old] >= e.wait
           /\ Early(e) => lock = 0
           /\ lock' = IF Early(e) /\ r.ok THEN o ELSE lock
           /\ IF m.ok
              THEN /\ mem' = m /\ work' = [work EXCEPT ![o].pc = "commit"]
                   /\ UNCHANGED <<sig, slon>>
              ELSE /\ Signal("USR1") /\ work' = [work EXCEPT ![o].pc = "none"]
                   /\ UNCHANGED mem
    /\ UNCHANGED <<cfg, event, done, orphan, linger, notify, wd, ll, hear, world>>

(* A mutant: slon is restarted whether or not something changed. *)
StartFailoverAgain(o) ==
    /\ Running /\ o \in mem.worker /\ work[o].pc = "idle" /\ lock = 0
    /\ slon.got[o] < Len(remote[o])
    /\ LET e == EventAt(o, slon.got[o] + 1)
           r == failedNode(cfg, e.node, o, e.nodes)
       IN  /\ e.type = "FAILOVER_NODE"
           /\ cfg' = r.c
           /\ Notify(TRUE)
           /\ work' = [work EXCEPT ![o].pc = "commit"]
    /\ UNCHANGED <<event, done, lock, orphan, linger, wd, sig, slon, mem, ll, hear, world>>

(* The first transaction of FAILOVER_NODE. *)
StartFailover(o) ==
    /\ Running /\ o \in mem.worker /\ work[o].pc = "idle" /\ lock = 0
    /\ slon.got[o] < Len(remote[o])
    /\ LET e == EventAt(o, slon.got[o] + 1)
           r == failedNode(cfg, e.node, o, e.nodes)
       IN  /\ e.type = "FAILOVER_NODE"
           /\ IF r.ok
              THEN /\ cfg' = r.c /\ Notify(r.c # cfg)
                   /\ work' = [work EXCEPT ![o].pc = "commit"]
                   /\ UNCHANGED <<sig, slon>>
              ELSE /\ Signal("USR1") /\ work' = [work EXCEPT ![o].pc = "none"]
                   /\ UNCHANGED <<cfg, notify>>
    /\ UNCHANGED <<event, done, lock, orphan, linger, wd, mem, ll, hear, world>>

(* The transaction with the procedure and the event itself.  It fails when the
   event is there already. *)
Committed(o, k) == k = done[o] + 1 /\ Result(o, k).ok

(* The second transaction of a failover waits for the failed node's events. *)
MayCommit(o, k, me) ==
    /\ lock \in {0, me}
    /\ EventAt(o, k).type = "FAILOVER_NODE" =>
           done[EventAt(o, k).node] >= EventAt(o, k).seqno

Commit(o, k) ==
    /\ cfg' = Result(o, k).c
    /\ event' = event \o Result(o, k).ev
    /\ done' = [done EXCEPT ![o] = k]
    /\ Notify(EventAt(o, k).type = "DROP_NODE" \/ Bystander(EventAt(o, k)))

(* What follows: listens, then sets if this worker has seen a failover, are read
   again; a bystander of a move has slon restarted. *)
AfterCommit(w, e) ==
    LET s == w.sets \/ e.type = "FAILOVER_NODE"
    IN  [pc |-> IF Bystander(e) THEN "none"
                ELSE IF e.type \in WorkerReloads THEN "clear"
                ELSE IF s THEN "sets" ELSE "idle",
         sets |-> s]

CommitEvent(o) ==
    /\ work[o].pc = "commit"
    /\ LET k == slon.got[o] + 1
           e == EventAt(o, k)
       IN  /\ MayCommit(o, k, o)
           /\ IF Committed(o, k)
              THEN /\ Commit(o, k)
                   /\ work' = [work EXCEPT ![o] = AfterCommit(@, e)]
                   /\ IF Bystander(e) THEN Signal("USR1")
                      ELSE slon' = [slon EXCEPT !.got[o] = k] /\ UNCHANGED sig
              ELSE /\ Signal("USR1") /\ work' = [work EXCEPT ![o].pc = "none"]
                   /\ UNCHANGED <<cfg, event, done, notify>>
    /\ lock' = 0
    /\ UNCHANGED <<orphan, linger, wd, mem, ll, hear, world>>

(* rtcfg_reloadListen. *)
ClearListens(o) ==
    /\ work[o].pc = "clear"
    /\ mem' = ClearListen(mem)
    /\ work' = [work EXCEPT ![o].pc = "query"]
    /\ UNCHANGED <<database, linger, notify, wd, sig, slon, ll, hear, world>>

QueryListens(o) ==
    /\ work[o].pc = "query"
    /\ work' = [work EXCEPT ![o] = [pc |-> "store", sets |-> @.sets, rows |-> ListenRows(cfg)]]
    /\ UNCHANGED <<database, linger, notify, wd, sig, slon, mem, ll, hear, world>>

StoreQueried(o) ==
    /\ work[o].pc = "store"
    /\ LET m == StoreListens(mem, work[o].rows)
           w == [pc |-> IF ~m.ok THEN "none" ELSE IF work[o].sets THEN "sets" ELSE "idle",
                 sets |-> work[o].sets]
       IN  /\ work' = [work EXCEPT ![o] = w]
           /\ IF m.ok THEN mem' = m /\ UNCHANGED <<sig, slon>>
              ELSE Signal("USR1") /\ UNCHANGED mem
    /\ UNCHANGED <<database, linger, notify, wd, ll, hear, world>>

ReloadSets(o) ==
    /\ work[o].pc = "sets"
    /\ mem' = rtcfg_reloadSets(mem, cfg)
    /\ work' = [work EXCEPT ![o].pc = "idle"]
    /\ UNCHANGED <<database, linger, notify, wd, sig, slon, ll, hear, world>>

(* What a killed worker had sent may still be committed, or not. *)
OrphanCommits ==
    /\ \E x \in orphan :
           /\ MayCommit(x[1], x[2], -x[1]) /\ Committed(x[1], x[2])
           /\ Commit(x[1], x[2])
           /\ orphan' = orphan \ {x}
           /\ lock' = IF lock = -x[1] THEN 0 ELSE lock
    /\ UNCHANGED <<linger, wd, sig, process, world>>

OrphanAborts ==
    /\ \E x \in orphan : /\ orphan' = orphan \ {x}
                         /\ lock' = IF lock = -x[1] THEN 0 ELSE lock
    /\ UNCHANGED <<cfg, event, done, linger, notify, wd, sig, process, world>>
-----------------------------------------------------------------------------
(* The remote listener of node p looks at the configuration only when cfgseq has
   changed.  It takes up what to listen for, or leaves; the status is set when
   it is gone. *)

Look(p) ==
    /\ Running /\ mem.thread[p] > 0 /\ p \in mem.stale /\ ~hear[p].leaving
    /\ IF mem.status[p] \in {"NONE", "SHUTDOWN"} \/ p \notin mem.active
       THEN /\ hear' = [hear EXCEPT ![p].leaving = TRUE]
            /\ UNCHANGED mem
       ELSE /\ hear' = [hear EXCEPT ![p].from = {o \in mem.active : <<o, p>> \in mem.listen}]
            /\ mem' = [mem EXCEPT !.status[p] = "RUNNING", !.stale = @ \ {p}]
    /\ UNCHANGED <<database, linger, notify, wd, sig, slon, ll, work, world>>

Leave(p) ==
    /\ Running /\ mem.thread[p] > 0 /\ hear[p].leaving
    /\ mem' = [mem EXCEPT !.status[p] = "DONE", !.thread[p] = @ - 1]
    /\ hear' = [hear EXCEPT ![p] = Deaf]
    /\ UNCHANGED <<database, linger, notify, wd, sig, slon, ll, work, world>>
-----------------------------------------------------------------------------
(* The worker process ends, and with it all of its threads. *)

End(pc) ==
    LET sent == {o \in Other : work[o].pc = "commit"}
    IN  /\ slon' = NoProcess(pc)
        /\ mem' = NoMemory /\ ll' = NoThread
        /\ work' = [o \in Other |-> Idle] /\ hear' = [p \in Other |-> Deaf]
        /\ orphan' = orphan \cup {<<o, slon.got[o] + 1>> : o \in sent}
        /\ lock' = IF lock \in sent THEN -lock ELSE IF lock > 0 THEN 0 ELSE lock
        /\ linger' = (linger \/ Running)
        /\ notify' = FALSE
        /\ UNCHANGED <<cfg, event, done>>

(* A signal handler sets the status and kills the worker, if there is one. *)
Handle(status) ==
    /\ wd' = [wd EXCEPT !.status = status]
    /\ IF Alive THEN End("killed")
       ELSE UNCHANGED <<database, linger, notify, process>>

WorkerSignal ==
    /\ sig # "none" /\ wd.pc = "waiting"
    /\ Handle(CASE sig = "HUP" -> "RESTART" [] sig = "USR1" -> "RETRY" [] sig = "TERM" -> "SHUTDOWN")
    /\ sig' = "none"
    /\ told' = IF sig = "TERM" THEN told \cup {"ABORT"} ELSE told
    /\ UNCHANGED <<script, remote, disturbed>>

(* SIGHUP, SIGTERM and SIGINT from outside.  Only one that finds the watchdog
   undisturbed counts as told: see Stops. *)
OperatorSignal(s) ==
    /\ told = {} /\ wd.pc # "exited" /\ disturbed < MaxDisturbances
    /\ Handle(IF s = "HUP" THEN "RESTART" ELSE "SHUTDOWN")
    /\ told' = {IF wd.pc # "sleep20" /\ sig = "none" THEN s ELSE "LATE"}
    /\ disturbed' = disturbed + 1
    /\ UNCHANGED <<sig, script, remote>>

Quit ==
    /\ told = {} /\ wd.pc # "exited" /\ disturbed < MaxDisturbances
    /\ wd' = [wd EXCEPT !.pc = "exited"]
    /\ IF Alive THEN End("killed") ELSE UNCHANGED <<database, linger, notify, process>>
    /\ told' = {"QUIT"}
    /\ disturbed' = disturbed + 1
    /\ UNCHANGED <<sig, script, remote>>

Crash ==
    /\ disturbed < MaxDisturbances /\ Alive
    /\ End("killed")
    /\ disturbed' = disturbed + 1
    /\ UNCHANGED <<wd, sig, script, remote, told>>

(* An error in the scheduler: every thread ends after what it is doing, and the
   process exits with status 0. *)
SchedulerFails ==
    /\ disturbed < MaxDisturbances /\ slon.pc = "up"
    /\ ll.pc = "idle" /\ \A o \in Other : work[o].pc = "idle"
    /\ End("finished")
    /\ disturbed' = disturbed + 1
    /\ UNCHANGED <<wd, sig, script, remote, told>>
-----------------------------------------------------------------------------
(* The watchdog. *)

(* The worker has ended: wait() returns, after the handlers of the signals that
   the worker has sent. *)
Reap ==
    /\ wd.pc = "waiting" /\ sig = "none" /\ slon.pc \in {"killed", "finished"}
    /\ CASE wd.status = "RESTART" ->
                /\ wd' = [wd EXCEPT !.pc = "sleep20"]
                /\ slon' = NoProcess("none")
         [] wd.status \in {"NORMAL", "RETRY"} /\ slon.pc = "killed" ->
                /\ wd' = [pc |-> "sleep10", status |-> "RETRY"]
                /\ slon' = NoProcess("none")
         [] wd.status \in {"NORMAL", "RETRY"} /\ slon.pc = "finished" ->
                /\ wd' = [wd EXCEPT !.status = "NORMAL"]
                /\ slon' = Forked(TRUE)
         [] OTHER ->
                /\ wd' = [wd EXCEPT !.pc = "exited"]
                /\ slon' = NoProcess("none")
    /\ UNCHANGED <<database, linger, notify, sig, mem, ll, work, hear, world>>

(* After a restart that was asked for the status is set to NORMAL, whatever has
   been signalled meanwhile. *)
RestartWorker ==
    /\ wd.pc = "sleep20"
    /\ wd' = [pc |-> "waiting", status |-> "NORMAL"]
    /\ slon' = Forked(TRUE)
    /\ UNCHANGED <<database, linger, notify, sig, mem, ll, work, hear, world>>

(* A mutant: the status is not looked at again after the sleep. *)
RetryAnyway ==
    /\ wd.pc = "sleep10"
    /\ wd' = [pc |-> "waiting", status |-> "NORMAL"]
    /\ slon' = Forked(TRUE)
    /\ UNCHANGED <<database, linger, notify, sig, mem, ll, work, hear, world>>

(* After a failure any signal but SIGUSR1 ends the watchdog: it waits for a
   child, and there is none. *)
RetryWorker ==
    /\ wd.pc = "sleep10"
    /\ IF wd.status = "RETRY"
       THEN /\ wd' = [pc |-> "waiting", status |-> "NORMAL"]
            /\ slon' = Forked(TRUE)
       ELSE /\ wd' = [wd EXCEPT !.pc = "exited"]
            /\ UNCHANGED slon
    /\ UNCHANGED <<database, linger, notify, sig, mem, ll, work, hear, world>>
-----------------------------------------------------------------------------
MainThread == Load \/ Listen \/ ObtainLock \/ LockTaken \/ Activate

LocalListener ==
    RestartRequested \/ BeginEvents \/ ApplyEvent \/ StoreReloaded \/ CommitEvents

RemoteWorker(o) ==
    \/ StartEvent(o) \/ StartFailover(o) \/ CommitEvent(o)
    \/ ClearListens(o) \/ QueryListens(o) \/ StoreQueried(o) \/ ReloadSets(o)

RemoteListener(p) == Look(p) \/ Leave(p)

Watchdog == WorkerSignal \/ Reap \/ RestartWorker \/ RetryWorker

Backends == BackendGone \/ OrphanCommits \/ OrphanAborts

Step ==
    \/ MainThread \/ LocalListener \/ Watchdog \/ Backends
    \/ \E o \in Other : RemoteWorker(o) \/ RemoteListener(o)

Disturb == Crash \/ SchedulerFails \/ Quit \/ (\E s \in Signals : OperatorSignal(s))

Next == Step \/ Execute \/ Disturb

(* The guards of Step. *)
CanWork(o) ==
    \/ /\ Running /\ o \in mem.worker /\ work[o].pc = "idle" /\ slon.got[o] < Len(remote[o])
       /\ LET e == EventAt(o, slon.got[o] + 1)
          IN  /\ Bystander(e) => done[e.old] >= e.wait
              /\ Early(e) \/ e.type = "FAILOVER_NODE" => lock = 0
    \/ work[o].pc = "commit" /\ MayCommit(o, slon.got[o] + 1, o)
    \/ work[o].pc \in {"clear", "query", "store", "sets"}

CanHear(p) ==
    Running /\ mem.thread[p] > 0 /\ (hear[p].leaving \/ p \in mem.stale)

CanStep ==
    \/ slon.pc \in {"load", "loaded", "activate", "lock"} \/ linger \/ orphan # {}
    \/ ll.pc \in {"apply", "store"}
    \/ ll.pc = "idle" /\ (notify \/ slon.last < Len(event))
    \/ \E o \in Other : CanWork(o) \/ CanHear(o)
    \/ wd.pc # "exited" /\ (sig # "none" \/ wd.pc # "waiting" \/ slon.pc \in {"killed", "finished"})

(* Processes and threads are scheduled, backends end, sleeps are over: as long as
   some step is possible the system goes on.  Nothing is assumed of the
   administrator, the operator or the faults; as these act only finitely often,
   to go on for ever is to take steps for ever. *)
Spec == Init /\ [][Next]_vars /\ ([]<>~CanStep \/ []<><<TRUE>>_vars)
-----------------------------------------------------------------------------
TypeOK ==
    /\ DOMAIN cfg = DOMAIN initializeLocalNode(Self) /\ cfg.id = Self
    /\ cfg.active \subseteq cfg.known
    /\ \A o \in Other : done[o] \in 0 .. Len(remote[o])
    /\ lock \in {0} \cup Other \cup {-o : o \in Other}
    /\ \A x \in orphan : x[1] \in Other /\ x[2] \in 1 .. Len(remote[x[1]])
    /\ {linger, notify} \subseteq BOOLEAN
    /\ wd \in [pc : {"waiting", "sleep20", "sleep10", "exited"},
               status : {"NORMAL", "RESTART", "RETRY", "SHUTDOWN"}]
    /\ sig \in {"none", "HUP", "USR1", "TERM"}
    /\ mem.ok /\ mem.worker \cup mem.active \cup mem.path \subseteq mem.node
    /\ \A n \in Node : mem.status[n] \in {"NONE", "RUNNING", "SHUTDOWN", "RESTART", "DONE"}
    /\ ll.pc \in {"none", "idle", "apply", "store"}
    /\ \A o \in Other : work[o].pc \in {"none", "idle", "commit", "clear", "query", "store", "sets"}

(* Nothing is under way: no signal, notification, event or transaction. *)
Quiet ==
    /\ slon.pc = "up" /\ sig = "none" /\ ~notify /\ orphan = {}
    /\ ll.pc = "idle" /\ slon.last = Len(event)
    /\ \A o \in Other : work[o].pc = "idle" /\ slon.got[o] = done[o]

(* Nodes that this node has been told to prepare as clones since the start. *)
OwnClones ==
    {event[i].node : i \in {j \in slon.first + 1 .. Len(event) : event[j].type = "CLONE_NODE"}}

(* Whenever slon has nothing to do, the configuration in memory is the one in the
   tables: the enabled nodes (but for failed ones, and clones of this node, which
   local_listen.c stores and does not enable), the nodes it can connect to, the
   sets with their origins, and the subscriptions of this node.  Local events,
   events of other nodes, restarts and transactions that a killed slon left
   behind all change both, in different orders.  The exception is a slon that has
   missed the request of preFailover() to restart. *)
MemoryAgrees ==
    Quiet /\ ~slon.missed =>
        /\ mem.active \ cfg.failed = (cfg.active \ {Self}) \ (cfg.failed \cup OwnClones)
        /\ mem.path = PathsOf(cfg)
        /\ mem.set = SetsOf(cfg)

(* A node never has two remote listener threads, however the entries of sl_listen
   come and go while one is leaving. *)
OneListener == \A p \in Other : mem.thread[p] \in {0, 1}

(* A remote listener that has seen the current cfgseq selects exactly the events
   it is to listen for: no change of the configuration is made without cfgseq
   being increased after it. *)
ListenerInformed ==
    \A p \in Other :
        mem.thread[p] = 1 /\ p \notin mem.stale /\ ~hear[p].leaving =>
            hear[p].from = {o \in mem.active : <<o, p>> \in mem.listen}

(* An operator's SIGTERM ends slon, if it does not come while the watchdog sleeps
   before a restart that was asked for, or together with a signal of the worker:
   then watchdog_status is overwritten. *)
Stops == (told = {"TERM"}) ~> (wd.pc = "exited")

(* When the administration ends and faults cease, slon ends up with all events
   processed, its memory agreeing with the tables and no restart under way, or has
   been ended: the restarts that events and failures cause do not go on for ever. *)
Settled ==
    \/ Quiet /\ \A o \in mem.active : slon.got[o] = Len(remote[o])
    \/ wd.pc = "exited" /\ told # {}

Settles == <>[]Settled
=============================================================================
