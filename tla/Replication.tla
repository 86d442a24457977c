----------------------------- MODULE Replication -----------------------------
(***************************************************************************)
(* The data path of Slony-I for one replication set whose subscriptions    *)
(* are all active.                                                         *)
(*                                                                         *)
(* At the origin, application transactions change rows and the log trigger *)
(* captures every change in sl_log_1 or sl_log_2 (slony1_funcs.c); the     *)
(* sync thread cuts the stream of commits into SYNC events, each with a    *)
(* transaction snapshot (sync_thread.c).  On every subscriber the remote   *)
(* worker fetches from its provider the log rows between its own position  *)
(* (sl_setsync) and a SYNC, applies them in the order of log_actionseq and *)
(* stores them for its own subscribers (remote_worker.c).  Confirmations   *)
(* travel back through the remote listeners (remote_listen.c), and the     *)
(* cleanup thread of every node purges sl_confirm and sl_event, switches   *)
(* between the two log tables and truncates the old one (cleanup_thread.c  *)
(* and slony1_funcs.sql).                                                  *)
(*                                                                         *)
(* The database itself (transaction ids, snapshots, row and table locks,   *)
(* sequences that survive a rollback) is modelled from the way this code   *)
(* uses it.                                                                *)
(***************************************************************************)
EXTENDS Integers, Sequences

CONSTANTS
    Node,       \* the nodes of the cluster
    Origin,     \* the node where the set originates
    Provider,   \* sl_subscribe: the data provider of every subscriber
    Forwarder,  \* the subscribers with sub_forward
    Listen,     \* sl_listen: the nodes a node pulls events and confirms from
    Cleaner,    \* the nodes whose cleanup thread is running
    Key,        \* the rows of the replicated tables, named by primary key
    MaxXid,     \* bound: how many transactions the application runs
    MaxSeq,     \* bound: how many rows it changes (values of sl_action_seq)
    MaxSync     \* bound: how many SYNC events the origin creates

Receiver == Node \ {Origin}
Xid == 1 .. MaxXid
LogNo == {1, 2}

(***************************************************************************)
(* A row of sl_log_N.  seq is log_actionseq; the changed table row is left *)
(* in a state that is named by the seq of the action that produced it.     *)
(***************************************************************************)
Row == [xid : Xid, seq : 1 .. MaxSeq, key : Key]

(***************************************************************************)
(* What the proofs need to know of the configuration: subscribeSet() and   *)
(* subscribeSet_int() only accept a provider that forwards, or the origin. *)
(***************************************************************************)
ASSUME ConfigAssumption ==
    /\ Origin \in Node
    /\ Provider \in [Receiver -> Node]
    /\ Forwarder \subseteq Receiver
    /\ \A n \in Receiver : Provider[n] = Origin \/ Provider[n] \in Forwarder
    /\ Listen \in [Node -> SUBSET Node]
    /\ Cleaner \subseteq Node

ASSUME BoundAssumption == MaxXid \in Nat /\ MaxSeq \in Nat /\ MaxSync \in Nat

VARIABLES
    nextXid,    \* the transaction id the database hands out next
    running,    \* transactions in progress at the origin
    xmax,       \* latest completed transaction id, plus one
    plan,       \* plan_active_log: the log table cached by a transaction
    actSeq,     \* last_value of sl_action_seq
    lastAct,    \* last_actseq_buf of the sync thread
    snap,       \* ev_snapshot of every SYNC; its ev_seqno is the index
    image,      \* history: the tables at the origin at every SYNC
    log,        \* sl_log_1 and sl_log_2 of every node
    logStatus,  \* last_value of sl_log_status of every node
    event,      \* ev_seqno of the SYNCs in sl_event of every node
    con,        \* con_seqno in sl_confirm of every node, per receiver
    setsync,    \* ssy_seqno of every subscriber
    worker,     \* the SYNC a remote worker is busy with
    applied,    \* history: the log rows whose effect is in a node's tables
    tab         \* the replicated tables: the last action on every row

xactVars == <<nextXid, running, xmax, plan, actSeq>>
syncVars == <<lastAct, snap, image>>
logVars  == <<log, logStatus>>
dataVars == <<applied, tab>>
vars == <<xactVars, syncVars, logVars, event, con, setsync, worker,
          dataVars>>

-----------------------------------------------------------------------------
(* Snapshots, as txid_current_snapshot() builds them.                      *)

Snapshot == [xmax |-> xmax, xip |-> {x \in running : x < xmax}]

(* txid_visible_in_snapshot() *)
Visible(x, s) == x < s.xmax /\ x \notin s.xip

(* log_txid >= txid_snapshot_xmin(ev_snapshot): xmin is the least member of
   xip, or xmax when xip is empty. *)
FromXmin(x, s) == x >= s.xmax \/ \E y \in s.xip : y <= x

-----------------------------------------------------------------------------
(* sl_log_status.                                                          *)

(* The table that new log rows go to: bit 0x01 of the status. *)
ActiveLog(status) == IF status \in {0, 2} THEN 1 ELSE 2

(* Mutant of LogsToQuery: the bit 0x02 of the status is ignored. *)
ActiveLogOnly(status) == {ActiveLog(status)}

(* The tables sync_event() selects from, given the provider's status. *)
LogsToQuery(status) ==
    {i \in LogNo : ~(i = 1 /\ status = 1) /\ ~(i = 2 /\ status = 0)}

(* The table a switch in progress is about to clean: status 2 and 3. *)
OldLog(status) == IF status = 2 THEN 2 ELSE 1

(* Mutant of StartedStatus: the bits are added to the status. *)
AddedStatus(status) == status + 3

StartedStatus(status) == IF status = 0 THEN 3 ELSE 2
FinishedStatus(status) == IF status = 2 THEN 0 ELSE 1

-----------------------------------------------------------------------------
(* Application transactions at the origin and the log trigger.             *)

RowsOf(x) == {r \in log[Origin][1] \cup log[Origin][2] : r.xid = x}

(* Mutant of LastAction: the rows are replayed in the order of log_txid. *)
LastByXid(B, k) ==
    (CHOOSE r \in B : r.key = k /\ \A s \in B : s.key = k => s.xid <= r.xid).seq

(* The tables t after the actions of the log rows B, in actionseq order. *)
LastAction(B, k) ==
    (CHOOSE r \in B : r.key = k /\ \A s \in B : s.key = k => s.seq <= r.seq).seq

Apply(t, B) ==
    [k \in Key |-> IF \E r \in B : r.key = k THEN LastAction(B, k) ELSE t[k]]

(* Mutant of RowLockFree: log_actionseq is drawn before the row lock. *)
RowLockIgnored(x, k) == x \in Xid /\ k \in Key

(* An UPDATE waits for the row lock of another transaction in progress; the
   trigger fires after it is granted, and only then draws log_actionseq. *)
RowLockFree(x, k) ==
    \A y \in running \ {x} : \A r \in RowsOf(y) : r.key # k

(* logTrigger(): the first call in a transaction caches the active log. *)
CachedLog(x) == IF plan[x] = 0 THEN ActiveLog(logStatus[Origin]) ELSE plan[x]

LogTrigger(x, k) ==
    /\ x \in running \/ (x = nextXid /\ nextXid <= MaxXid)
    /\ actSeq < MaxSeq
    /\ RowLockFree(x, k)
    /\ running' = running \cup {x}
    /\ nextXid' = IF x = nextXid THEN nextXid + 1 ELSE nextXid
    /\ plan' = [plan EXCEPT ![x] = CachedLog(x)]
    /\ actSeq' = actSeq + 1
    /\ log' = [log EXCEPT ![Origin][CachedLog(x)] =
                    @ \cup {[xid |-> x, seq |-> actSeq + 1, key |-> k]}]
    /\ UNCHANGED <<xmax, syncVars, logStatus, event, con, setsync,
                   worker, dataVars>>

(* ROLLBACK TO SAVEPOINT: the rows logged since the savepoint, and the locks
   taken since, are gone; sl_action_seq and plan_active_log are not reset. *)
RollbackToSavepoint(x, s) ==
    /\ x \in running
    /\ \E r \in RowsOf(x) : r.seq > s
    /\ log' = [log EXCEPT ![Origin] =
                    [i \in LogNo |-> {r \in @[i] : r.xid # x \/ r.seq <= s}]]
    /\ UNCHANGED <<xactVars, syncVars, logStatus, event, con, setsync,
                   worker, dataVars>>

Complete(x) ==
    /\ running' = running \ {x}
    /\ xmax' = IF x >= xmax THEN x + 1 ELSE xmax
    /\ plan' = [plan EXCEPT ![x] = 0]
    /\ UNCHANGED <<nextXid, actSeq>>

Commit(x) ==
    /\ x \in running
    /\ Complete(x)
    /\ applied' = [applied EXCEPT ![Origin] = @ \cup RowsOf(x)]
    /\ tab' = [tab EXCEPT ![Origin] = Apply(@, RowsOf(x))]
    /\ UNCHANGED <<syncVars, logVars, event, con, setsync, worker>>

Abort(x) ==
    /\ x \in running
    /\ Complete(x)
    /\ log' = [log EXCEPT ![Origin] =
                    [i \in LogNo |-> {r \in @[i] : r.xid # x}]]
    /\ UNCHANGED <<syncVars, logStatus, event, con, setsync, worker,
                   dataVars>>

-----------------------------------------------------------------------------
(* The sync thread of the origin.                                          *)

(* createEvent('SYNC') under the lock on sl_event_lock. *)
CreateSync ==
    /\ Len(snap) < MaxSync
    /\ snap' = Append(snap, Snapshot)
    /\ image' = Append(image, tab[Origin])
    /\ event' = [event EXCEPT ![Origin] = @ \cup {Len(snap) + 1}]
    /\ lastAct' = actSeq
    /\ UNCHANGED <<xactVars, logVars, con, setsync, worker, dataVars>>

(* The check every sync_interval: the action sequence has moved. *)
SyncOnActivity == actSeq # lastAct /\ CreateSync

(* Mutant of SyncOnTimeout: the timeout, too, asks for activity. *)
SyncOnTimeoutActive ==
    /\ actSeq # lastAct
    /\ Snapshot # snap[Len(snap)]
    /\ CreateSync

(* sync_interval_timeout has run out (or slon has just started).  A SYNC
   with the snapshot of the last one selects no rows and is left out. *)
SyncOnTimeout ==
    /\ actSeq = lastAct
    /\ Snapshot # snap[Len(snap)]
    /\ CreateSync

-----------------------------------------------------------------------------
(* The remote worker for events of Origin on subscriber n.                 *)

Idle == [ev |-> 0, group |-> {}, query |-> {}, into |-> 0]

(* Mutant of Unconfirmed: events that are confirmed are queued again. *)
AlwaysUnconfirmed(n, e) == n \in Receiver /\ e \in event[Origin]

(* sl_confirm of n itself is what a listener resumes from. *)
Unconfirmed(n, e) == \A c \in con[n][n] : c < e

(* Mutant of ProviderReady: the provider is not asked for its position. *)
ProviderTrusted(n, q, e) == n \in Receiver /\ e \in event[q]

(* The data provider is the event's origin, or the node that sent the event,
   or is known to have confirmed it.  get_last_forwarded_confirm() answers
   from memory, where a confirmation is noted before it is stored: it may know
   more than sl_confirm of n, never more than the nodes n listens to. *)
ProviderReady(n, q, e) ==
    Provider[n] \notin {Origin, q} =>
        \E m \in Listen[n] \cup {n} : \E c \in con[m][Provider[n]] : c >= e

(* The listener has queued events of q; the worker groups the SYNCs up to e,
   and sync_event() reads the log status of the provider and its own. *)
SyncBegin(n, q, e) ==
    /\ worker[n] = Idle
    /\ q \in Listen[n]
    /\ e \in event[q]
    /\ Unconfirmed(n, e)
    /\ ProviderReady(n, q, e)
    /\ worker' = [worker EXCEPT ![n] =
                    [ev |-> e,
                     group |-> {f \in event[q] : Unconfirmed(n, f) /\ f <= e},
                     query |-> LogsToQuery(logStatus[Provider[n]]),
                     into |-> ActiveLog(logStatus[n])]]
    /\ UNCHANGED <<xactVars, syncVars, logVars, event, con, setsync,
                   dataVars>>

(* Mutants of SelectRows: transactions in progress at the position are
   forgotten; everything from its xmin on is selected. *)
SelectFromXmax(p, query, s, t) ==
    {r \in UNION {log[p][i] : i \in query} :
        r.xid >= s.xmax /\ Visible(r.xid, t)}
SelectFromXmin(p, query, s, t) ==
    {r \in UNION {log[p][i] : i \in query} :
        FromXmin(r.xid, s) /\ Visible(r.xid, t)}

(* The log selection between the position s and the snapshot t of the SYNC. *)
SelectRows(p, query, s, t) ==
    {r \in UNION {log[p][i] : i \in query} :
        \/ r.xid >= s.xmax /\ r.xid < t.xmax /\ Visible(r.xid, t)
        \/ r.xid \in s.xip \ t.xip}

(* sync_helper(): COPY the rows B from the provider into the local log i, whose
   logApply trigger changes the tables and keeps the row only for a node that
   forwards. *)
StoreBatch(n, B, i) ==
    /\ tab' = [tab EXCEPT ![n] = Apply(@, B)]
    /\ applied' = [applied EXCEPT ![n] = @ \cup B]
    /\ log' = IF n \in Forwarder THEN [log EXCEPT ![n][i] = @ \cup B] ELSE log

(* query_append_event(): the events and their confirmations. *)
AppendEvents(n, group) ==
    /\ event' = [event EXCEPT ![n] = @ \cup group]
    /\ con' = [con EXCEPT ![n][n] = @ \cup group]

(* The batch, sl_setsync, the events of the group, and the commit. *)
SyncCommit(n) ==
    LET w == worker[n]
        B == SelectRows(Provider[n], w.query, snap[setsync[n]], snap[w.ev])
    IN  /\ w # Idle
        /\ StoreBatch(n, B, w.into)
        /\ setsync' = [setsync EXCEPT ![n] = w.ev]
        /\ AppendEvents(n, w.group)
        /\ worker' = [worker EXCEPT ![n] = Idle]
        /\ UNCHANGED <<xactVars, syncVars, logStatus>>

(* Mutant of SyncRetry: the confirmations are stored outside the transaction
   that is rolled back. *)
SyncRetryConfirmed(n) ==
    /\ worker[n] # Idle
    /\ worker' = [worker EXCEPT ![n] = Idle]
    /\ con' = [con EXCEPT ![n][n] = @ \cup worker[n].group]
    /\ UNCHANGED <<xactVars, syncVars, logVars, event, setsync, dataVars>>

(* An error in sync_event() or sync_helper(), or the end of the slon process:
   the local transaction is rolled back, and the worker tries again or a new
   one resumes from sl_confirm. *)
SyncRetry(n) ==
    /\ worker[n] # Idle
    /\ worker' = [worker EXCEPT ![n] = Idle]
    /\ UNCHANGED <<xactVars, syncVars, logVars, event, con, setsync,
                   dataVars>>

-----------------------------------------------------------------------------
(* Confirmations.                                                          *)

(* The listener of n reads the newest confirmation of receiver r from node q,
   and forwardConfirm() inserts it unless sl_confirm holds one as new. *)
ForwardConfirm(n, q, r, c) ==
    /\ q \in Listen[n] /\ r # n
    /\ c \in con[q][r] /\ \A d \in con[q][r] : d <= c
    /\ \A d \in con[n][r] : d < c
    /\ con' = [con EXCEPT ![n][r] = @ \cup {c}]
    /\ UNCHANGED <<xactVars, syncVars, logVars, event, setsync, worker,
                   dataVars>>

-----------------------------------------------------------------------------
(* The cleanup thread of node n.                                           *)

(* Mutant of KeptConfirms: the newest old confirmation is deleted as well. *)
KeptAfterCut(n, cut) == [r \in Receiver |-> {c \in con[n][r] : c > cut[r]}]

(* The confirmations that survive when cut[r] is the newest one of receiver r
   that is older than the interval (0: none is). *)
KeptConfirms(n, cut) == [r \in Receiver |-> {c \in con[n][r] : c >= cut[r]}]

(* Mutant of ConfirmedByAll: one receiver is enough. *)
ConfirmedByOne(C, e) == \E r \in Receiver : \A c \in C[r] : e <= c

(* SYNCs before the last one that every row left in sl_confirm covers go. *)
ConfirmedByAll(C, e) == \A r \in Receiver : \A c \in C[r] : e <= c
KeptEvents(E, C) == {e \in E : ~ \E f \in E : e < f /\ ConfirmedByAll(C, f)}

(* lock table ... nowait: no transaction in progress has rows in the log. *)
LockFree(n, i) ==
    \A r \in log[n][i] : ~(n = Origin /\ r.xid \in running)

(* Mutant of Purgeable: the old log has to be empty. *)
EmptyLog(n, i, E) == E # {} /\ log[n][i] = {}

(* No row of the old log is at or after the xmin of the oldest SYNC left. *)
Purgeable(n, i, E) ==
    \A e \in E : (\A f \in E : e <= f) =>
        \A r \in log[n][i] : ~FromXmin(r.xid, snap[e])

(* logswitch_finish() can complete the switch that is in progress. *)
CanFinish(n, E) ==
    /\ logStatus[n] \in {2, 3}
    /\ LockFree(n, OldLog(logStatus[n]))
    /\ Purgeable(n, OldLog(logStatus[n]), E)

(* logswitch_start(), called when logswitch_finish() finds no switch going. *)
LogswitchStart(n) ==
    /\ logStatus[n] \in {0, 1}
    /\ logStatus' = [logStatus EXCEPT ![n] = StartedStatus(@)]
    /\ UNCHANGED log

LogswitchFinish(n, E) ==
    /\ CanFinish(n, E)
    /\ logStatus' = [logStatus EXCEPT ![n] = FinishedStatus(@)]
    /\ log' = [log EXCEPT ![n][OldLog(logStatus[n])] = {}]

(* It gives up, too, while any reader of the old log holds a lock on it. *)
LogswitchBlocked(n) == logStatus[n] \in {2, 3} /\ UNCHANGED logVars

(* con_timestamp grows with con_seqno, so the confirmations older than the
   interval are those up to some row of the receiver, or none. *)
Cut(n) == {cut \in [Receiver -> 0 .. Len(snap)] :
              \A r \in Receiver : cut[r] \in con[n][r] \cup {0}}

CleanupEvent(n, cut) ==
    LET C == KeptConfirms(n, cut)
        E == KeptEvents(event[n], C)
    IN  /\ con' = [con EXCEPT ![n] = C]
        /\ event' = [event EXCEPT ![n] = E]
        /\ LogswitchStart(n) \/ LogswitchFinish(n, E) \/ LogswitchBlocked(n)
        /\ UNCHANGED <<xactVars, syncVars, setsync, worker, dataVars>>

(* The transaction of the cleanup thread fails after setval() on the status:
   deletes and truncate are rolled back, the sequence keeps its value. *)
CleanupCrash(n, cut) ==
    /\ \/ /\ logStatus[n] \in {0, 1}
          /\ logStatus' = [logStatus EXCEPT ![n] = StartedStatus(@)]
       \/ /\ CanFinish(n, KeptEvents(event[n], KeptConfirms(n, cut)))
          /\ logStatus' = [logStatus EXCEPT ![n] = FinishedStatus(@)]
    /\ UNCHANGED <<xactVars, syncVars, log, event, con, setsync, worker,
                   dataVars>>

-----------------------------------------------------------------------------
(* All nodes are subscribed and have processed SYNC 1; nothing has changed
   since. *)
Init ==
    /\ nextXid = 1 /\ running = {} /\ xmax = 1
    /\ plan = [x \in Xid |-> 0]
    /\ actSeq = 0 /\ lastAct = 0
    /\ snap = <<[xmax |-> 1, xip |-> {}]>>
    /\ image = <<[k \in Key |-> 0]>>
    /\ log = [n \in Node |-> [i \in LogNo |-> {}]]
    /\ logStatus = [n \in Node |-> 0]
    /\ event = [n \in Node |-> {1}]
    /\ con = [n \in Node |-> [r \in Receiver |-> {1}]]
    /\ setsync = [n \in Receiver |-> 1]
    /\ worker = [n \in Receiver |-> Idle]
    /\ applied = [n \in Node |-> {}]
    /\ tab = [n \in Node |-> [k \in Key |-> 0]]

Application ==
    \E x \in Xid :
        \/ \E k \in Key : LogTrigger(x, k)
        \/ \E s \in 0 .. MaxSeq : RollbackToSavepoint(x, s)
        \/ Commit(x)
        \/ Abort(x)

SyncThread == SyncOnActivity \/ SyncOnTimeout

RemoteWorker(n) ==
    \/ \E q \in Node : \E e \in event[q] : SyncBegin(n, q, e)
    \/ SyncCommit(n)
    \/ SyncRetry(n)

ConfirmForwarding(n) ==
    \E q \in Node, r \in Receiver :
        \E c \in con[q][r] : ForwardConfirm(n, q, r, c)

CleanupThread(n) ==
    \E cut \in Cut(n) : CleanupEvent(n, cut) \/ CleanupCrash(n, cut)

Next ==
    \/ Application
    \/ SyncThread
    \/ \E n \in Receiver : RemoteWorker(n)
    \/ \E n \in Node : ConfirmForwarding(n)
    \/ \E n \in Cleaner : CleanupThread(n)

Spec == Init /\ [][Next]_vars

(***************************************************************************)
(* plan_active_log (of a transaction) and active_log_table (of a worker)   *)
(* are read once and used later.  As long as a transaction keeps no row in *)
(* the table, or a worker has not begun to COPY into it, no lock protects  *)
(* the choice.  Timely assumes that such a choice is used or dropped       *)
(* before the cleanup thread has gone through the two rounds that make it  *)
(* stale; the run that drops the assumption shows what it is good for.     *)
(***************************************************************************)
UnlockedChoice(n, i) ==
    \/ n = Origin /\ \E x \in running : plan[x] = i /\ RowsOf(x) = {}
    \/ n \in Receiver /\ worker[n] # Idle /\ worker[n].into = i

Timely ==
    \A n \in Node : (logStatus[n] \in {2, 3} /\ logStatus'[n] \in {0, 1}) =>
                        ~UnlockedChoice(n, OldLog(logStatus[n]))

TimelySpec == Init /\ [][Next /\ Timely]_vars

-----------------------------------------------------------------------------
(* The type of every variable. *)
TypeOK ==
    /\ nextXid \in 1 .. MaxXid + 1 /\ xmax \in 1 .. MaxXid + 1
    /\ running \subseteq Xid
    /\ plan \in [Xid -> {0} \cup LogNo]
    /\ actSeq \in 0 .. MaxSeq /\ lastAct \in 0 .. MaxSeq
    /\ snap \in Seq([xmax : 1 .. MaxXid + 1, xip : SUBSET Xid])
    /\ image \in Seq([Key -> 0 .. MaxSeq])
    /\ Len(snap) >= 1 /\ Len(image) = Len(snap)
    /\ log \in [Node -> [LogNo -> SUBSET Row]]
    /\ logStatus \in [Node -> 0 .. 3]
    /\ event \in [Node -> SUBSET (1 .. Len(snap))]
    /\ con \in [Node -> [Receiver -> SUBSET (1 .. Len(snap))]]
    /\ setsync \in [Receiver -> 1 .. Len(snap)]
    /\ \A n \in Receiver :
        \/ worker[n] = Idle
        \/ worker[n] \in [ev : 1 .. Len(snap), group : SUBSET (1 .. Len(snap)),
                          query : SUBSET LogNo, into : LogNo]
    /\ DOMAIN worker = Receiver
    /\ applied \in [Node -> SUBSET Row]
    /\ tab \in [Node -> [Key -> 0 .. MaxSeq]]

(***************************************************************************)
(* Safety.                                                                 *)
(***************************************************************************)

(* The log rows that subscriber n still has to apply for SYNC e. *)
Needed(n, e) ==
    {r \in applied[Origin] \ applied[n] : Visible(r.xid, snap[e])}

(* sync_event() decides from one reading of the provider's sl_log_status
   which log tables to select from.  Whatever log switches, truncations and
   writers come between that reading and the COPY, the tables it chose hold
   every row the subscriber needs for the SYNC. *)
QueriedLogsSuffice ==
    \A n \in Receiver : worker[n] # Idle =>
        Needed(n, worker[n].ev)
            \subseteq UNION {log[Provider[n]][i] : i \in worker[n].query}

(* A subscriber shows exactly the committed contents the origin's tables had
   when the SYNC in its sl_setsync was created: applying by log_actionseq
   what two snapshots differ in has the effect of the commits, in the order
   of the commits. *)
ReplicaConsistent == \A n \in Receiver : tab[n] = image[setsync[n]]

(* Every change that is committed and visible to the subscriber's SYNC has
   been applied, and nothing else has: no row is lost at the edge of two
   snapshots, and none of a transaction that was then still in progress. *)
AppliedExactly ==
    \A n \in Receiver : applied[n] =
        {r \in applied[Origin] : Visible(r.xid, snap[setsync[n]])}

(* No batch selected for a SYNC contains a row that is already applied (an
   INSERT replayed twice would stop replication with a duplicate key). *)
NeverAppliedTwice ==
    \A n \in Receiver : worker[n] # Idle =>
        applied[n] \cap SelectRows(Provider[n], worker[n].query,
                                   snap[setsync[n]], snap[worker[n].ev]) = {}

(* A confirmation anywhere in the cluster is true: the receiver has applied
   that SYNC. Cleanup relies on it. *)
ConfirmSound ==
    \A n \in Node, r \in Receiver : \A c \in con[n][r] : c <= setsync[r]

(* A cascaded subscriber never passes its data provider, even when it hears
   of events from other nodes first. *)
NeverAheadOfProvider ==
    \A n \in Receiver :
        Provider[n] # Origin => setsync[n] <= setsync[Provider[n]]

(* Purging keeps the newest confirmation of every receiver: what a node knows
   of the progress of another never goes back. *)
ConfirmsAdvance ==
    [][\A n \in Node, r \in Receiver :
            \A c \in con[n][r] : \E d \in con'[n][r] : c <= d]_vars

(* The subscribers implement the abstract replica. *)
Abstract == INSTANCE Replica WITH
    Value <- 0 .. MaxSeq,
    db <- tab[Origin], published <- image, pos <- setsync,
    copy <- [n \in Receiver |-> tab[n]]

(* Every step of the data path is a commit, a publication or a catching up of
   the abstract replica, or changes nothing that it shows. *)
ImplementsReplica == Abstract!Spec

(***************************************************************************)
(* Liveness.                                                               *)
(***************************************************************************)

(* The rounds of the cleanup thread that complete a log switch. *)
FinishRound(n) ==
    /\ \E cut \in Cut(n) : CleanupEvent(n, cut)
    /\ logStatus'[n] \in {0, 1}
    /\ Timely

(* slon loops for ever: the sync thread polls, workers and listeners retry,
   cleanup comes round again while confirmations grow old.  An attempt of a
   worker may fail, but not every one; a reader may block a log switch, but
   not every time.  Application transactions end. *)
Fairness ==
    /\ WF_vars(SyncThread)
    /\ \A n \in Receiver :
        /\ WF_vars(\E q \in Node : \E e \in event[q] : SyncBegin(n, q, e))
        /\ SF_vars(SyncCommit(n))
    /\ \A n \in Node : WF_vars(ConfirmForwarding(n))
    /\ \A n \in Cleaner : SF_vars(FinishRound(n))
    /\ \A x \in Xid : WF_vars(Commit(x) \/ Abort(x))

LiveSpec == TimelySpec /\ Fairness

(* What is committed at the origin reaches every subscriber, although the
   bump of sl_action_seq may have been seen, and synced, before the commit. *)
EventuallyReplicated ==
    \A x \in Xid, n \in Receiver :
        (\E r \in applied[Origin] : r.xid = x)
            ~> (\E r \in applied[n] : r.xid = x)

(* A log switch, once begun, completes: the old log table is truncated. *)
LogswitchCompletes ==
    \A n \in Cleaner : logStatus[n] \in {2, 3} ~> logStatus[n] \in {0, 1}

=============================================================================
