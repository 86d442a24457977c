-------------------------------- MODULE Slonik --------------------------------
(***************************************************************************)
(* slonik executes a script of administrative statements against the nodes *)
(* of a cluster.  Each statement calls stored procedures on one node or    *)
(* more, within a transaction per node that is committed after the         *)
(* statement, or at the end of a TRY block.  Before slonik creates an      *)
(* event on another node than the last time it waits until that node has   *)
(* confirmed what came before, so that the workers, which know no order    *)
(* between events of different origins, meet them in the order of the      *)
(* script.                                                                 *)
(*                                                                         *)
(* Confirmations reach slonik later than the processing they tell of;      *)
(* here it sees the processing itself, and so never waits longer than the  *)
(* program.  slonik is taken to run without -w (auto_wait_disabled).       *)
(***************************************************************************)
EXTENDS ClusterConfig, Integers

CONSTANT Script    \* the scripts, each with the cluster it is run against

VARIABLES
    script,    \* the script under execution
    pc,        \* what slonik does next
    frames,    \* the blocks in execution, the innermost last
    step,      \* position within a statement that takes several steps
    found,     \* what an earlier step of the statement has read
    xact,      \* xact[n]: the transaction of the connection to n
    last,      \* last[n]: adminfo->last_event
    lastNode,  \* last_event_node
    made       \* made[n]: the last configuration event submitted to n (history)

slonikVars == <<script, pc, frames, step, found, xact, last, lastNode, made>>
vars == <<db, event, done, held, slonikVars>>

None == -1
NoXact == [open |-> FALSE, c |-> NotInstalled, ev |-> <<>>, pos |-> <<>>]

(* A set of all nodes' ids: the script has an admin conninfo for each. *)
Admin == Node
-----------------------------------------------------------------------------
(* script_check_stmts: every statement names nodes that there is conninfo
   for, and the ids that it needs.  0 stands for an id that is not given. *)

CheckNodeStmt(s) ==
    CASE s.cmd \in {"INIT_CLUSTER", "UNINSTALL_NODE"} -> s.node \in Admin
      [] s.cmd = "STORE_NODE"    -> s.node \in Admin /\ s.new > 0
      [] s.cmd = "DROP_NODE"     -> s.node \in Admin \ s.ids /\ s.ids # {}
      [] s.cmd = "FAILED_NODE"   -> /\ s.nodes # <<>>
                                    /\ \A i \in 1 .. Len(s.nodes) :
                                           s.nodes[i].backup \in Admin \ {s.nodes[i].id}
      [] OTHER -> FALSE

CheckCloneStmt(s) ==
    CASE s.cmd = "CLONE_PREPARE" -> s.provider \in Admin /\ s.new > 0
      [] s.cmd \in {"CLONE_FINISH", "COPY_DATABASE"} -> s.new \in Admin
      [] OTHER -> FALSE

CheckServiceStmt(s) ==
    /\ s.cmd \in {"RESTART_NODE", "REPAIR_CONFIG", "UPDATE_FUNCTIONS", "SWITCH_LOG", "SYNC",
                  "DDL_SCRIPT"}
    /\ s.node \in Admin

CheckPathStmt(s) ==
    CASE s.cmd = "STORE_PATH" -> s.client \in Admin /\ s.server > 0
      [] s.cmd = "DROP_PATH"  -> s.node \in Admin /\ s.server > 0 /\ s.client > 0
      [] s.cmd \in {"STORE_LISTEN", "DROP_LISTEN"} ->
            s.receiver \in Admin /\ s.origin > 0 /\ s.provider > 0
      [] OTHER -> FALSE

CheckSetStmt(s) ==
    CASE s.cmd \in {"CREATE_SET", "DROP_SET"} -> s.origin \in Admin /\ s.set > 0
      [] s.cmd = "MERGE_SET" -> s.origin \in Admin /\ s.set > 0 /\ s.add > 0
      [] OTHER -> FALSE

CheckMoveStmt(s) ==
    CASE s.cmd \in {"LOCK_SET", "UNLOCK_SET"} -> s.origin \in Admin /\ s.set > 0
      [] s.cmd = "MOVE_SET"  -> s.origin \in Admin /\ s.set > 0 /\ s.new > 0 /\ s.new # s.origin
      [] OTHER -> FALSE

CheckAddStmt(s) == s.cmd = "SET_ADD" /\ s.origin \in Admin \cup {0} /\ s.set > 0

CheckTakeStmt(s) ==
    \/ s.cmd = "SET_DROP" /\ s.origin \in Admin /\ s.obj > 0
    \/ s.cmd = "SET_MOVE" /\ s.origin \in Admin /\ s.obj > 0 /\ s.set > 0

CheckSubscribeStmt(s) ==
    CASE s.cmd = "SUBSCRIBE_SET"    -> s.provider \in Admin /\ s.set > 0 /\ s.receiver > 0
      [] s.cmd = "UNSUBSCRIBE_SET"  -> s.receiver \in Admin /\ s.set > 0
      [] OTHER -> FALSE

CheckResubscribe(s) ==
    s.cmd = "RESUBSCRIBE_NODE" /\ s.origin > 0 /\ s.provider > 0 /\ s.receiver > 0

(* 0 is ALL.  WAIT FOR EVENT is a syntax error inside of a TRY block. *)
CheckWait(s) ==
    s.cmd = "WAIT_EVENT" /\ s.on \in Admin /\ s.origin >= 0 /\ s.confirmed >= 0

CheckExit(s) == s.cmd = "EXIT" /\ s.code \in 0 .. 255

CheckStmt(s) ==
    \/ CheckNodeStmt(s) \/ CheckCloneStmt(s) \/ CheckServiceStmt(s) \/ CheckPathStmt(s)
    \/ CheckSetStmt(s) \/ CheckMoveStmt(s) \/ CheckAddStmt(s) \/ CheckTakeStmt(s)
    \/ CheckSubscribeStmt(s) \/ CheckResubscribe(s) \/ CheckWait(s) \/ CheckExit(s)

(* Blocks of a TRY statement are checked like the script itself; the
   grammar allows no TRY directly within another. *)
CheckTry(s) ==
    /\ s.cmd = "TRY"
    /\ \A b \in {s.block, s.onerror, s.onsuccess} : \A i \in 1 .. Len(b) : CheckStmt(b[i])

script_check(b) == \A i \in 1 .. Len(b) : CheckStmt(b[i]) \/ CheckTry(b[i])
-----------------------------------------------------------------------------
Top == frames[Len(frames)]
Level == IF Top.kind = "try" THEN 1 ELSE 0    \* current_try_level
StmtNo == Top.no + 1                          \* block_stmt_no
Stmt == Head(Top.rest)

Frame(kind, block) ==
    [kind |-> kind, rest |-> block, no |-> 0, onerror |-> <<>>, onsuccess |-> <<>>]
Pop(fs) == SubSeq(fs, 1, Len(fs) - 1)
Advance(fs) == [fs EXCEPT ![Len(fs)] = [@ EXCEPT !.rest = Tail(@), !.no = @ + 1]]

(* The numbers of the events of n that a filter selects. *)
ConfigEvents(n) == {i \in DOMAIN event[n] : event[n][i].type # "SYNC"}
DropSetEvents(n) == {i \in DOMAIN event[n] : event[n][i].type = "DROP_SET"}

(* The last of the events k of n, which is 0 if there is none; -1 if n cannot
   be asked. *)
LastOf(n, k) ==
    IF ~Installed(n) THEN -1
    ELSE IF k = {} THEN 0 ELSE CHOOSE i \in k : \A j \in k : j <= i
-----------------------------------------------------------------------------
(* Transactions.  db_begin_xact inside of TRY takes the event lock.  The
   configuration a transaction works on is settled when it gets the
   configuration lock: until then it sees what workers commit. *)

View(n) == IF "config" \in held[n] THEN xact[n].c ELSE db[n]
Begin(x) == [x EXCEPT !.open = TRUE]
BeginLocks == IF Level = 1 THEN {"event"} ELSE {}

(* Transaction x after a procedure that returned r. *)
Execute(x, r) == [x EXCEPT !.open = TRUE, !.c = r.c, !.ev = @ \o r.ev]

Committed(n) ==
    /\ db' = IF "config" \in held[n] THEN [db EXCEPT ![n] = xact[n].c] ELSE db
    /\ event' = [event EXCEPT ![n] = @ \o xact[n].ev]
    /\ done' = IF xact[n].pos = <<>> THEN done ELSE [done EXCEPT ![n] = xact[n].pos]

(* After a statement: commit outside of TRY, else go on. *)
Succeed ==
    /\ frames' = Advance(frames)
    /\ step' = 0
    /\ pc' = IF Level = 0 THEN "commit" ELSE "next"

Fail ==
    /\ pc' = "failed"
    /\ step' = 0
    /\ UNCHANGED frames
-----------------------------------------------------------------------------
(* Waiting. *)

(* A mutant: slonik waits although it holds uncommitted events. *)
MayWaitAnywhere == TRUE

(* In a TRY block slonik can wait only in the first statement, since it has
   to give up its locks. *)
MayWait == Level = 0 \/ StmtNo = 1

(* slonik_wait_event, asked of node on: a node that is not active there is
   not waited for. *)
Confirmed(on, o, r, k) == r \notin db[on].active \/ r = o \/ done[r][o] >= k

(* slonik_wait_config_caughtup: n has processed the last event of every other
   node.  A node that n has not heard of counts as being at event 0. *)
CaughtUp(n, events, ignored) ==
    \A o \in Admin \ {n, ignored} :
        \/ events[o] < 0
        \/ Installed(n) /\ (o \in db[n].known \ db[n].active \/ done[n][o] >= events[o])

(* Mutants: no wait between nodes; a wait that ends one event early. *)
NeverWait(n, suppress) == FALSE
OneEventShort(n, suppress) ==
    ~suppress /\ lastNode # None /\ lastNode # n =>
        Confirmed(lastNode, lastNode, n, last[lastNode] - 1)

(* slonik_submitEvent: wait for the node of the last event, unless
   suppressed, then execute the procedure and remember its event. *)
MustWait(n, suppress) == ~suppress /\ lastNode # None /\ lastNode # n

Refused(n, suppress) ==
    MustWait(n, suppress) /\ (~MayWait \/ last[lastNode] < 0)

MayProceed(n, suppress) ==
    MustWait(n, suppress) => Confirmed(lastNode, lastNode, n, last[lastNode])

(* A mutant: one too many. *)
EventTooMany(n, r) == Len(event[n]) + Len(xact[n].ev) + Len(r.ev) + 1

(* The number of the last event that a procedure with result r creates, and
   the number it returns to slonik, which keeps the old one for a null. *)
NewEvent(n, r) == Len(event[n]) + Len(xact[n].ev) + Len(r.ev)
Returned(n, r) == IF r.ev = <<>> THEN last[n] ELSE NewEvent(n, r)

(* A procedure with result r runs in the transaction of n, after queries on
   the nodes asked. *)
Ran(n, locks, r, asked) ==
    LET queried == IF Level = 1 THEN asked ELSE {}
    IN  /\ xact' = [m \in Node |-> IF m = n THEN Execute(xact[m], r)
                                   ELSE IF m \in queried THEN Begin(xact[m]) ELSE xact[m]]
        /\ held' = [m \in Node |-> IF m = n THEN held[m] \cup locks \cup BeginLocks
                                   ELSE IF m \in queried THEN held[m] \cup BeginLocks
                                   ELSE held[m]]

Submit(n, suppress, locks, r, returned, asked) ==
    /\ ~Refused(n, suppress)
    /\ lastNode' = IF suppress THEN lastNode ELSE n
    /\ IF r.ok
       THEN /\ Ran(n, locks, r, IF MustWait(n, suppress) THEN asked \cup {lastNode} ELSE asked)
            /\ last' = [last EXCEPT ![n] = returned]
            /\ made' = [made EXCEPT ![n] = IF r.ev = <<>> \/ r.ev = <<Ev("SYNC")>> THEN @
                                           ELSE NewEvent(n, r)]
       ELSE UNCHANGED <<xact, held, last, made>>

Quit ==
    /\ Fail
    /\ UNCHANGED <<db, event, done, held, script, found, xact, last, lastNode, made>>

BothLocks == {"event", "config"}

(* The whole of a statement that submits an event to n, having asked others. *)
SubmitAsking(n, suppress, locks, r, asked) ==
    \/ /\ Submit(n, suppress, locks, r, IF r.ok THEN Returned(n, r) ELSE None, asked)
       /\ IF r.ok THEN Succeed ELSE Fail
       /\ UNCHANGED <<db, event, done, script, found>>
    \/ Refused(n, suppress) /\ Quit

submitEvent(n, suppress, locks, r) == SubmitAsking(n, suppress, locks, r, {})

(* A procedure called through db_exec_command: slonik does not look at the
   events it may create. *)
Command(n, locks, r) ==
    /\ IF r.ok THEN Ran(n, locks, r, {}) /\ Succeed
               ELSE Fail /\ UNCHANGED <<xact, held>>
    /\ UNCHANGED <<db, event, done, script, found, last, lastNode, made>>

(* isSubscriptionInProgress: a receiver has yet to confirm that it has copied
   the set. *)
InProgress(o, s) ==
    \E m \in Node : \E k \in 1 .. Len(event[m]) :
        /\ Has(o, m, k)
        /\ event[m][k].type = "ENABLE_SUBSCRIPTION" /\ event[m][k].set = s
        /\ done[event[m][k].receiver][m] < k

(* The first node that knows the set tells its origin. *)
Knowing(s) == {n \in Admin : Installed(n) /\ SetKnown(View(n), s)}
FirstKnowing(s) == CHOOSE n \in Knowing(s) : \A m \in Knowing(s) : n <= m
find_origin(s) == IF Knowing(s) = {} THEN None ELSE OriginOf(View(FirstKnowing(s)), s)

AddOrigin == IF Stmt.origin = 0 THEN find_origin(Stmt.set) ELSE Stmt.origin

(* The nodes and events that WAIT FOR EVENT names. *)
WaitedOrigins == IF Stmt.origin = 0 THEN {o \in Admin : last[o] >= 0} ELSE {Stmt.origin}
WaitedNodes(o) == IF Stmt.confirmed = 0 THEN Node \ {o} ELSE {Stmt.confirmed}

(* A mutant: one node's confirmation is enough for ALL. *)
AnyConfirmed ==
    \A o \in WaitedOrigins : \E r \in WaitedNodes(o) : Confirmed(Stmt.on, o, r, last[o])

AllConfirmed ==
    \A o \in WaitedOrigins : \A r \in WaitedNodes(o) : Confirmed(Stmt.on, o, r, last[o])

(* The node to which the statement submits an event at this step and waits
   for the one before.  The others submit none, or do not wait. *)
EventNode ==
    CASE Stmt.cmd = "STORE_NODE" /\ step = 6 -> Stmt.node
      [] Stmt.cmd = "DROP_PATH" -> Stmt.node
      [] Stmt.cmd = "CLONE_PREPARE" -> Stmt.provider
      [] Stmt.cmd \in {"STORE_LISTEN", "DROP_LISTEN", "UNSUBSCRIBE_SET"} -> Stmt.receiver
      [] Stmt.cmd \in {"CREATE_SET", "DROP_SET", "MERGE_SET", "SET_DROP", "SET_MOVE", "MOVE_SET"} ->
            Stmt.origin
      [] Stmt.cmd = "SET_ADD" -> IF step = 0 THEN AddOrigin ELSE found.origin
      [] Stmt.cmd = "SUBSCRIBE_SET" /\ step = 1 -> found.origin
      [] Stmt.cmd = "RESUBSCRIBE_NODE" /\ step = 0 -> Stmt.origin
      [] OTHER -> None

(* What statements wait for at their first step. *)
Awaited ==
    CASE Stmt.cmd = "STORE_NODE" -> CaughtUp(Stmt.node, last, Stmt.new)
      [] Stmt.cmd \in {"CLONE_PREPARE", "SUBSCRIBE_SET", "RESUBSCRIBE_NODE"} ->
            CaughtUp(Stmt.provider, last, None)
      [] Stmt.cmd = "CREATE_SET" ->
            CaughtUp(Stmt.origin, [m \in Node |-> LastOf(m, DropSetEvents(m))], None)
      [] Stmt.cmd = "MERGE_SET" ->
            ~InProgress(Stmt.origin, Stmt.set) /\ ~InProgress(Stmt.origin, Stmt.add)
      [] OTHER -> TRUE

Waiting ==
    \/ step = 0 /\ MayWait /\ ~Awaited
    \/ EventNode # None /\ ~Refused(EventNode, FALSE) /\ ~MayProceed(EventNode, FALSE)
    \/ /\ Stmt.cmd = "DROP_NODE" /\ step = 1
       /\ Installed(Stmt.node)
       /\ \E i \in Stmt.ids : ~Confirmed(Stmt.node, i, Stmt.node, found.escaped[i])
    \/ /\ Stmt.cmd = "WAIT_EVENT" /\ ~Stmt.timeout
       /\ Installed(Stmt.on) /\ (Stmt.origin # 0 => last[Stmt.origin] >= 0)
       /\ ~AllConfirmed

(* Slonik is about to execute step i of statement cmd and need not wait. *)
At(cmd, i) == pc = "next" /\ Top.rest # <<>> /\ Stmt.cmd = cmd /\ step = i /\ ~Waiting

(* Procedures fail on a node where Slony-I is not installed. *)
On(n, r) == IF View(n) = NotInstalled THEN Failure ELSE r
-----------------------------------------------------------------------------
(* Nodes. *)

slonik_init_cluster ==
    /\ At("INIT_CLUSTER", 0)
    /\ Command(Stmt.node, BothLocks,
               IF Installed(Stmt.node) THEN Failure
               ELSE enableNode(initializeLocalNode(Stmt.node), Stmt.node))

(* STORE NODE copies the configuration to the new node table by table, with the
   procedures that the workers use; each table is read by a query of its own. *)
CopyNodes(c, from) ==
    [c EXCEPT !.known = @ \cup from.known, !.active = @ \cup from.active]

CopyPaths(c, from) ==
    IF from.path = {} THEN c
    ELSE Rebuild([storeNode_int(c, UNION {{p[1], p[2]} : p \in from.path}) EXCEPT
                     !.path = from.path, !.pending = from.pending])

CopyListens(c, from) == [c EXCEPT !.listen = @ \cup from.listen]

CopySets(c, from) == [c EXCEPT !.set = from.set]

CopySubscriptions(c, from) ==
    LET missing == {<<x.provider, x.receiver>> : x \in from.sub} \ c.path
    IN  IF from.sub = {} THEN c
        ELSE Rebuild([c EXCEPT !.sub = from.sub, !.path = @ \cup missing,
                               !.pending = @ \cup missing])

CopyTable(i, c, from) ==
    CASE i = 1 -> CopyPaths(c, from)
      [] i = 2 -> CopyListens(c, from)
      [] i = 3 -> CopySets(c, from)
      [] i = 4 -> CopySubscriptions(c, from)

StoreNodeBegin ==
    /\ At("STORE_NODE", 0)
    /\ LET n == Stmt.node
           new == Stmt.new
           c == [initializeLocalNode(new) EXCEPT !.active = {new}]
       IN  \/ /\ MayWait /\ Installed(n) /\ ~Installed(new)
              /\ xact' = [xact EXCEPT ![new] = Execute(@, Done(CopyNodes(c, View(n)), <<>>)),
                                      ![n] = Begin(@)]
              /\ held' = [held EXCEPT ![new] = BothLocks, ![n] = @ \cup BeginLocks]
              /\ step' = 1
              /\ UNCHANGED <<db, event, done, script, pc, frames, found, last, lastNode, made>>
           \/ (~MayWait \/ ~Installed(n) \/ Installed(new)) /\ Quit

StoreNodeCopy ==
    \E i \in 1 .. 4 :
        /\ At("STORE_NODE", i)
        /\ LET r == Done(CopyTable(i, xact[Stmt.new].c, View(Stmt.node)), <<>>)
           IN  IF r.ok
               THEN /\ xact' = [xact EXCEPT ![Stmt.new] = Execute(@, r)]
                    /\ step' = i + 1
                    /\ UNCHANGED <<db, event, done, held, script, pc, frames, found, last,
                                   lastNode, made>>
               ELSE Quit

(* At last the number of the last event of every origin. *)
StoreNodeConfirms ==
    /\ At("STORE_NODE", 5)
    /\ LET n == Stmt.node
       IN  xact' = [xact EXCEPT ![Stmt.new].pos =
                       [o \in Node |-> IF o = n THEN Len(event[n]) ELSE done[n][o]]]
    /\ step' = 6
    /\ UNCHANGED <<db, event, done, held, script, pc, frames, found, last, lastNode, made>>

StoreNodeEvents ==
    /\ At("STORE_NODE", 6)
    /\ LET Enable(c) == enableNode(c, Stmt.new)
       IN  submitEvent(Stmt.node, FALSE, {"config"},
                       Then(storeNode(View(Stmt.node), Stmt.new), Enable))

slonik_store_node ==
    StoreNodeBegin \/ StoreNodeCopy \/ StoreNodeConfirms \/ StoreNodeEvents

(* get_last_escaped_event_id: the last event of a node to be dropped that is
   known to a node that stays. *)
Escaped(i, ids) ==
    LET ks == {done[n][i] : n \in {m \in Admin \ ids : Installed(m)}} \cup {0}
    IN  CHOOSE k \in ks : \A j \in ks : j <= k

DropNodeLook ==
    /\ At("DROP_NODE", 0)
    /\ found' = [found EXCEPT !.escaped = [i \in Stmt.ids |-> Escaped(i, Stmt.ids)]]
    /\ step' = 1
    /\ LET asked == IF Level = 1 THEN Admin \ Stmt.ids ELSE {}
       IN  /\ xact' = [m \in Node |-> IF m \in asked THEN Begin(xact[m]) ELSE xact[m]]
           /\ held' = [m \in Node |-> IF m \in asked THEN held[m] \cup BeginLocks ELSE held[m]]
    /\ UNCHANGED <<db, event, done, script, pc, frames, last, lastNode, made>>

(* Only the event node has to confirm them. *)
DropNodeEvent ==
    /\ At("DROP_NODE", 1)
    /\ LET r == On(Stmt.node, dropNode(View(Stmt.node), Stmt.ids))
           Dropped(f, none) == [m \in Node |-> IF m \in Stmt.ids THEN none ELSE
                                               IF m = Stmt.node THEN NewEvent(m, r) ELSE f[m]]
       IN  IF r.ok
           THEN /\ Ran(Stmt.node, BothLocks, r, {})
                /\ last' = Dropped(last, -1)
                /\ made' = Dropped(made, 0)
                /\ Succeed
           ELSE Fail /\ UNCHANGED <<xact, held, last, made>>
    /\ UNCHANGED <<db, event, done, script, found, lastNode>>

slonik_drop_node == DropNodeLook \/ DropNodeEvent

(* Commits twice by itself, with all that the transaction has done before,
   and closes the connection. *)
slonik_uninstall_node ==
    /\ At("UNINSTALL_NODE", 0)
    /\ LET n == Stmt.node
       IN  IF Installed(n)
           THEN /\ db' = [db EXCEPT ![n] = NotInstalled]
                /\ last' = [last EXCEPT ![n] = -1]
                /\ xact' = [xact EXCEPT ![n] = NoXact]
                /\ held' = [held EXCEPT ![n] = {}]
                /\ Succeed
           ELSE Fail /\ UNCHANGED <<db, last, xact, held>>
    /\ UNCHANGED <<event, done, script, found, lastNode, made>>

(* Two waits one after the other: for what the provider has to know, and
   slonik_submitEvent's own. *)
slonik_clone_prepare ==
    /\ At("CLONE_PREPARE", 0)
    /\ LET p == Stmt.provider
       IN  \/ /\ MayWait
              /\ submitEvent(p, FALSE, {"config"}, On(p, cloneNodePrepare(View(p), Stmt.new, p)))
           \/ ~MayWait /\ Quit

(* The administrator copies the provider's database to the new node. *)
CopyDatabase ==
    /\ At("COPY_DATABASE", 0)
    /\ LET p == Stmt.provider
           new == Stmt.new
       IN  /\ db' = [db EXCEPT ![new] = db[p]]
           /\ done' = [done EXCEPT ![new] = [done[p] EXCEPT ![p] = Len(event[p])]]
    /\ Succeed
    /\ UNCHANGED <<event, held, script, found, xact, last, lastNode, made>>

slonik_clone_finish ==
    /\ At("CLONE_FINISH", 0)
    /\ Command(Stmt.new, {"config"},
               On(Stmt.new, Done(cloneNodeFinish(View(Stmt.new), Stmt.new), <<>>)))
-----------------------------------------------------------------------------
(* Paths and listen entries. *)

slonik_store_path ==
    /\ At("STORE_PATH", 0)
    /\ submitEvent(Stmt.client, TRUE, BothLocks,
                   On(Stmt.client, storePath(View(Stmt.client), Stmt.server, Stmt.client)))

slonik_drop_path ==
    /\ At("DROP_PATH", 0)
    /\ submitEvent(Stmt.node, FALSE, BothLocks,
                   On(Stmt.node, dropPath(View(Stmt.node), Stmt.server, Stmt.client)))

slonik_store_listen ==
    /\ At("STORE_LISTEN", 0)
    /\ submitEvent(Stmt.receiver, FALSE, BothLocks,
                   On(Stmt.receiver, storeListen(View(Stmt.receiver), Stmt.origin,
                                                 Stmt.provider, Stmt.receiver)))

slonik_drop_listen ==
    /\ At("DROP_LISTEN", 0)
    /\ submitEvent(Stmt.receiver, FALSE, BothLocks,
                   On(Stmt.receiver, dropListen(View(Stmt.receiver), Stmt.origin,
                                                Stmt.provider, Stmt.receiver)))
-----------------------------------------------------------------------------
(* Sets. *)

slonik_create_set ==
    /\ At("CREATE_SET", 0)
    /\ LET o == Stmt.origin
       IN  \/ /\ MayWait
              /\ submitEvent(o, FALSE, BothLocks, On(o, storeSet(View(o), Stmt.set)))
           \/ ~MayWait /\ Quit

slonik_drop_set ==
    /\ At("DROP_SET", 0)
    /\ submitEvent(Stmt.origin, FALSE, BothLocks,
                   On(Stmt.origin, dropSet(View(Stmt.origin), Stmt.set)))

slonik_merge_set ==
    /\ At("MERGE_SET", 0)
    /\ LET o == Stmt.origin
       IN  \/ /\ MayWait
              /\ submitEvent(o, FALSE, BothLocks,
                             On(o, mergeSet(View(o), Stmt.set, Stmt.add, FALSE)))
           \/ ~MayWait /\ Quit

(* One more than the highest id in use on any node. *)
get_next_id(kind) ==
    LET ids == UNION {{x[2] : x \in {y \in View(n).obj : y[1] = kind}} :
                         n \in {m \in Admin : Installed(m)}} \cup {0}
    IN  1 + CHOOSE i \in ids : \A j \in ids : j <= i

AddAsked == {n \in Admin : \/ Stmt.obj = 0 /\ Installed(n)
                           \/ Stmt.origin = 0 /\ n <= FirstKnowing(Stmt.set)}

(* SET ADD TABLE and SET ADD SEQUENCE wait by means of a SYNC, whose outcome
   they ignore, and commit all that the transaction holds, even in TRY. *)
AddSync ==
    /\ At("SET_ADD", 0)
    /\ LET o == AddOrigin
           refused == Refused(o, FALSE)
           sync == IF refused THEN <<>> ELSE <<Ev("SYNC")>>
       IN  IF o = None \/ ~Installed(o) THEN Quit
           ELSE /\ found' = [found EXCEPT !.origin = o]
                /\ step' = 1
                /\ db' = [db EXCEPT ![o] = View(o)]
                /\ event' = [event EXCEPT ![o] = @ \o xact[o].ev \o sync]
                /\ last' = IF refused THEN last ELSE [last EXCEPT ![o] = Len(event'[o])]
                /\ lastNode' = IF refused THEN lastNode ELSE o
                /\ xact' = [xact EXCEPT ![o] = NoXact]
                /\ held' = [held EXCEPT ![o] = {}]
                /\ UNCHANGED <<done, script, pc, frames, made>>

AddObject ==
    /\ At("SET_ADD", 1)
    /\ LET i == IF Stmt.obj = 0 THEN get_next_id(Stmt.kind) ELSE Stmt.obj
           o == found.origin
       IN  SubmitAsking(o, FALSE, BothLocks, setAdd(View(o), Stmt.kind, i, Stmt.set), AddAsked)

slonik_set_add == AddSync \/ AddObject

(* SET DROP TABLE and SET DROP SEQUENCE. *)
slonik_set_drop ==
    /\ At("SET_DROP", 0)
    /\ submitEvent(Stmt.origin, FALSE,
                   IF Stmt.kind = "table" THEN BothLocks ELSE {"config"},
                   On(Stmt.origin, setDrop(View(Stmt.origin), Stmt.kind, Stmt.obj)))

slonik_set_move ==
    /\ At("SET_MOVE", 0)
    /\ submitEvent(Stmt.origin, FALSE, BothLocks,
                   On(Stmt.origin, setMove(View(Stmt.origin), Stmt.kind, Stmt.obj, Stmt.set)))

(* Commits at once, so that transactions that still write can be waited for;
   they are not part of this model. *)
slonik_lock_set ==
    /\ At("LOCK_SET", 0)
    /\ LET o == Stmt.origin
           r == On(o, lockSet(View(o), Stmt.set))
       IN  IF r.ok /\ ~xact[o].open
           THEN /\ db' = [db EXCEPT ![o] = r.c]
                /\ xact' = [xact EXCEPT ![o] = Begin(@)]
                /\ held' = [held EXCEPT ![o] = BeginLocks]
                /\ Succeed
           ELSE Fail /\ UNCHANGED <<db, xact, held>>
    /\ UNCHANGED <<event, done, script, found, last, lastNode, made>>

slonik_unlock_set ==
    /\ At("UNLOCK_SET", 0)
    /\ Command(Stmt.origin, BothLocks,
               On(Stmt.origin, unlockSet(View(Stmt.origin), Stmt.set)))

slonik_move_set ==
    /\ At("MOVE_SET", 0)
    /\ submitEvent(Stmt.origin, FALSE, BothLocks,
                   On(Stmt.origin, moveSet(View(Stmt.origin), Stmt.set, Stmt.new)))
-----------------------------------------------------------------------------
(* Subscriptions. *)

(* The origin of the set, and whether the receiver changes its provider, are
   read from the tables of the provider. *)
SubscribeLook ==
    /\ At("SUBSCRIBE_SET", 0)
    /\ LET p == Stmt.provider
       IN  \/ /\ MayWait /\ Installed(p) /\ SetKnown(View(p), Stmt.set)
              /\ found' = [found EXCEPT
                           !.origin = OriginOf(View(p), Stmt.set),
                           !.reshape = \E x \in SubsOf(View(p), Stmt.set, Stmt.receiver) :
                                          x.active /\ x.provider # p]
              /\ step' = 1
              /\ xact' = [xact EXCEPT ![p] = IF Level = 1 THEN Begin(@) ELSE @]
              /\ held' = [held EXCEPT ![p] = @ \cup BeginLocks]
              /\ UNCHANGED <<db, event, done, script, pc, frames, last, lastNode, made>>
           \/ ~(MayWait /\ Installed(p) /\ SetKnown(View(p), Stmt.set)) /\ Quit

(* subscribeSet() returns what subscribeSet_int() returns: the id of the set. *)
SubscribedEvent(n, r) == Stmt.set

SubscribeEvents ==
    /\ At("SUBSCRIBE_SET", 1)
    /\ LET o == found.origin
           r == On(o, subscribeSet(View(o), Stmt.set, Stmt.provider, Stmt.receiver, Stmt.forward))
       IN  \/ /\ Submit(o, FALSE, BothLocks, r, SubscribedEvent(o, r), {})
              /\ IF ~r.ok THEN Fail
                 ELSE IF found.reshape THEN step' = 2 /\ UNCHANGED <<pc, frames>>
                 ELSE Succeed
              /\ UNCHANGED <<db, event, done, script, found>>
           \/ Refused(o, FALSE) /\ Quit

(* Then the receiver is told at once, an error being ignored. *)
Reshape(origin) ==
    LET r == Stmt.receiver
        new == On(r, Done(reshapeSubscription(View(r), origin, Stmt.provider, r), <<>>))
    IN  /\ IF new.ok THEN Ran(r, {"config"}, new, {}) ELSE UNCHANGED <<xact, held>>
        /\ Succeed
        /\ UNCHANGED <<db, event, done, script, found, last, lastNode, made>>

(* The set goes where the procedure expects the origin. *)
SubscribeReshape == At("SUBSCRIBE_SET", 2) /\ Reshape(Stmt.set)

slonik_subscribe_set == SubscribeLook \/ SubscribeEvents \/ SubscribeReshape

slonik_unsubscribe_set ==
    /\ At("UNSUBSCRIBE_SET", 0)
    /\ submitEvent(Stmt.receiver, FALSE, BothLocks,
                   On(Stmt.receiver, unsubscribeSet(View(Stmt.receiver), Stmt.set,
                                                    Stmt.receiver, FALSE)))

ResubscribeEvents ==
    /\ At("RESUBSCRIBE_NODE", 0)
    /\ LET o == Stmt.origin
           r == On(o, resubscribeNode(View(o), Stmt.provider, Stmt.receiver))
       IN  \/ /\ MayWait
              /\ Submit(o, FALSE, BothLocks, r, IF r.ok THEN Returned(o, r) ELSE None,
                        {Stmt.provider})
              /\ IF r.ok THEN step' = 1 /\ UNCHANGED <<pc, frames>> ELSE Fail
              /\ UNCHANGED <<db, event, done, script, found>>
           \/ (~MayWait \/ Refused(o, FALSE)) /\ Quit

ResubscribeReshape == At("RESUBSCRIBE_NODE", 1) /\ Reshape(Stmt.origin)

slonik_resubscribe_node == ResubscribeEvents \/ ResubscribeReshape
-----------------------------------------------------------------------------
(* Statements that change no configuration. *)

(* A DDL script runs on its node and is replicated with the data.  Like any
   SQL it may fail. *)
slonik_ddl_script ==
    /\ At("DDL_SCRIPT", 0)
    /\ \/ Command(Stmt.node, {}, On(Stmt.node, Done(View(Stmt.node), <<>>)))
       \/ Quit

slonik_restart_node ==
    /\ \E cmd \in {"RESTART_NODE", "UPDATE_FUNCTIONS"} : At(cmd, 0)
    /\ Command(Stmt.node, {}, On(Stmt.node, Done(View(Stmt.node), <<>>)))

slonik_repair_config ==
    /\ At("REPAIR_CONFIG", 0)
    /\ Command(Stmt.node, {"config"}, On(Stmt.node, Done(View(Stmt.node), <<>>)))

slonik_switch_log ==
    /\ At("SWITCH_LOG", 0)
    /\ Command(Stmt.node, BothLocks, On(Stmt.node, Done(View(Stmt.node), <<>>)))

slonik_sync ==
    /\ At("SYNC", 0)
    /\ submitEvent(Stmt.node, TRUE, {"event"},
                   On(Stmt.node, Done(View(Stmt.node), <<Ev("SYNC")>>)))

slonik_wait_event ==
    /\ At("WAIT_EVENT", 0)
    /\ LET impossible == \/ ~Installed(Stmt.on)
                         \/ Stmt.origin # 0 /\ last[Stmt.origin] < 0
       IN  IF ~impossible /\ AllConfirmed THEN Succeed ELSE Fail
    /\ UNCHANGED <<db, event, done, held, script, found, xact, last, lastNode, made>>

(* exit() ends the process and with it every connection. *)
Exit ==
    /\ At("EXIT", 0)
    /\ pc' = "ended"
    /\ xact' = [n \in Node |-> NoXact]
    /\ held' = [n \in Node |-> {}]
    /\ UNCHANGED <<db, event, done, script, frames, step, found, last, lastNode, made>>
-----------------------------------------------------------------------------
(* Blocks. *)

(* script_exec_stmts begins with the last event of every node. *)
EnterBlock(fs) ==
    /\ frames' = fs
    /\ last' = [n \in Node |-> LastOf(n, ConfigEvents(n))]
    /\ pc' = "next"
    /\ step' = 0

CheckScript ==
    /\ pc = "check"
    /\ IF script_check(script) THEN EnterBlock(<<Frame("block", script)>>)
       ELSE pc' = "rejected" /\ UNCHANGED <<frames, last, step>>
    /\ UNCHANGED <<db, event, done, held, script, found, xact, lastNode, made>>

EnterTry ==
    /\ At("TRY", 0)
    /\ LET try == [Frame("try", Stmt.block) EXCEPT !.onerror = Stmt.onerror,
                                                   !.onsuccess = Stmt.onsuccess]
       IN  EnterBlock(Append(Advance(frames), try))
    /\ UNCHANGED <<db, event, done, held, script, found, xact, lastNode, made>>

(* script_commit_all, one node after the other. *)
OpenXacts == {n \in Node : xact[n].open}

Commit ==
    /\ pc = "commit" /\ OpenXacts # {}
    /\ LET n == CHOOSE m \in OpenXacts : \A k \in OpenXacts : m <= k
       IN  /\ Committed(n)
           /\ xact' = [xact EXCEPT ![n] = NoXact]
           /\ held' = [held EXCEPT ![n] = {}]
    /\ UNCHANGED <<script, pc, frames, step, found, last, lastNode, made>>

EndCommit ==
    /\ pc = "commit" /\ OpenXacts = {}
    /\ IF Level = 1 /\ Top.onsuccess # <<>>
       THEN EnterBlock(Append(Pop(frames), Frame("block", Top.onsuccess)))
       ELSE /\ frames' = IF Level = 1 THEN Pop(frames) ELSE frames
            /\ pc' = "next"
            /\ UNCHANGED <<last, step>>
    /\ UNCHANGED <<db, event, done, held, script, found, xact, lastNode, made>>

EndBlock ==
    /\ pc = "next" /\ Top.rest = <<>>
    /\ pc' = IF Level = 1 THEN "commit" ELSE IF Len(frames) = 1 THEN "ended" ELSE "next"
    /\ frames' = IF Level = 0 /\ Len(frames) > 1 THEN Pop(frames) ELSE frames
    /\ UNCHANGED <<db, event, done, held, script, step, found, xact, last, lastNode, made>>

(* script_rollback_all.  The error block of a TRY makes up for its failure;
   any other failure ends the script. *)
Rollback ==
    /\ pc = "failed"
    /\ xact' = [n \in Node |-> NoXact]
    /\ held' = [n \in Node |-> {}]
    /\ made' = [n \in Node |-> IF xact[n].ev = <<>> THEN made[n] ELSE 0]
    /\ IF Level = 1 /\ Top.onerror # <<>>
       THEN EnterBlock(Append(Pop(frames), Frame("block", Top.onerror)))
       ELSE pc' = "error" /\ UNCHANGED <<frames, last, step>>
    /\ UNCHANGED <<db, event, done, script, found, lastNode>>
-----------------------------------------------------------------------------
Ended == pc \in {"ended", "error", "rejected"}

NodeStmt ==
    \/ slonik_init_cluster \/ slonik_store_node \/ slonik_drop_node \/ slonik_uninstall_node
    \/ slonik_clone_prepare \/ CopyDatabase \/ slonik_clone_finish
    \/ slonik_store_path \/ slonik_drop_path \/ slonik_store_listen \/ slonik_drop_listen

SetStmt ==
    \/ slonik_create_set \/ slonik_drop_set \/ slonik_merge_set
    \/ slonik_set_add \/ slonik_set_drop \/ slonik_set_move
    \/ slonik_lock_set \/ slonik_unlock_set \/ slonik_move_set
    \/ slonik_subscribe_set \/ slonik_unsubscribe_set \/ slonik_resubscribe_node

OtherStmt ==
    \/ slonik_ddl_script \/ slonik_restart_node \/ slonik_repair_config
    \/ slonik_switch_log \/ slonik_sync \/ slonik_wait_event \/ Exit

Slonik ==
    \/ CheckScript \/ EnterTry \/ Commit \/ EndCommit \/ EndBlock \/ Rollback
    \/ NodeStmt \/ SetStmt \/ OtherStmt

Worker(n) ==
    /\ \E o \in Node : ProcessEvent(n, o) \/ ProcessFailover(n, o)
    /\ UNCHANGED slonikVars

Stopped == Ended /\ UNCHANGED vars

Init ==
    /\ \E s \in Script : script = s.text /\ db = s.db /\ event = s.event /\ done = s.done
    /\ held = [n \in Node |-> {}]
    /\ pc = "check" /\ frames = <<>> /\ step = 0
    /\ found = [escaped |-> <<>>, origin |-> None, reshape |-> FALSE]
    /\ xact = [n \in Node |-> NoXact]
    /\ last = [n \in Node |-> 0]
    /\ lastNode = None
    /\ made = [n \in Node |-> 0]

Next == Slonik \/ (\E n \in Node : Worker(n)) \/ Stopped

Spec == Init /\ [][Next]_vars

(* slonik polls and gives up only where the statement says so; workers retry
   for ever. *)
CanStep == ~Ended /\ ~(pc = "next" /\ Top.rest # <<>> /\ Waiting)

LiveSpec ==
    /\ Spec
    /\ []<>~CanStep \/ []<><<Slonik>>_vars
    /\ \A n, o \in Node : \/ []<>~CanProcess(n, o)
                          \/ []<><<ProcessEvent(n, o)>>_vars
    /\ \A n, o \in Node : \/ []<>~CanFailOver(n, o)
                          \/ []<><<ProcessFailover(n, o)>>_vars
-----------------------------------------------------------------------------
(* Slonik keeps one transaction per node, its numbers are numbers of events,
   and locks are held by open transactions only. *)
TypeOK ==
    /\ pc \in {"check", "next", "commit", "failed", "ended", "error", "rejected"}
    /\ \A n \in Node : /\ last[n] \in -1 .. Len(event[n]) + Len(xact[n].ev) + 1
                       /\ made[n] \in 0 .. Len(event[n]) + Len(xact[n].ev)
                       /\ held[n] \subseteq BothLocks
                       /\ held[n] # {} \/ xact[n].ev # <<>> => xact[n].open

(* No two nodes take themselves for the origin of the same set, at any moment
   of CREATE SET, MOVE SET, DROP SET and MERGE SET: both would accept writes.
   The old origin gives the set up in the transaction that creates MOVE_SET,
   and the new one takes it when it processes that event (moveSet_int). *)
OneOrigin ==
    \A m, n \in Node : m # n /\ Installed(m) /\ Installed(n) /\ db[m].id # db[n].id =>
        \A x \in db[m].set : ~(OriginHere(db[m], x[1]) /\ OriginHere(db[n], x[1]))

(* What all nodes have to agree on, and for a subscriber or origin the content
   of the set. *)
Shared(c) == [c EXCEPT !.id = 0, !.locked = {}, !.obj = {}]
Content(c, s) == {x \in c.obj : x[3] = s}
Members == {n \in Node : Installed(n) /\ db[n].id = n /\ n \in db[n].active}

(* When slonik has ended, in success or failure, and every worker has done
   what it can, then nothing is left to do and all nodes have the same
   configuration, although each has met the events of different origins in an
   order of its own (slonik.c:5921, remote_worker.c:724). *)
Converged ==
    Ended /\ (\A n, o \in Node : ~CanProcess(n, o) /\ ~CanFailOver(n, o)) =>
        \A m, n \in Members :
            /\ m # n => ~Pending(n, m)
            /\ Shared(db[m]) = Shared(db[n])
            /\ \A x \in db[n].sub : x.active /\ x.receiver = n /\ OriginHere(db[m], x.set) =>
                   Content(db[n], x.set) = Content(db[m], x.set)

(* When slonik submits an event to another node than before, that node has
   processed the last configuration event that slonik submitted to the
   previous one, or is not active there (slonik_submitEvent; events.sgml:100). *)
PreviousConfirmed ==
    [][lastNode # None /\ lastNode' # lastNode /\ Installed(lastNode) =>
          \/ lastNode' \notin db[lastNode].active
          \/ done[lastNode'][lastNode] >= made[lastNode]]_vars

(* When WAIT FOR EVENT is over, the nodes waited for have processed the last
   configuration event that the script has created on the origins named
   (slonik_wait_event; slonik_ref.sgml:3027). *)
WaitForEventMeans ==
    [][At("WAIT_EVENT", 0) /\ pc' = "commit" =>
          \A o \in WaitedOrigins : \A r \in WaitedNodes(o) :
              r \in db[Stmt.on].active /\ r # o => done[r][o] >= made[o]]_vars

(* Every script comes to an end: slonik never waits for a confirmation that
   cannot come, for instance because it holds a lock that the worker needs. *)
ScriptEnds == <>Ended
=============================================================================
