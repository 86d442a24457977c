------------------------------ MODULE EventQueue ------------------------------
(***************************************************************************)
(* How events and confirmations travel between the nodes of a cluster:     *)
(* createEvent() on their origin, the remote listener threads that read    *)
(* sl_event and sl_confirm of other nodes, the message queue of every      *)
(* remote worker thread, and the worker threads that process the events    *)
(* and store them, and their confirmations, in the local database.         *)
(*                                                                         *)
(* What processing an event does to the data is the subject of module      *)
(* Replication; here an event is a number and whether it is a SYNC.        *)
(***************************************************************************)
EXTENDS ListenPaths, Sequences, Functions

CONSTANTS Node,      \* node ids, integers: the listeners' query sorts by them
          Path,      \* sl_path, <<server, client>>
          Subs,      \* the contents sl_subscribe may have
          Slon,      \* the nodes whose slon process is running
          Creator,   \* <<node, kind>>: events created under sl_event_lock
          MaxGroup,  \* sync_group_maxsize
          MaxSeqno,  \* bound: events per origin
          MaxFault,  \* bound: restarts, lost connections and failed queries
          Budget     \* bound: events of an origin and faults together

ASSUME NodeAssumption == Node \subseteq Nat
ASSUME PathAssumption == Path \subseteq {p \in Node \X Node : p[1] # p[2]}
ASSUME SubAssumption ==
    /\ \A S \in Subs : \A s \in S : /\ s.active
                                   /\ <<s.provider, s.receiver>> \in Path
                                   /\ s.origin \in Node \ {s.receiver}
    /\ Slon \subseteq Node
ASSUME BoundAssumption ==
    MaxGroup \in Nat \ {0} /\ MaxSeqno \in Nat /\ MaxFault \in Nat /\ Budget \in Nat

VARIABLES
    sub,       \* sl_subscribe, the same on all nodes
    listen,    \* sl_listen, the same on all nodes
    seq,       \* [Node -> Nat]: sl_event_seq of every origin
    event,     \* [Node -> [Node -> set of events]]: sl_event, per origin
    con,       \* [Node -> [Node -> [Node -> Nat]]]: highest con_seqno in
               \* sl_confirm, per origin and receiver; 0 for none
    last,      \* [Node -> [Node -> Nat]]: SlonNode.last_event, per origin
    queue,     \* [Node -> [Node -> Seq(message)]]: events in message_head...
    confirms,  \* [Node -> [Node -> set of confirms]]: the confirm messages
               \* in front of them
    known,     \* [Node -> [Node -> [Node -> Nat]]]: node_confirm_head
    listener,  \* [Node -> [Node -> state]]: remoteListenThread, per provider
    worker,    \* [Node -> [Node -> state]]: remoteWorkerThread, per origin
    grouped,   \* [Node -> [Node -> Nat]]: sg_last_grouping
    faults     \* crashes, lost connections and failed queries so far

config == <<sub, listen>>
dbVars == <<config, seq, event, con>>
memVars == <<last, queue, confirms, known, listener, worker, grouped>>
vars == <<sub, listen, seq, event, con, last, queue, confirms, known, listener,
          worker, grouped, faults>>

(* The origins whose events n selects from p. *)
ListenFor(n, p) == {e[1] : e \in {f \in listen : f[2] = p /\ f[3] = n}}

Seqno == 1 .. MaxSeqno
Kind == {"SYNC", "OTHER"}
Event == [seq : Seqno, kind : Kind]
Row == [origin : Node, seq : Seqno, kind : Kind]

(* An event message remembers the node it was selected from. *)
Message == [seq : Seqno, kind : Kind, from : Node]
Confirm == [origin : Node, received : Node, seq : Seqno]

Listening == [pc |-> "idle", last |-> [o \in Node |-> 0], rows |-> {}, cons |-> {}]
Waiting == [pc |-> "idle", group |-> <<>>]

None == [o \in Node |-> [r \in Node |-> 0]]

Larger(a, b) == IF a < b THEN b ELSE a
Smaller(a, b) == IF a < b THEN a ELSE b

(* What loading the configuration leaves in memory: last_event is the
   highest event that sl_confirm says was received here. *)
LoadedFromAnyone(c, n) ==
    [o \in Node |-> CHOOSE k \in {c[n][o][r] : r \in Node} :
                        \A r \in Node : c[n][o][r] <= k]

LoadedLast(c, n) == [o \in Node |-> c[n][o][n]]

Init ==
    /\ sub \in Subs
    /\ listen = RebuildListenEntries(Node, Path, {}, sub, Node, {})
    /\ seq = [o \in Node |-> 0]
    /\ event = [n \in Node |-> [o \in Node |-> {}]]
    /\ con = [n \in Node |-> None]
    /\ last = [n \in Node |-> [o \in Node |-> 0]]
    /\ queue = [n \in Node |-> [o \in Node |-> <<>>]]
    /\ confirms = [n \in Node |-> [o \in Node |-> {}]]
    /\ known = [n \in Node |-> None]
    /\ listener = [n \in Node |-> [p \in Node |-> Listening]]
    /\ worker = [n \in Node |-> [o \in Node |-> Waiting]]
    /\ grouped = [n \in Node |-> [o \in Node |-> 0]]
    /\ faults = 0

-----------------------------------------------------------------------------
WithinBudget(o) == seq[o] < MaxSeqno /\ seq[o] + faults < Budget

(* Something fails. *)
Fault ==
    /\ faults < MaxFault
    /\ \A o \in Node : seq[o] + faults < Budget
    /\ faults' = faults + 1

(* Creating events.  The sync thread, slonik and the stored procedures that
   the workers call take sl_event_lock before createEvent() and hold it until
   their transaction ends: among them it is one step. *)
CreateEvent(o, k) ==
    /\ <<o, k>> \in Creator
    /\ WithinBudget(o)
    /\ seq' = [seq EXCEPT ![o] = @ + 1]
    /\ event' = [event EXCEPT ![o][o] = @ \cup {[seq |-> seq[o] + 1, kind |-> k]}]
    /\ UNCHANGED <<config, con, memVars, faults>>

(* A transaction that rolls back has used up its number. *)
RollBackEvent(o) ==
    /\ \E k \in Kind : <<o, k>> \in Creator
    /\ WithinBudget(o)
    /\ seq' = [seq EXCEPT ![o] = @ + 1]
    /\ UNCHANGED <<config, event, con, memVars, faults>>

-----------------------------------------------------------------------------
(* The thread of node n that listens at p. *)

SetListener(n, p, state) == listener' = [listener EXCEPT ![n][p] = state]

(* remoteListen_receive_events builds its query from last_event. *)
BuildQuery(n, p) ==
    /\ listener[n][p].pc = "idle"
    /\ ListenFor(n, p) # {}
    /\ SetListener(n, p, [Listening EXCEPT !.pc = "query",
            !.last = last[n]])
    /\ UNCHANGED <<dbVars, last, queue, confirms, known, worker, grouped, faults>>

(* "order by e.ev_origin, e.ev_seqno limit sync_group_maxsize * 2": the rows
   of the result, which is read in this order. *)
LaterBefore(q, r) == q.origin < r.origin \/ (q.origin = r.origin /\ q.seq > r.seq)

Before(q, r) == q.origin < r.origin \/ (q.origin = r.origin /\ q.seq < r.seq)

AreFirst(rows, all) ==
    /\ \A r \in rows : \A q \in all : Before(q, r) => q \in rows
    /\ Cardinality(rows) = Smaller(Cardinality(all), 2 * MaxGroup)

NewEvents(n, p, since) ==
    UNION {{[origin |-> o, seq |-> e.seq, kind |-> e.kind] :
               e \in {f \in event[p][o] : f.seq > since[o]}} : o \in ListenFor(n, p)}

SelectEvents(n, p) ==
    /\ listener[n][p].pc = "query"
    /\ \E rows \in SUBSET NewEvents(n, p, listener[n][p].last) :
          /\ AreFirst(rows, NewEvents(n, p, listener[n][p].last))
          /\ SetListener(n, p, [Listening EXCEPT !.pc = "events", !.rows = rows])
    /\ UNCHANGED <<dbVars, last, queue, confirms, known, worker, grouped, faults>>

(* One row: appended to the queue of the origin's worker unless it is already
   queued or processed. *)
IsNotProcessed(n, r) == con[n][r.origin][n] < r.seq

IsNewEvent(n, r) == last[n][r.origin] < r.seq

remoteWorker_event(n, p) ==
    /\ listener[n][p].pc = "events"
    /\ \E r \in listener[n][p].rows :
          /\ \A q \in listener[n][p].rows : ~ Before(q, r)
          /\ IF IsNewEvent(n, r)
             THEN /\ last' = [last EXCEPT ![n][r.origin] = r.seq]
                  /\ queue' = [queue EXCEPT ![n][r.origin] =
                          Append(@, [seq |-> r.seq, kind |-> r.kind, from |-> p])]
             ELSE UNCHANGED <<last, queue>>
          /\ SetListener(n, p, [listener[n][p] EXCEPT !.rows = @ \ {r}])
    /\ UNCHANGED <<dbVars, confirms, known, worker, grouped, faults>>

(* remoteListen_forward_confirm reads the confirmations p has of other nodes *)
ForwardedOrNone(n, p) ==
    {[origin |-> x[1], received |-> x[2], seq |-> con[p][x[1]][x[2]]] :
        x \in Node \X (Node \ {n})}

ForwardedBy(n, p) ==
    {[origin |-> x[1], received |-> x[2], seq |-> con[p][x[1]][x[2]]] :
        x \in {y \in Node \X (Node \ {n}) : con[p][y[1]][y[2]] > 0}}

SelectConfirms(n, p) ==
    /\ listener[n][p].pc = "events"
    /\ listener[n][p].rows = {}
    /\ LET cons == ForwardedBy(n, p)
       IN  SetListener(n, p,
               IF cons = {} THEN Listening
               ELSE [Listening EXCEPT !.pc = "confirms", !.cons = cons])
    /\ UNCHANGED <<dbVars, last, queue, confirms, known, worker, grouped, faults>>

(* and adds them to the queue of the worker for p, in front of the events; a
   message for the same origin and receiver is raised instead. *)
SamePair(c, d) == c.origin = d.origin /\ c.received = d.received

Raised(old, new) ==
    {c \in old : ~ \E d \in new : SamePair(c, d) /\ c.seq < d.seq}
        \cup {d \in new : ~ \E c \in old : SamePair(c, d) /\ c.seq >= d.seq}

remoteWorker_confirm(n, p) ==
    /\ listener[n][p].pc = "confirms"
    /\ confirms' = [confirms EXCEPT ![n][p] = Raised(@, listener[n][p].cons)]
    /\ SetListener(n, p, Listening)
    /\ UNCHANGED <<dbVars, last, queue, known, worker, grouped, faults>>

(* A timeout or an error: disconnect, and start over. *)
Disconnect(n, p) ==
    /\ listener[n][p].pc # "idle"
    /\ Fault
    /\ SetListener(n, p, Listening)
    /\ UNCHANGED <<dbVars, last, queue, confirms, known, worker, grouped>>

-----------------------------------------------------------------------------
(* The worker thread of node n for origin o. *)

(* A confirm message: nothing to do if the confirmation is known; else it is
   remembered, and stored with forwardConfirm(). *)
RememberNothing(n, c) == UNCHANGED known

Remember(n, c) == known' = [known EXCEPT ![n][c.origin][c.received] = c.seq]

forwardConfirmSwapped(n, c) ==
    con' = [con EXCEPT ![n][c.received][c.origin] = Larger(@, c.seq)]

forwardConfirm(n, c) ==
    con' = [con EXCEPT ![n][c.origin][c.received] = Larger(@, c.seq)]

TakeConfirm(n, o, c) ==
    /\ worker[n][o].pc = "idle"
    /\ confirms' = [confirms EXCEPT ![n][o] = @ \ {c}]
    /\ UNCHANGED <<config, seq, event, last, queue, listener, worker, grouped>>

store_confirm_forward(n, o) ==
    \E c \in confirms[n][o] :
        /\ TakeConfirm(n, o, c)
        /\ IF known[n][c.origin][c.received] >= c.seq
           THEN UNCHANGED <<known, con>>
           ELSE Remember(n, c) /\ forwardConfirm(n, c)
        /\ UNCHANGED faults

(* The query fails: the error is logged, the confirmation stays remembered. *)
StoreConfirmFails(n, o) ==
    \E c \in confirms[n][o] :
        /\ Fault
        /\ known[n][c.origin][c.received] < c.seq
        /\ TakeConfirm(n, o, c)
        /\ Remember(n, c)
        /\ UNCHANGED con

(* An event message, when no other message is in front of it. *)
TakeEvent(n, o) ==
    /\ worker[n][o].pc = "idle"
    /\ confirms[n][o] = {}
    /\ queue[n][o] # <<>>
    /\ LET e == Head(queue[n][o])
       IN  worker' = [worker EXCEPT ![n][o] =
               [pc |-> IF e.kind = "SYNC" THEN "group" ELSE "apply",
                group |-> <<e>>]]
    /\ queue' = [queue EXCEPT ![n][o] = Tail(@)]
    /\ UNCHANGED <<dbVars, last, confirms, known, listener, grouped, faults>>

(* The SYNCs that follow are taken in the same group: at most twice as many
   as the last time. *)
Proposed(n, o) == Larger(1, Smaller(2 * grouped[n][o], MaxGroup))

GroupEndsAt(n, o, k) ==
    /\ \A i \in 1 .. k : queue[n][o][i].kind = "SYNC"
    /\ k < Proposed(n, o)
    /\ k + 1 < Proposed(n, o) =>
          ~ \E i \in 1 .. Len(queue[n][o]) : i = k + 1 /\ queue[n][o][i].kind = "SYNC"

GroupSyncs(n, o) ==
    /\ worker[n][o].pc = "group"
    /\ \E k \in 0 .. Len(queue[n][o]) :
          /\ IF confirms[n][o] # {} THEN k = 0 ELSE GroupEndsAt(n, o, k)
          /\ worker' = [worker EXCEPT ![n][o] =
                 [pc |-> "apply",
                  group |-> @.group \o SubSeq(queue[n][o], 1, k)]]
          /\ queue' = [queue EXCEPT ![n][o] = SubSeq(@, k + 1, Len(@))]
          /\ grouped' = [grouped EXCEPT ![n][o] = k + 1]
    /\ UNCHANGED <<dbVars, last, confirms, known, listener, faults>>

(* sync_event() asks for a retry until the data providers, other than the
   origin and the node the event came from, have confirmed the event. *)
ProvidersOneBehind(n, o, e) ==
    \A p \in DataProviders(sub, o, n) \ {o, e.from} : known[n][o][p] + 1 >= e.seq

ProvidersReady(n, o, e) ==
    \A p \in DataProviders(sub, o, n) \ {o, e.from} : known[n][o][p] >= e.seq

(* Processing the group and storing its events and confirmations is one
   transaction. *)
ProcessEvents(n, o) ==
    /\ worker[n][o].pc = "apply"
    /\ LET group == worker[n][o].group
           e == group[Len(group)]
       IN  /\ e.kind = "SYNC" => ProvidersReady(n, o, e)
           /\ event' = [event EXCEPT ![n][o] = @ \cup
                  {[seq |-> m.seq, kind |-> m.kind] : m \in Range(group)}]
           /\ con' = [con EXCEPT ![n][o][n] = Larger(@, e.seq)]
    /\ worker' = [worker EXCEPT ![n][o] = Waiting]
    /\ UNCHANGED <<config, seq, last, queue, confirms, known, listener, grouped, faults>>

-----------------------------------------------------------------------------
(* The slon process of n dies and is started again. *)
Restart(n) ==
    /\ Fault
    /\ last' = [last EXCEPT ![n] = LoadedLast(con, n)]
    /\ queue' = [queue EXCEPT ![n] = [o \in Node |-> <<>>]]
    /\ confirms' = [confirms EXCEPT ![n] = [o \in Node |-> {}]]
    /\ known' = [known EXCEPT ![n] = None]
    /\ listener' = [listener EXCEPT ![n] = [p \in Node |-> Listening]]
    /\ worker' = [worker EXCEPT ![n] = [o \in Node |-> Waiting]]
    /\ grouped' = [grouped EXCEPT ![n] = [o \in Node |-> 0]]
    /\ UNCHANGED dbVars

ListenerNext(n, p) ==
    \/ BuildQuery(n, p)
    \/ SelectEvents(n, p)
    \/ remoteWorker_event(n, p)
    \/ SelectConfirms(n, p)
    \/ remoteWorker_confirm(n, p)

WorkerNext(n, o) ==
    \/ store_confirm_forward(n, o)
    \/ TakeEvent(n, o)
    \/ GroupSyncs(n, o)
    \/ ProcessEvents(n, o)

Next ==
    \/ \E o \in Node : \/ \E k \in Kind : CreateEvent(o, k)
                       \/ RollBackEvent(o)
    \/ \E n \in Slon : \/ \E p \in Node \ {n} : \/ ListenerNext(n, p)
                                            \/ Disconnect(n, p)
                                            \/ WorkerNext(n, p)
                                            \/ StoreConfirmFails(n, p)
                     \/ Restart(n)

Spec == Init /\ [][Next]_vars

(* Every thread of a running process is scheduled. *)
Fairness ==
    \A n \in Slon : \A p \in Node \ {n} :
        WF_vars(ListenerNext(n, p)) /\ WF_vars(WorkerNext(n, p))

FairSpec == Spec /\ Fairness
-----------------------------------------------------------------------------
Listener == [pc : {"idle", "query", "events", "confirms"},
             last : [Node -> 0 .. MaxSeqno],
             rows : SUBSET Row,
             cons : SUBSET Confirm]

(* The values of the databases and of the memory of the processes. *)
TypeOK ==
    /\ sub \in Subs
    /\ \A n, p \in Node : ListenFor(n, p) \subseteq Node \ {n}
    /\ seq \in [Node -> 0 .. MaxSeqno]
    /\ event \in [Node -> [Node -> SUBSET Event]]
    /\ con \in [Node -> [Node -> [Node -> 0 .. MaxSeqno]]]
    /\ last \in [Node -> [Node -> 0 .. MaxSeqno]]
    /\ queue \in [Node -> [Node -> Seq(Message)]]
    /\ confirms \in [Node -> [Node -> SUBSET Confirm]]
    /\ known \in [Node -> [Node -> [Node -> 0 .. MaxSeqno]]]
    /\ listener \in [Node -> [Node -> Listener]]
    /\ worker \in [Node -> [Node -> [pc : {"idle", "group", "apply"},
                                     group : Seq(Message)]]]
    /\ grouped \in [Node -> [Node -> 0 .. MaxGroup]]
    /\ faults \in 0 .. MaxFault

(* No event is lost on the way: an event that has been committed on its
   origin, and is not newer than the last one a node has confirmed, has been
   processed there, whichever nodes it was selected from. *)
NoEventSkipped ==
    \A n, o \in Node : n # o =>
        \A e \in event[o][o] : e.seq <= con[n][o][n] => e \in event[n][o]

(* What worker o of n has in hand and in its queue. *)
Pipeline(n, o) == worker[n][o].group \o queue[n][o]

(* Listeners that race each other never queue an event twice or behind a
   later one, and never one that has been processed. *)
QueuedOnceInOrder ==
    \A n, o \in Node :
        LET q == Pipeline(n, o)
        IN  /\ \A i \in 1 .. Len(q) - 1 : q[i].seq < q[i + 1].seq
            /\ q # <<>> => con[n][o][n] < q[1].seq
            /\ last[n][o] = IF q = <<>> THEN con[n][o][n] ELSE q[Len(q)].seq

(* Nobody is told of a confirmation before it is committed. *)
ConfirmsTrue ==
    \A n, o, r \in Node : /\ con[n][o][r] <= con[r][o][r]
                          /\ known[n][o][r] <= con[r][o][r]

(* A SYNC is processed only after all data providers have processed it. *)
ProvidersFirst ==
    \A n, o \in Node : \A p \in DataProviders(sub, o, n) \ {o} :
        \A e \in event[n][o] : e.kind = "SYNC" => e \in event[p][o]

Created(o, i) == \E e \in event[o][o] : e.seq = i

Processed(n, o, i) == \E e \in event[n][o] : e.seq = i

(* Every event reaches every running node. *)
EventsArrive ==
    \A n \in Slon : \A o \in {c[1] : c \in Creator} \ {n} : \A i \in Seqno :
        Created(o, i) ~> Processed(n, o, i)

(* The worker waits for data provider p, which has the event by now. *)
WaitsFor(n, o, p) ==
    /\ worker[n][o].pc = "apply"
    /\ LET e == worker[n][o].group[Len(worker[n][o].group)]
       IN  /\ e.kind = "SYNC"
           /\ p \in DataProviders(sub, o, n) \ {o, e.from}
           /\ con[p][o][p] >= e.seq

(* Waiting for a data provider ends once the provider has caught up. *)
WaitEnds ==
    \A s \in {t \in UNION Subs : t.provider # t.origin} :
        WaitsFor(s.receiver, s.origin, s.provider)
            ~> ~ WaitsFor(s.receiver, s.origin, s.provider)
=============================================================================
