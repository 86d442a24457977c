---------------------------- MODULE ClusterConfig ----------------------------
(***************************************************************************)
(* How a change of the configuration made on one node reaches the others:  *)
(* as an event that the remote worker of every other node applies to its   *)
(* own tables, in the order in which that origin created them.             *)
(***************************************************************************)
EXTENDS Configuration, SequencesExt

CONSTANT Node

VARIABLES
    db,      \* db[n]: the committed configuration of n, or NotInstalled
    event,   \* event[o]: the committed events of origin o, numbered from 1
    done,    \* done[n][o]: the last event of o that n has processed
    held     \* held[n]: lock tables that an administrative transaction holds

NotInstalled == [id |-> 0]
Installed(n) == db[n] # NotInstalled

(* Is event k of o in sl_event of node p? *)
Has(p, o, k) ==
    Installed(p) /\ k <= (IF p = o THEN Len(event[o]) ELSE done[p][o])

(* The remote listener of n can read event k of o at one of its providers. *)
Hears(n, o, k) ==
    \E e \in db[n].listen : /\ e[1] = o /\ e[3] = n
                            /\ <<e[2], n>> \in db[n].path \ db[n].pending
                            /\ Has(e[2], o, k)

(* The locks a worker takes before it applies an event: most take the
   configuration lock; branches that may create events also the event lock.
   ACCEPT_SET takes both only after it has slept, and then with the update. *)
LocksFor(e) ==
    CASE e.type \in {"SYNC", "SET_ADD", "ACCEPT_SET"} -> {}
      [] e.type \in {"MOVE_SET", "SUBSCRIBE_SET"} -> {"event", "config"}
      [] OTHER -> {"config"}

(* What a worker waits for: a subscriber for its data providers, with a SYNC
   and with the copy of a set, a bystander of a move for the MOVE_SET event
   itself. *)
Ready(n, e, o, k) ==
    /\ e.type = "SYNC" => \A x \in db[n].sub :
           x.receiver = n /\ x.active /\ SetKnown(db[n], x.set) /\ OriginOf(db[n], x.set) = o =>
               Has(x.provider, o, k) /\ <<x.provider, n>> \in db[n].path \ db[n].pending
    /\ e.type = "ENABLE_SUBSCRIPTION" /\ e.receiver = n => Has(e.provider, o, k)
    /\ e.type = "ACCEPT_SET" /\ n \notin {e.old, e.new} => done[n][e.old] >= e.wait
-----------------------------------------------------------------------------
(* The receiver copies the set: with the data come the provider's tables and
   sequences of the set. *)
CopySet(c, e) ==
    [c EXCEPT !.obj = @ \cup {x \in db[e.provider].obj : x[3] = e.set}]

(* The branch of remoteWorkerThread_main for the event, after the copy. *)
Processed(n, e, k) ==
    EventResult(IF e.type = "ENABLE_SUBSCRIPTION" /\ e.receiver = n
                THEN CopySet(db[n], e) ELSE db[n], e, k)
-----------------------------------------------------------------------------
Pending(n, o) == done[n][o] < Len(event[o])
NextEvent(n, o) == event[o][done[n][o] + 1]

(* The worker of n for origin o runs, has its next event, gets its locks, and
   the procedure does not fail.  One that fails is tried again. *)
CanProcess(n, o) ==
    /\ Installed(n) /\ n # o
    /\ db[n].id = n /\ n \in db[n].active /\ o \in db[n].active
    /\ Pending(n, o) /\ NextEvent(n, o).type # "FAILOVER_NODE"
    /\ LET k == done[n][o] + 1
           e == NextEvent(n, o)
       IN  /\ Hears(n, o, k) /\ Ready(n, e, o, k)
           /\ LocksFor(e) \cap held[n] = {}
           /\ Processed(n, e, k).ok

(* A node that processes its own DROP_NODE uninstalls itself. *)
ProcessEvent(n, o) ==
    /\ CanProcess(n, o)
    /\ LET k == done[n][o] + 1
           e == NextEvent(n, o)
           r == Processed(n, e, k)
       IN  IF e.type = "DROP_NODE" /\ n \in e.nodes
           THEN /\ db' = [db EXCEPT ![n] = NotInstalled]
                /\ UNCHANGED <<event, done>>
           ELSE /\ db' = [db EXCEPT ![n] = r.c]
                /\ event' = [event EXCEPT ![n] = @ \o r.ev]
                /\ done' = [done EXCEPT ![n][o] = k]
    /\ UNCHANGED held

(* FAILOVER_NODE is processed in two transactions.  The first turns the node
   away from the failed one; the second waits until the node has got, from
   others, what the new origin has. *)
FailoverEvent(n, o) ==
    LET e == NextEvent(n, o)
        first == failedNode(db[n], e.node, o, e.nodes)
    IN  IF first.ok /\ first.c = db[n]
        THEN failoverSet_int(db[n], e.node, o, e.seqno, done[n][e.node])
        ELSE first

(* A mutant: the second transaction does not wait. *)
CanFailOverAtOnce(n, o) ==
    /\ Installed(n) /\ n # o
    /\ {n, o} \subseteq db[n].active
    /\ Pending(n, o) /\ NextEvent(n, o).type = "FAILOVER_NODE"
    /\ Hears(n, o, done[n][o] + 1)
    /\ "config" \notin held[n]
    /\ FailoverEvent(n, o).ok

CanFailOver(n, o) ==
    /\ Installed(n) /\ n # o
    /\ {n, o} \subseteq db[n].active
    /\ Pending(n, o) /\ NextEvent(n, o).type = "FAILOVER_NODE"
    /\ Hears(n, o, done[n][o] + 1)
    /\ "config" \notin held[n]
    /\ LET e == NextEvent(n, o)
           first == failedNode(db[n], e.node, o, e.nodes)
       IN  /\ FailoverEvent(n, o).ok
           /\ first.c = db[n] => done[n][e.node] >= e.seqno

(* With the subscriptions of a node that is ahead go the events. *)
ProcessFailover(n, o) ==
    /\ CanFailOver(n, o)
    /\ LET e == NextEvent(n, o)
           first == failedNode(db[n], e.node, o, e.nodes)
           r == FailoverEvent(n, o)
       IN  /\ db' = [db EXCEPT ![n] = r.c]
           /\ event' = [event EXCEPT ![n] = @ \o r.ev]
           /\ done' = IF first.c # db[n] THEN done
                      ELSE [done EXCEPT ![n][o] = @ + 1,
                                        ![n][e.node] = IF @ > e.seqno THEN e.seqno ELSE @]
    /\ UNCHANGED held
=============================================================================
