------------------------------- MODULE Failover -------------------------------
(***************************************************************************)
(* slonik's FAILOVER.  Nodes have failed: slonik and new connections do    *)
(* not reach them, so their databases count as not installed; a slon that  *)
(* is connected to one may still get events from it.  slonik stops that    *)
(* first, on every node that is left, and waits until each slon has        *)
(* restarted.  Then it looks for the node that has got the most from the   *)
(* failed one and makes it the origin, and moves the sets on to the backup *)
(* node that the statement names.                                          *)
(***************************************************************************)
EXTENDS Slonik, TLC

VARIABLES
    connected,   \* <<n, f>>: the slon of n is connected to the failed node f
    told,        \* nodes that have been notified to restart their slon
    fo           \* what slonik_failed_node keeps while it runs

failoverVars == <<connected, told, fo>>
allVars == <<vars, failoverVars>>

NoFailover == [entry |-> 1, todo |-> {}, nodes |-> <<>>, pids |-> {}, seen |-> <<>>,
               moves |-> <<>>, bad |-> FALSE]

Entries == Stmt.nodes
FailedIds == {Entries[i].id : i \in 1 .. Len(Entries)}
Cur == Entries[fo.entry]          \* node_entry
CurNodes == fo.nodes[fo.entry]    \* nodeinfo
First(S) == CHOOSE n \in S : \A m \in S : n <= m

(* Slonik's own variables while FAILOVER goes on. *)
Continue(i) == step' = i /\ UNCHANGED <<script, pc, frames, found>>
SameCluster == UNCHANGED <<db, event, done, held, xact, last, lastNode, made, connected, told>>
-----------------------------------------------------------------------------
(* Subscribers of a failed node must be able to reach the backup node, which
   must be a forwarding subscriber of all its sets. *)
Orphans(c, e) ==
    {x.receiver : x \in {y \in c.sub : /\ y.provider = e.id /\ y.receiver # e.backup
                                       /\ y.receiver \notin FailedIds
                                       /\ <<e.backup, y.receiver>> \notin c.path}}

BackupForwards(c, e) ==
    \A x \in c.set : x[2] = e.id => \E y \in SubsOf(c, x[1], e.backup) : y.forward

FailoverCheck ==
    /\ At("FAILED_NODE", 0)
    /\ IF \A i \in 1 .. Len(Entries) :
              LET e == Entries[i]
              IN  /\ Installed(e.backup)
                  /\ Orphans(View(e.backup), e) = {} /\ BackupForwards(View(e.backup), e)
       THEN /\ Continue(1)
            /\ fo' = NoFailover
            /\ SameCluster
       ELSE Quit /\ UNCHANGED failoverVars

(* The nodes that are left, which of them are candidates, and the sets that
   somebody subscribes to, as the backup node knows them. *)
FailoverNodes ==
    /\ At("FAILED_NODE", 1)
    /\ LET c == View(Cur.backup)
           left == c.known \ FailedIds
           sets == {s \in {x.set : x \in {y \in c.sub : y.active}} : <<s, Cur.id>> \in c.set}
       IN  IF \A n \in left : Installed(n)
           THEN /\ fo' = [fo EXCEPT !.todo = left,
                                    !.nodes = Append(@, [id |-> Cur.id, left |-> left, sets |-> sets,
                                                  cand |-> left \cap failover_targets(c, Cur.id)])]
                /\ Continue(2)
                /\ SameCluster
           ELSE Quit /\ UNCHANGED failoverVars

(* On each of them in turn: take the configuration lock and read the process
   id of the slon. *)
FailoverPids ==
    /\ At("FAILED_NODE", 2)
    /\ LET n == First(fo.todo)
           rest == fo.todo \ {n}
       IN  /\ fo' = [fo EXCEPT !.todo = IF rest = {} THEN CurNodes.left ELSE rest,
                               !.pids = @ \cup {<<fo.entry, n>>}]
           /\ xact' = [xact EXCEPT ![n] = Execute(@, Done(View(n), <<>>))]
           /\ held' = [held EXCEPT ![n] = @ \cup {"config"}]
           /\ Continue(IF rest = {} THEN 3 ELSE 2)
    /\ UNCHANGED <<db, event, done, last, lastNode, made, connected, told>>

(* Then preFailover() on each, committed at once. *)
FailoverPrepare ==
    /\ At("FAILED_NODE", 3)
    /\ LET n == First(fo.todo)
           r == preFailover(View(n), Cur.id, n \in CurNodes.cand)
           rest == fo.todo \ {n}
           final == fo.entry = Len(Entries)
       IN  IF r.ok
           THEN /\ db' = [db EXCEPT ![n] = r.c]
                /\ held' = [held EXCEPT ![n] = {}]
                /\ xact' = [xact EXCEPT ![n] = NoXact]
                /\ told' = told \cup {n}
                /\ fo' = [fo EXCEPT !.todo = rest,
                                    !.entry = IF rest # {} THEN @ ELSE IF final THEN 1 ELSE @ + 1]
                /\ Continue(IF rest # {} THEN 3 ELSE IF final THEN 4 ELSE 1)
                /\ UNCHANGED <<event, done, last, lastNode, made, connected>>
           ELSE Quit /\ UNCHANGED failoverVars

(* fail_node_restart: every process id has changed. *)
FailoverRestarted ==
    /\ At("FAILED_NODE", 4)
    /\ fo.pids = {}
    /\ fo' = [fo EXCEPT !.todo = CurNodes.left]
    /\ Continue(5)
    /\ SameCluster

(* fail_node_promote: how far has each node got? *)
FailoverSeen ==
    /\ At("FAILED_NODE", 5)
    /\ LET n == First(fo.todo)
       IN  /\ fo' = [fo EXCEPT !.todo = @ \ {n}, !.seen = (n :> done[n][Cur.id]) @@ @]
           /\ Continue(IF fo.todo = {n} THEN 6 ELSE 5)
    /\ SameCluster

(* The candidate that is ahead of all, or the backup node if it is as far. *)
Ahead ==
    {n \in CurNodes.cand : fo.seen[n] > 0 /\ \A m \in CurNodes.cand : fo.seen[m] <= fo.seen[n]}

(* A mutant: the backup node, however far it is. *)
AlwaysBackup == Cur.backup

MostAhead ==
    IF Ahead = {} \/ fo.seen[First(Ahead)] = fo.seen[Cur.backup] THEN Cur.backup ELSE First(Ahead)

(* Without a candidate the code reads the array element before the first, and
   it depends on what is there whether it goes on with number 0. *)
Seqnos == {fo.seen[MostAhead]} \cup (IF Ahead = {} THEN {0} ELSE {})

FailoverPromote ==
    /\ At("FAILED_NODE", 6)
    /\ \E seqno \in Seqnos :
          LET n == MostAhead
              r == failedNode2(db[n], Cur.id, seqno, FailedIds, done[n][Cur.id])
          IN  IF r.ok
              THEN /\ db' = [db EXCEPT ![n] = r.c]
                   /\ event' = [event EXCEPT ![n] = @ \o r.ev]
                   /\ last' = [last EXCEPT ![n] = Len(event[n]) + 1]
                   /\ told' = told \cup {n}
                   /\ Continue(7)
                   /\ UNCHANGED <<done, held, xact, lastNode, made, connected, fo>>
              ELSE Quit /\ UNCHANGED failoverVars

(* When all others have confirmed, failedNode3() makes the node the origin.
   Its result, which is no event, becomes last_event. *)
AllFailedOver ==
    \A r \in Node \ FailedIds : Confirmed(MostAhead, MostAhead, r, last[MostAhead])

MoveOn(n) ==
    LET list == SetToSortSeq(CurNodes.sets, <)
    IN  IF n = Cur.backup THEN <<>>
        ELSE [j \in 1 .. Len(list) |-> [set |-> list[j], from |-> n, to |-> Cur.backup]]

FailoverOrigin ==
    /\ At("FAILED_NODE", 7)
    /\ AllFailedOver
    /\ LET n == MostAhead
           r == failoverSet_int(db[n], Cur.id, n, fo.seen[n], done[n][Cur.id])
           final == fo.entry = Len(Entries)
       IN  IF r.ok
           THEN /\ db' = [db EXCEPT ![n] = r.c]
                /\ event' = [event EXCEPT ![n] = @ \o r.ev]
                /\ done' = [done EXCEPT ![n][Cur.id] = fo.seen[n]]
                /\ last' = [last EXCEPT ![n] = 0]
                /\ told' = told \cup {n}
                /\ fo' = [fo EXCEPT !.moves = @ \o MoveOn(n), !.seen = <<>>,
                                    !.entry = IF final THEN @ ELSE @ + 1,
                                    !.todo = IF final THEN {} ELSE fo.nodes[fo.entry + 1].left]
                /\ Continue(IF final THEN 8 ELSE 5)
                /\ UNCHANGED <<held, xact, lastNode, made, connected>>
           ELSE Quit /\ UNCHANGED failoverVars
-----------------------------------------------------------------------------
(* MOVE SET for the sets that are not on their backup node.  One that fails
   fails the statement, after the others have been tried. *)
ThisMove == Head(fo.moves)
NextMove(bad) == fo' = [fo EXCEPT !.moves = Tail(@), !.bad = bad]

FailoverLock ==
    /\ At("FAILED_NODE", 8)
    /\ fo.moves # <<>>
    /\ LET r == lockSet(db[ThisMove.from], ThisMove.set)
       IN  IF r.ok THEN /\ db' = [db EXCEPT ![ThisMove.from] = r.c]
                        /\ Continue(9)
                        /\ UNCHANGED fo
                   ELSE NextMove(TRUE) /\ Continue(8) /\ UNCHANGED db
    /\ UNCHANGED <<event, done, held, xact, last, lastNode, made, connected, told>>

FailoverMove ==
    /\ At("FAILED_NODE", 9)
    /\ Refused(ThisMove.from, FALSE) \/ MayProceed(ThisMove.from, FALSE)
    /\ LET n == ThisMove.from
           r == moveSet(db[n], ThisMove.set, ThisMove.to)
       IN  IF r.ok /\ ~Refused(n, FALSE)
           THEN /\ db' = [db EXCEPT ![n] = r.c]
                /\ event' = [event EXCEPT ![n] = @ \o r.ev]
                /\ last' = [last EXCEPT ![n] = Len(event'[n])]
                /\ made' = [made EXCEPT ![n] = Len(event'[n])]
                /\ lastNode' = n
                /\ Continue(10)
                /\ UNCHANGED fo
           ELSE NextMove(TRUE) /\ Continue(8) /\ UNCHANGED <<db, event, last, made, lastNode>>
    /\ UNCHANGED <<done, held, xact, connected, told>>

FailoverMoved ==
    /\ At("FAILED_NODE", 10)
    /\ Confirmed(ThisMove.from, ThisMove.from, ThisMove.to, last[ThisMove.from])
    /\ NextMove(fo.bad)
    /\ Continue(8)
    /\ SameCluster

FailoverEnd ==
    /\ At("FAILED_NODE", 8)
    /\ fo.moves = <<>>
    /\ IF fo.bad THEN Fail ELSE Succeed
    /\ UNCHANGED <<db, event, done, held, script, found, xact, last, lastNode, made, failoverVars>>

slonik_failed_node ==
    \/ FailoverCheck \/ FailoverNodes \/ FailoverPids \/ FailoverPrepare \/ FailoverRestarted
    \/ FailoverSeen \/ FailoverPromote \/ FailoverOrigin
    \/ FailoverLock \/ FailoverMove \/ FailoverMoved \/ FailoverEnd
-----------------------------------------------------------------------------
(* The slon of n ends all its connections and starts anew with the paths that
   it finds. *)
RestartSlon(n) ==
    /\ n \in told
    /\ told' = told \ {n}
    /\ connected' = {x \in connected : x[1] = n => <<x[2], n>> \notin db[n].pending}
    /\ fo' = [fo EXCEPT !.pids = {x \in @ : x[2] # n}]
    /\ UNCHANGED vars

(* Over an old connection n gets the next event of the failed node f, and the
   data if it is a direct subscriber. *)
HearFailed(n, f) ==
    /\ <<n, f>> \in connected /\ Installed(n)
    /\ f \in db[n].active /\ Entry(f, f, n) \in db[n].listen
    /\ Pending(n, f)
    /\ \A x \in db[n].sub : x.receiver = n /\ x.active /\ <<x.set, f>> \in db[n].set =>
           x.provider = f \/ Has(x.provider, f, done[n][f] + 1)
    /\ done' = [done EXCEPT ![n][f] = @ + 1]
    /\ UNCHANGED <<db, event, held, slonikVars, failoverVars>>

FailoverInit ==
    /\ Init
    /\ connected = {x \in Node \X Node : /\ ~Installed(x[2]) /\ event[x[2]] # <<>>
                                         /\ Installed(x[1])}
    /\ told = {}
    /\ fo = NoFailover

FailoverNext ==
    \/ Next /\ UNCHANGED failoverVars
    \/ slonik_failed_node
    \/ \E n \in Node : RestartSlon(n) \/ \E f \in Node : HearFailed(n, f)

FailoverSpec == FailoverInit /\ [][FailoverNext]_allVars

(* As in LiveSpec; a slon that is told to restart does so. *)
FailoverWaits ==
    /\ pc = "next" /\ Top.rest # <<>> /\ Stmt.cmd = "FAILED_NODE"
    /\ \/ step = 4 /\ fo.pids # {}
       \/ step = 7 /\ ~AllFailedOver
       \/ step = 9 /\ ~Refused(ThisMove.from, FALSE) /\ ~MayProceed(ThisMove.from, FALSE)
       \/ step = 10 /\ ~Confirmed(ThisMove.from, ThisMove.from, ThisMove.to, last[ThisMove.from])

FailoverLive ==
    /\ FailoverSpec
    /\ []<>(~CanStep \/ FailoverWaits) \/ []<><<Slonik \/ slonik_failed_node>>_allVars
    /\ \A n, o \in Node : \/ []<>~CanProcess(n, o)
                          \/ []<><<ProcessEvent(n, o)>>_vars
    /\ \A n, o \in Node : \/ []<>~CanFailOver(n, o)
                          \/ []<><<ProcessFailover(n, o)>>_vars
    /\ \A n \in Node : []<>(n \notin told) \/ []<><<RestartSlon(n)>>_allVars
-----------------------------------------------------------------------------
(* n has the tables of set s, as its origin or through an active subscription. *)
Holds(n, s) ==
    /\ Installed(n) /\ Content(db[n], s) # {}
    /\ OriginHere(db[n], s) \/ \E x \in SubsOf(db[n], s, n) : x.active

(* After a failover all nodes that have the set s stopped at the same event of
   the failed origin, whatever each of them had got of it and from whom: none
   has changes that the new origin lacks (fail_node_promote, FAILOVER_NODE in
   remoteWorkerThread_main, failoverSet_int). *)
SameHistory ==
    \A i \in 1 .. Len(fo.nodes) : LET e == fo.nodes[i] IN
        \A s \in e.sets : \A m, n \in e.left :
            Holds(m, s) /\ Holds(n, s) /\ <<s, e.id>> \notin db[m].set \cup db[n].set =>
                done[m][e.id] = done[n][e.id]

(* No failover candidate loses its subscription in a failover: that happens to
   nodes that are ahead of the new origin, and the new origin is the candidate
   that is most ahead (slonik.c:3411, slony1_funcs.sql:1423). *)
CandidatesStay ==
    \A i \in 1 .. Len(fo.nodes) :
        \A n \in fo.nodes[i].cand : \A s \in fo.nodes[i].sets : Holds(n, s)
=============================================================================
