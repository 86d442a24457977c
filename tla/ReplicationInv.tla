--------------------------- MODULE ReplicationInv ---------------------------
(***************************************************************************)
(* The inductive invariant of the data path under TimelySpec, from which   *)
(* the safety properties of module Replication follow.                     *)
(***************************************************************************)
EXTENDS Replication

(* All rows ever logged and not rolled back, truncated ones included. *)
AllRows == log[Origin][1] \cup log[Origin][2] \cup applied[Origin]

Syncs == 1 .. Len(snap)

(* v is what the actions of the rows R leave in table row k. *)
IsLast(v, R, k) ==
    \/ v = 0 /\ \A r \in R : r.key # k
    \/ \E r \in R : /\ r.key = k /\ r.seq = v
                    /\ \A s \in R : s.key = k => s.seq <= v

SeenAt(e) == {r \in applied[Origin] : Visible(r.xid, snap[e])}

(* A transaction in progress writes to a log that subscribers select from;
   what is in the logs is its work or committed. *)
XactInv ==
    /\ \A x \in running : x < nextXid
    /\ xmax <= nextXid
    /\ \A x \in Xid \ running : plan[x] = 0
    /\ \A x \in running : plan[x] \in LogsToQuery(logStatus[Origin])
    /\ \A i \in LogNo : \A r \in log[Origin][i] :
        /\ r.seq <= actSeq /\ r.xid < nextXid
        /\ r.xid \in running => i = plan[r.xid]
        /\ r.xid \notin running => r \in applied[Origin]
    /\ \A r \in applied[Origin] :
        r.seq <= actSeq /\ r.xid < xmax /\ r.xid \notin running

(* Snapshots only ever grow, and show completed transactions only. *)
SnapInv ==
    /\ \A e \in Syncs : /\ snap[e].xmax <= xmax
                        /\ \A x \in snap[e].xip : x < snap[e].xmax
    /\ \A e \in Syncs, x \in Xid : Visible(x, snap[e]) => x \notin running
    /\ \A e, f \in Syncs : e <= f =>
        /\ snap[e].xmax <= snap[f].xmax
        /\ \A x \in Xid : Visible(x, snap[e]) => Visible(x, snap[f])

(* Two transactions that change the same table row do so one after the other:
   the log_actionseq of the first is smaller, and no SYNC shows the second
   without the first. *)
ConflictInv ==
    \A r, s \in AllRows :
        /\ r.seq = s.seq => r = s
        /\ (r.key = s.key /\ r.xid # s.xid /\ r.seq < s.seq) =>
            /\ r \in applied[Origin]
            /\ \A e \in Syncs :
                Visible(s.xid, snap[e]) => Visible(r.xid, snap[e])

(* The origin's tables, now and at every SYNC, are the effect of the rows. *)
ImageInv ==
    \A k \in Key : /\ IsLast(tab[Origin][k], applied[Origin], k)
                   /\ \A e \in Syncs : IsLast(image[e][k], SeenAt(e), k)

(* Confirmations are true and never vanish altogether; every node keeps a
   SYNC that all of the confirmations it knows of cover. *)
ConfirmInv ==
    /\ ConfirmSound
    /\ \A n \in Node, r \in Receiver : con[n][r] # {}
    /\ \A n \in Receiver : setsync[n] \in con[n][n]
    /\ \A n \in Receiver : \A e \in event[n] : e <= setsync[n]
    /\ \A n \in Node : \E e \in event[n] : ConfirmedByAll(con[n], e)

(* A busy worker moves forward, not past its provider, and will store its
   rows in a log that its own subscribers select from. *)
WorkerInv ==
    /\ NeverAheadOfProvider
    /\ \A n \in Receiver : worker[n] # Idle =>
        LET w == worker[n]
        IN  /\ w.ev > setsync[n]
            /\ w.ev \in w.group
            /\ \A e \in w.group : setsync[n] < e /\ e <= w.ev
            /\ Provider[n] # Origin => w.ev <= setsync[Provider[n]]
            /\ w.into \in LogsToQuery(logStatus[n])

(* A subscriber logs what it has applied.  What a provider has and its
   subscriber has not is in the logs that the provider's status tells
   subscribers to select from. *)
LogInv ==
    /\ \A n \in Receiver, i \in LogNo : log[n][i] \subseteq applied[n]
    /\ \A n \in Receiver : \A r \in applied[Provider[n]] \ applied[n] :
        \E i \in LogsToQuery(logStatus[Provider[n]]) : r \in log[Provider[n]][i]

(* The conjunction is preserved by every step of TimelySpec. *)
IInv ==
    /\ TypeOK
    /\ XactInv
    /\ SnapInv
    /\ ConflictInv
    /\ ImageInv
    /\ ConfirmInv
    /\ WorkerInv
    /\ LogInv
    /\ AppliedExactly
    /\ ReplicaConsistent
    /\ QueriedLogsSuffice
=============================================================================
