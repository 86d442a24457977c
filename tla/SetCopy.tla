------------------------------- MODULE SetCopy -------------------------------
(***************************************************************************)
(* The initial copy of a subscription and the SYNCs that follow it.        *)
(*                                                                         *)
(* A subscriber copies the tables of a set in one transaction of the       *)
(* provider, whose snapshot lies somewhere between two SYNC events.        *)
(* copy_set() therefore stores in sl_setsync the last SYNC that snapshot   *)
(* sees, and the list of the log rows that are in the copied data and not  *)
(* in that SYNC; the first SYNC after the copy leaves them out.            *)
(*                                                                         *)
(* Transactions only insert: the row an action logs is named by its        *)
(* log_actionseq.  The database (transaction ids, snapshots) is modelled   *)
(* from the way this code uses it.                                         *)
(***************************************************************************)
EXTENDS Integers, Sequences, FiniteSets, FiniteSetsExt, Functions

Origin == 1     \* the node where the set originates

(***************************************************************************)
(* setup is the situation a behaviour is about and never changes:          *)
(*   provider  sl_subscribe, as it will be: the provider of each receiver  *)
(*   archives  the nodes whose slon has an archive_dir: {2} or none        *)
(*   command   has that slon a command_on_logarchive?                      *)
(* and these bounds: how many rows the application inserts, how many SYNCs *)
(* the origin creates, how many SYNCs node 3 creates for a set of its own  *)
(* (other), and how many faults happen.                                    *)
(***************************************************************************)
VARIABLES
    setup,
    xact,       \* "open" or "done" for every transaction id the origin used
    log,        \* log_txid of every log_actionseq at the origin
    event,      \* the events of the origin that are committed, in order
    making,     \* the event a transaction has created and not yet committed
    sub         \* the subscribers

copyVars == <<setup, xact, log, event, making, sub>>

Receiver == DOMAIN setup.provider
-----------------------------------------------------------------------------
(* Snapshots, as txid_current_snapshot() builds them.                      *)

Running == {x \in DOMAIN xact : xact[x] = "open"}

Snapshot ==
    LET xmax == Max({0} \cup (DOMAIN xact \ Running)) + 1
        xip  == {x \in Running : x < xmax}
    IN  [xmin |-> Min(xip \cup {xmax}), xmax |-> xmax, xip |-> xip]

(* txid_visible_in_snapshot() *)
Visible(x, s) == x < s.xmax /\ x \notin s.xip

RowsIn(s) == {a \in DOMAIN log : Visible(log[a], s)}
-----------------------------------------------------------------------------
(* compress_actionseq(): the list as ranges, of which the last is still
   growing.  A number next to the growing range extends it, one outside of it
   starts another. *)

Folded(r, a) ==
    LET min == IF r.min = -1 THEN a ELSE IF a = r.min - 1 THEN a ELSE r.min
        max == IF r.max = -1 THEN a ELSE IF a = r.max + 1 THEN a ELSE r.max
    IN  IF a < min - 1 \/ a > max + 1
        THEN [min |-> a, max |-> a, closed |-> r.closed \cup {<<min, max>>}]
        ELSE [min |-> min, max |-> max, closed |-> r.closed]

(* The ranges after each of the numbers. *)
Ranges(list) ==
    LET r[i \in 0 .. Len(list)] ==
            IF i = 0 THEN [min |-> -1, max |-> -1, closed |-> {}]
            ELSE Folded(r[i - 1], list[i])
    IN  r

compress_actionseq(list) ==
    LET r == Ranges(list)[Len(list)]
    IN  r.closed \cup {<<r.min, r.max>>}

(* Mutant of Excluded: only the last range makes it into the qualification. *)
LastRangeOnly(list, a) ==
    LET r == Ranges(list)[Len(list)]
    IN  r.min <= a /\ a <= r.max

(* "log_actionseq not between ... and ..." for every range.  An empty list
   gives no qualification. *)
Excluded(list, a) ==
    list # <<>> /\ \E r \in compress_actionseq(list) : r[1] <= a /\ a <= r[2]
-----------------------------------------------------------------------------
(* The origin.                                                             *)

(* A transaction inserts a row; commits. *)
Insert ==
    /\ Len(log) < setup.rows
    /\ xact' = Append(xact, "open")
    /\ log' = Append(log, Len(xact) + 1)
    /\ UNCHANGED <<setup, event, making, sub>>

CommitInsert ==
    \E a \in DOMAIN log :
        /\ xact[log[a]] = "open"
        /\ xact' = [xact EXCEPT ![log[a]] = "done"]
        /\ UNCHANGED <<setup, log, event, making, sub>>

NoEvent == [type |-> "none"]
EventsOf(type) == {i \in DOMAIN event : event[i].type = type}
EnabledFor(n) == \E i \in EventsOf("ENABLE_SUBSCRIPTION") : event[i].node = n

(* createEvent() in a transaction that holds sl_event_lock: the snapshot is
   that of the transaction, older than its own transaction id. *)
createEvent(type, node) ==
    /\ making = NoEvent
    /\ making' = [type |-> type, node |-> node, snap |-> Snapshot, xid |-> Len(xact) + 1]
    /\ xact' = Append(xact, "open")
    /\ UNCHANGED <<setup, log, event, sub>>

CreateSync ==
    /\ Cardinality(EventsOf("SYNC")) < setup.syncs
    /\ createEvent("SYNC", Origin)

(* subscribeSet() at the origin: the provider must be an active subscriber,
   and the origin enables subscriptions at once. *)
subscribeSet ==
    \E n \in Receiver :
        /\ ~EnabledFor(n)
        /\ setup.provider[n] = Origin \/ EnabledFor(setup.provider[n])
        /\ createEvent("ENABLE_SUBSCRIPTION", n)

CommitEvent ==
    /\ making # NoEvent
    /\ event' = Append(event, making)
    /\ xact' = [xact EXCEPT ![making.xid] = "done"]
    /\ making' = NoEvent
    /\ UNCHANGED <<setup, log, sub>>
-----------------------------------------------------------------------------
(* A subscriber: its tables, its log tables (what it forwards), sl_setsync,
   the last event it processed, and the events of another origin whose rows
   it has.  History: its copy overlapped a SYNC (early), or was made from a
   forwarder that had no SYNC yet or whose own copy was (blind). *)

ZeroSnapshot == [xmin |-> 1, xmax |-> 1, xip |-> {}]

NewSubscriber(k) ==
    [rows |-> {}, fwd |-> {}, active |-> FALSE, done |-> k, other |-> {},
     seqno |-> 0, snap |-> ZeroSnapshot, list |-> <<>>,
     early |-> FALSE, blind |-> FALSE]

(* What node p has in its log tables for its subscribers. *)
LogOf(p) == IF p = Origin THEN DOMAIN log ELSE sub[p].fwd

(* Has p processed, and so stored, event k? *)
Has(p, k) == IF p = Origin THEN TRUE ELSE sub[p].done >= k

(* The rows sync_event() fetches for SYNC k. *)
Selected(n, k) ==
    LET s == sub[n].snap
        e == event[k].snap
    IN  {a \in LogOf(setup.provider[n]) :
            /\ \/ log[a] >= s.xmax /\ log[a] < e.xmax /\ Visible(log[a], e)
               \/ log[a] \in s.xip \ e.xip
            /\ ~Excluded(sub[n].list, a)}

(* Only a set whose sl_setsync is older than the SYNC takes part in it. *)
Takes(n, k) == sub[n].active /\ sub[n].seqno < k

Fetched(n, k) == IF Takes(n, k) THEN Selected(n, k) ELSE {}

(* A SYNC cannot be applied while the provider has not got it; nor when one
   of its rows is there already, as its key then is a duplicate. *)
SyncPossible(n, k) ==
    /\ sub[n].active => Has(setup.provider[n], k)
    /\ Fetched(n, k) \cap sub[n].rows = {}

AfterSync(n, k) ==
    LET s == [sub[n] EXCEPT !.done = k]
    IN  IF Takes(n, k)
        THEN [s EXCEPT !.rows = @ \cup Selected(n, k), !.fwd = @ \cup Selected(n, k),
                       !.seqno = k, !.snap = event[k].snap, !.list = <<>>]
        ELSE s
-----------------------------------------------------------------------------
(* copy_set() for ENABLE_SUBSCRIPTION event k.                             *)

(* Transactions older than the event must have ended, if the provider is the
   origin. *)
OldXactsGone(n, k) == setup.provider[n] = Origin => Snapshot.xmin > event[k].snap.xmax

(* The tables and the SYNC events the provider's transaction sees. *)
RowsAt(p) == IF p = Origin THEN RowsIn(Snapshot) ELSE sub[p].rows
SyncsAt(p) == {i \in EventsOf("SYNC") : Has(p, i)}

SetsyncOf(p, k) ==
    IF SyncsAt(p) = {} THEN [seqno |-> k, snap |-> event[k].snap]
    ELSE LET i == Max(SyncsAt(p)) IN [seqno |-> i, snap |-> event[i].snap]

(* Every log row the transaction sees and that SYNC does not. *)
ActionList(p, k) ==
    {a \in LogOf(p) \cap RowsIn(Snapshot) :
        SyncsAt(p) = {} \/ ~Visible(log[a], SetsyncOf(p, k).snap)}

(* Is there a SYNC under way that does not see all of the rows R? *)
SyncMisses(R) ==
    making.type = "SYNC" /\ \E a \in R : ~Visible(log[a], making.snap)

(* The list comes in no particular order. *)
Orders(R) == UNION {Bijection(1 .. m, R) : m \in 0 .. Len(log)}

AfterCopy(n, k, list) ==
    LET p == setup.provider[n]
    IN  [sub[n] EXCEPT !.rows = RowsAt(p), !.active = TRUE, !.done = k,
             !.seqno = SetsyncOf(p, k).seqno, !.snap = SetsyncOf(p, k).snap,
             !.list = list,
             !.early = p = Origin /\ SyncMisses(RowsAt(p)),
             !.blind = p # Origin /\ (SyncsAt(p) = {} \/ sub[p].blind)]
=============================================================================
