--------------------------- MODULE LogShippingInv ---------------------------
(***************************************************************************)
(* The inductive invariants behind the copy of a set and behind the        *)
(* archives of log shipping, for every situation a cluster can be set up   *)
(* in: any receivers and providers, any number of rows, SYNCs and faults.  *)
(***************************************************************************)
EXTENDS LogShipping

(* The situations of SetCopy.  The Archiver is node 2, and so is the receiver
   of what node 3 replicates. *)
SetupOK ==
    /\ \A n \in Receiver :
           n \in Nat \ {Origin} /\ setup.provider[n] \in (Receiver \cup {Origin}) \ {n}
    /\ setup.archives \in {{}, {2}} /\ setup.command \in BOOLEAN
    /\ setup.rows \in Nat /\ setup.syncs \in Nat /\ setup.other \in Nat /\ setup.faults \in Nat
    /\ setup.archives # {} \/ setup.other # 0 => 2 \in Receiver

AnyInit == SetupOK /\ \E syncs \in Nat : InitWith(setup, syncs)

ShippingSpec == AnyInit /\ [][Next]_vars
-----------------------------------------------------------------------------
(* Types.                                                                  *)

Snap == [xmin : Nat, xmax : Nat, xip : SUBSET Nat]

Event == [type : {"SYNC", "ENABLE_SUBSCRIPTION"}, node : Nat, snap : Snap, xid : Nat]

Subscriber ==
    [rows : SUBSET Nat, fwd : SUBSET Nat, active : BOOLEAN, done : Nat, other : SUBSET Nat,
     seqno : Nat, snap : Snap, list : Seq(Nat), early : BOOLEAN, blind : BOOLEAN]

File == [kind : {"sync", "copy"}, rows : SUBSET Nat] \cup [kind : {"other"}, row : Nat]

WorkerState ==
    [pc : {"idle", "work", "worked", "closed"}, seq : Nat, n : Nat, counted : BOOLEAN,
     fp : BOOLEAN, res : Subscriber \cup {<<>>}, out : File \cup {NoFile}]

(* What worker w works on, and what it has to show for it. *)
WorkerStates(w) ==
    {v \in WorkerState :
        /\ v.pc # "idle" => v.seq > 0 /\ (w[2] = Origin => v.seq <= Len(event))
        /\ v.pc \in {"worked", "closed"} => v.res \in Subscriber /\ v.out \in File}

ShapeInv ==
    /\ SetupOK
    /\ xact \in Seq({"open", "done"})
    /\ log \in Seq(Nat) /\ \A a \in DOMAIN log : log[a] \in DOMAIN xact
    /\ event \in Seq(Event)
    /\ making \in Event \cup {NoEvent} /\ (making # NoEvent => making.xid \in DOMAIN xact)
    /\ sub \in [Receiver -> Subscriber]
    /\ work \in [Worker -> WorkerState] /\ \A w \in Worker : work[w] \in WorkerStates(w)
    /\ counter \in Nat
-----------------------------------------------------------------------------
(* The snapshots of the origin.                                            *)

(* A snapshot of the past: what it sees is committed. *)
SnapOK(s) ==
    /\ s.xmax \in 1 .. Len(xact) + 1 /\ s.xip \subseteq 1 .. s.xmax - 1
    /\ s.xmax > 1 => xact[s.xmax - 1] = "done"
    /\ \A x \in DOMAIN xact : Visible(x, s) => xact[x] = "done"

(* The later snapshot sees all that the earlier one sees. *)
Before(s, t) ==
    s.xmax <= t.xmax /\ \A x \in DOMAIN xact : Visible(x, s) => Visible(x, t)

(* Events are created one at a time, each with the snapshot of its moment. *)
SnapInv ==
    /\ \A i \in DOMAIN event : SnapOK(event[i].snap)
    /\ \A i, j \in DOMAIN event : i <= j => Before(event[i].snap, event[j].snap)
    /\ making # NoEvent =>
           SnapOK(making.snap) /\ \A i \in DOMAIN event : Before(event[i].snap, making.snap)

(* A node is enabled once, after its provider. *)
ProviderFirst(n, i) ==
    setup.provider[n] # Origin =>
        \E j \in EventsOf("ENABLE_SUBSCRIPTION") : j < i /\ event[j].node = setup.provider[n]

EnableInv ==
    /\ \A i, j \in EventsOf("ENABLE_SUBSCRIPTION") : event[i].node = event[j].node => i = j
    /\ \A i \in EventsOf("ENABLE_SUBSCRIPTION") :
           event[i].node \in Receiver /\ ProviderFirst(event[i].node, i)
    /\ making.type = "ENABLE_SUBSCRIPTION" =>
           /\ making.node \in Receiver /\ ~EnabledFor(making.node)
           /\ ProviderFirst(making.node, Len(event) + 1)
-----------------------------------------------------------------------------
(* A subscriber n in state s: the one it is in, or the one its worker is
   about to commit. *)

RowsDone == {a \in DOMAIN log : xact[log[a]] = "done"}

(* It has processed a prefix of the events, and is active from its own
   ENABLE_SUBSCRIPTION on. *)
PlaceOK(n, s) ==
    /\ s.done \in 0 .. Len(event) /\ s.seqno \in 0 .. Len(event)
    /\ s.active => EnabledFor(n) /\ s.seqno > 0 /\ s.snap = event[s.seqno].snap
    /\ \A i \in EventsOf("ENABLE_SUBSCRIPTION") : event[i].node = n => (s.active <=> i <= s.done)

(* It has rows only from its copy on; they are committed, and what it forwards
   came with a SYNC. *)
RowsOK(s) ==
    /\ s.active \/ s.rows = {}
    /\ s.rows \subseteq RowsDone /\ s.fwd \subseteq s.rows /\ Range(s.list) \subseteq s.rows
    /\ \A a \in s.fwd : \E j \in EventsOf("SYNC") : j <= s.done /\ a \in RowsIn(event[j].snap)

(* It lacks no row of the SYNCs it has processed. *)
HasAll(s) ==
    s.active /\ ~s.blind =>
        /\ RowsIn(s.snap) \subseteq s.rows
        /\ \A k \in EventsOf("SYNC") : k <= s.done => RowsIn(event[k].snap) \subseteq s.rows

(* A copy from the origin: what is not in its SYNC is in the list, and every
   later SYNC sees it. *)
DirectOK(s) ==
    /\ s.rows \subseteq RowsIn(s.snap) \cup Range(s.list)
    /\ \A k \in EventsOf("SYNC") : k > s.seqno => Range(s.list) \subseteq RowsIn(event[k].snap)
    /\ making.type = "SYNC" => Range(s.list) \subseteq RowsIn(making.snap)

(* A copy from a forwarder p: what p has and the subscriber has not is in p's
   log, and what is in p's log and the subscriber has is in its SYNC. *)
CascadeOK(s, p) ==
    /\ sub[p].active /\ (sub[p].blind => s.blind)
    /\ sub[p].rows \subseteq s.rows \cup sub[p].fwd
    /\ s.rows \subseteq sub[p].rows
    /\ sub[p].fwd \cap s.rows \subseteq RowsIn(s.snap)
    /\ s.list = <<>>

SubOK(n, s) ==
    /\ PlaceOK(n, s) /\ RowsOK(s) /\ HasAll(s)
    /\ s.active /\ setup.provider[n] = Origin /\ ~s.early => DirectOK(s)
    /\ s.active /\ setup.provider[n] # Origin => CascadeOK(s, setup.provider[n])

GoodStates(n) == {s \in Subscriber : SubOK(n, s)}

(* The events that node n may process next. *)
Upcoming(n) ==
    {k \in DOMAIN event :
        /\ k > sub[n].done
        /\ k > sub[n].done + 1 => \A i \in sub[n].done + 1 .. k : event[i].type = "SYNC"}

(* The result r of a worker of node n: an active subscriber only gets rows it
   has not got, and forwards all of them. *)
Follows(n, r) ==
    /\ r.done > sub[n].done
    /\ sub[n].active =>
           /\ r.active /\ r.blind = sub[n].blind
           /\ sub[n].rows \subseteq r.rows
           /\ r.fwd = sub[n].fwd \cup (r.rows \ sub[n].rows)

(* The worker of node n for the origin of the set. *)
CopierStates(n) ==
    {v \in WorkerState :
        /\ v.pc = "work" => v.seq \in Upcoming(n)
        /\ v.pc \in {"worked", "closed"} => v.res \in GoodStates(n) /\ Follows(n, v.res)}

CopyInv ==
    /\ SnapInv /\ EnableInv
    /\ \A n \in Receiver :
           sub[n] \in GoodStates(n) /\ work[<<n, Origin>>] \in CopierStates(n)
-----------------------------------------------------------------------------
(* The archives.                                                           *)

Active(w) == Archives(w) /\ work[w].pc # "idle"

(* The row lock on the counter; and what has its name by then. *)
NumberOK(w) ==
    /\ Active(w) => work[w].n \in 1 .. counter + 1
    /\ work[w].counted => Active(w) /\ work[w].n = counter + 1
    /\ work[w].pc = "closed" => Archives(w) /\ work[w].n \in Files
    /\ w \in tmp => Active(w) /\ work[w].pc # "closed"

NumberInv ==
    /\ tmp \subseteq Worker
    /\ \A w \in Worker : NumberOK(w)
    /\ \A v, w \in Worker : work[v].counted /\ work[w].counted => v = w
    /\ 1 .. counter \subseteq Files /\ Files \subseteq 1 .. counter + 1

ShipperInv ==
    /\ dir \in [Files -> File \cup {Garbled}]
    /\ ship \in [pc : {"none", "run", "resume", "dead"}, q : SUBSET Files]
    /\ offline \in [rows : SUBSET Nat, other : SUBSET Nat, at : 0 .. counter + 1]
    /\ bent \subseteq {"lost", "retried", "unheard"}

(* What archive f makes of the data d. *)
AppliedTo(d, f) ==
    CASE f.kind = "sync"  -> [d EXCEPT !.rows = @ \cup f.rows]
      [] f.kind = "copy"  -> [d EXCEPT !.rows = f.rows]
      [] f.kind = "other" -> [d EXCEPT !.other = @ \cup {f.row}]

(* While no archive number is used twice: each archive leads from what the
   Archiver had before to what it had with it; *)
HistoryOK ==
    /\ past \in Seq([rows : SUBSET Nat, other : SUBSET Nat]) /\ Len(past) = counter
    /\ setup.archives # {} => Data(sub[2]) = PastData(counter)
    /\ \A m \in 1 .. counter : dir[m] \in File /\ PastData(m) = AppliedTo(PastData(m - 1), dir[m])

(* a worker that archives holds the lock and its own file, which leads to what
   the Archiver is about to have; *)
WriterOK(w) ==
    /\ Active(w) => work[w].counted /\ (work[w].pc # "closed" => w \in tmp)
    /\ Active(w) /\ work[w].pc \in {"worked", "closed"} =>
           Data(Result(w)) = AppliedTo(PastData(counter), work[w].out)
    /\ work[w].pc = "closed" => dir[work[w].n] = work[w].out

(* and an archive beyond the counter belongs to a transaction under way. *)
ContentInv ==
    /\ HistoryOK
    /\ \A w \in Worker : WriterOK(w)
    /\ counter + 1 \in Files => \E w \in Worker : work[w].pc = "closed"

OfflineOK ==
    IF offline.at <= counter THEN Data(offline) = PastData(offline.at)
    ELSE \E w \in Worker :
             /\ work[w].pc = "closed" /\ work[w].n = offline.at
             /\ Data(offline) = Data(Result(w))

ArchiveInv ==
    /\ NumberInv /\ ShipperInv
    /\ bent \subseteq {"unheard"} => ContentInv /\ OfflineOK

(* Both at once: what the copies and the SYNCs of a subscriber rely on, and
   what the archives, their numbers and the offline database rely on. *)
ShippingInv == ShapeInv /\ CopyInv /\ ArchiveInv
=============================================================================
