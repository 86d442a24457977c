---------------------------- MODULE EventQueueInv ----------------------------
(***************************************************************************)
(* The inductive invariant of the delivery of events: why the race of the  *)
(* listeners for last_event neither loses nor doubles an event.            *)
(***************************************************************************)
EXTENDS EventQueue

(* The event that a message or a selected row stands for. *)
EventOf(m) == [seq |-> m.seq, kind |-> m.kind]

(* Numbers of an origin are used once and in order; another node has only
   events that their origin has, and has confirmed them. *)
StoredInv ==
    /\ \A o \in Node : \A e \in event[o][o] : e.seq <= seq[o]
    /\ \A o \in Node : \A e, f \in event[o][o] : e.seq = f.seq => e = f
    /\ \A n, o \in Node : con[n][o][n] <= seq[o]
    /\ \A n, o \in Node : n # o =>
          \A e \in event[n][o] : e \in event[o][o] /\ e.seq <= con[n][o][n]

(* A queue is in order, behind what is confirmed, and ends with last_event. *)
InOrder(q, confirmed, final) ==
    /\ \A i, j \in 1 .. Len(q) : i < j => q[i].seq < q[j].seq
    /\ \A i \in 1 .. Len(q) : confirmed < q[i].seq
    /\ final = IF q = <<>> THEN confirmed ELSE q[Len(q)].seq

OrderInv == \A n, o \in Node : InOrder(Pipeline(n, o), con[n][o][n], last[n][o])

(* The worker mixes SYNCs with nothing else. *)
WellGrouped(w) ==
    /\ w.pc = "idle" <=> w.group = <<>>
    /\ w.pc = "group" => Len(w.group) = 1 /\ w.group[1].kind = "SYNC"
    /\ \A i, j \in 1 .. Len(w.group) :
           w.group[j].kind = "SYNC" => w.group[i].kind = "SYNC"

WorkerInv == \A n, o \in Node : WellGrouped(worker[n][o])

(* What is queued is an event that its origin and the node it was selected
   from have, and up to last_event nothing is missing in the queue. *)
Queued(q, e) == \E i \in 1 .. Len(q) : EventOf(q[i]) = e

Complete(q, confirmed, final, E) ==
    \A e \in E : confirmed < e.seq /\ e.seq <= final => Queued(q, e)

Genuine(m, o) == EventOf(m) \in event[o][o] /\ EventOf(m) \in event[m.from][o]

QueueInv ==
    /\ \A n, o \in Node : \A i \in 1 .. Len(Pipeline(n, o)) :
           n # o /\ Genuine(Pipeline(n, o)[i], o)
    /\ \A n, o \in Node : n # o =>
           Complete(Pipeline(n, o), con[n][o][n], last[n][o], event[o][o])

(* A listener's idea of last_event is old, not wrong; and whatever precedes a
   row it has selected is among its rows, or has been queued meanwhile. *)
Gapless(rows, o, final, E) ==
    \A r \in rows : \A e \in E :
        r.origin = o /\ e.seq < r.seq /\ final < e.seq =>
            [origin |-> o, seq |-> e.seq, kind |-> e.kind] \in rows

ListenerInv ==
    \A n, p \in Node :
        /\ \A o \in Node : listener[n][p].last[o] <= last[n][o]
        /\ \A r \in listener[n][p].rows :
              /\ r.origin # n
              /\ EventOf(r) \in event[r.origin][r.origin]
              /\ EventOf(r) \in event[p][r.origin]
        /\ \A o \in Node : Gapless(listener[n][p].rows, o, last[n][o], event[o][o])

(* A confirmation on its way, remembered or stored is one its receiver has
   made; only a node itself says what it has received. *)
MadeBy(c) == c.seq <= con[c.received][c.origin][c.received]

ConfirmInv ==
    /\ ConfirmsTrue
    /\ \A n, p \in Node : \A c \in confirms[n][p] \cup listener[n][p].cons :
           c.received # n /\ MadeBy(c)

(* The inductive invariant: with it, events are delivered once, in order and
   completely, whichever listeners race, whichever process restarts. *)
EventInv ==
    /\ TypeOK
    /\ StoredInv
    /\ OrderInv
    /\ WorkerInv
    /\ QueueInv
    /\ ListenerInv
    /\ ConfirmInv
    /\ NoEventSkipped
    /\ ProvidersFirst

-----------------------------------------------------------------------------
(* What is left of the cluster when listeners, queues and memory are taken
   away: sl_event and sl_confirm. *)
Delivered == INSTANCE Delivery WITH
    feeds <- [n \in Node |-> [o \in Node |-> DataProviders(sub, o, n) \ {o}]],
    made <- [o \in Node |-> event[o][o]],
    got <- [n \in Node |-> [o \in Node \ {n} |-> event[n][o]]],
    confirmed <- con

(* The threads of all slon processes, however they race, fail and restart,
   only ever process the next events, completely and after the data
   providers, and pass on true confirmations. *)
ImplementsDelivery == Delivered!Spec
=============================================================================
