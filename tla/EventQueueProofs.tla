--------------------------- MODULE EventQueueProofs ---------------------------
(***************************************************************************)
(* The delivery of events keeps its invariant: creating events, listeners  *)
(* that select them, handing events and confirmations to the workers, what *)
(* the workers do, and restarts of slon, for every cluster, listen network,*)
(* number of events and of faults.  Hence events are processed once, in    *)
(* order and completely, confirmations are true, and SYNCs wait for the    *)
(* data providers; and the whole implements the abstract module Delivery.  *)
(***************************************************************************)
EXTENDS EventQueueInv, SequenceTheorems, TLAPS

-----------------------------------------------------------------------------
(* Facts about the operators. *)

(* What a worker has is a sequence of messages. *)
LEMMA PipelineType ==
    ASSUME TypeOK, NEW n \in Node, NEW o \in Node
    PROVE  /\ worker[n][o].group \in Seq(Message)
           /\ queue[n][o] \in Seq(Message)
           /\ Pipeline(n, o) \in Seq(Message)
           /\ Len(Pipeline(n, o)) \in Nat
           /\ \A i \in 1 .. Len(Pipeline(n, o)) : Pipeline(n, o)[i] \in Message
<1>1. worker[n][o].group \in Seq(Message) /\ queue[n][o] \in Seq(Message)
  BY DEF TypeOK
<1>2. Pipeline(n, o) \in Seq(Message)
  BY <1>1, ConcatProperties, Zenon DEF Pipeline
<1> QED
  BY <1>1, <1>2, LenProperties, ElementOfSeq, Zenon

(* Events, messages and rows have numbers. *)
LEMMA Numbers ==
    /\ MaxSeqno \in Nat
    /\ Seqno \subseteq Nat
    /\ \A e \in Event : e.seq \in Nat
    /\ \A m \in Message : m.seq \in Nat /\ m.from \in Node /\ EventOf(m) \in Event
    /\ \A r \in Row : r.seq \in Nat /\ r.origin \in Node /\ EventOf(r) \in Event
    /\ \A c \in Confirm : c.seq \in Nat /\ c.origin \in Node /\ c.received \in Node
BY BoundAssumption DEF Seqno, Event, Message, Row, Confirm, EventOf

(* The order of the numbers. *)
LEMMA Leq == \A a, b, c \in Nat : a <= b /\ b <= c => a <= c
OBVIOUS

LEMMA LeqLess == \A a, b, c \in Nat : a <= b /\ b < c => a < c /\ a <= c
OBVIOUS

LEMMA Less == \A a, b, c \in Nat : a < b /\ b < c => a < c
OBVIOUS

LEMMA NotLeq == \A a, b \in Nat : ~ (a <= b) <=> b < a
OBVIOUS

LEMMA LessIsLeq == \A a, b \in Nat : a < b => a <= b
OBVIOUS

LEMMA GeqIsLeq == \A a, b \in Nat : a >= b <=> b <= a
OBVIOUS

(* Each part of the state has its type. *)
LEMMA Types ==
    ASSUME TypeOK
    PROVE  /\ \A o \in Node : seq[o] \in Nat
           /\ \A n, o \in Node : event[n][o] \subseteq Event
           /\ \A n, o, r \in Node : con[n][o][r] \in Nat
           /\ \A n, o, r \in Node : known[n][o][r] \in Nat
           /\ \A n, o \in Node : last[n][o] \in Nat
           /\ \A n, p \in Node : confirms[n][p] \subseteq Confirm
           /\ \A n, p \in Node : listener[n][p] \in Listener
           /\ \A n, p \in Node : listener[n][p].rows \subseteq Row
           /\ \A n, p \in Node : listener[n][p].cons \subseteq Confirm
           /\ \A n, p, o \in Node : listener[n][p].last[o] \in Nat
<1>1. /\ \A o \in Node : seq[o] \in Nat
      /\ \A n, o, r \in Node : con[n][o][r] \in Nat
      /\ \A n, o, r \in Node : known[n][o][r] \in Nat
      /\ \A n, o \in Node : last[n][o] \in Nat
  BY BoundAssumption DEF TypeOK
<1>2. /\ \A n, o \in Node : event[n][o] \subseteq Event
      /\ \A n, p \in Node : confirms[n][p] \subseteq Confirm
      /\ \A n, p \in Node : listener[n][p] \in Listener
  BY DEF TypeOK
<1>3. ASSUME NEW n \in Node, NEW p \in Node
      PROVE  /\ listener[n][p].rows \subseteq Row
             /\ listener[n][p].cons \subseteq Confirm
             /\ \A o \in Node : listener[n][p].last[o] \in Nat
  BY <1>2, BoundAssumption DEF Listener
<1> QED
  BY <1>1, <1>2, <1>3, Zenon

(* A node listens for the events of others. *)
LEMMA ListenForType ==
    ASSUME TypeOK, UNCHANGED listen
    PROVE  \A n, p \in Node : ListenFor(n, p)' \subseteq Node \ {n}
BY ZenonT(60) DEF TypeOK, ListenFor

(* A data provider is a node. *)
LEMMA ProvidersAreNodes ==
    ASSUME TypeOK, NEW n \in Node, NEW o \in Node
    PROVE  DataProviders(sub, o, n) \subseteq Node
<1> SUFFICES ASSUME NEW s \in sub PROVE s.provider \in Node
  BY Zenon DEF DataProviders
<1>1. <<s.provider, s.receiver>> \in Path
  BY SubAssumption, Zenon DEF TypeOK
<1>2. <<s.provider, s.receiver>> \in Node \X Node
  BY <1>1, PathAssumption, Zenon
<1> QED
  BY <1>2, Zenon

(* The elements of an ordered queue are not newer than last_event, *)
LEMMA InOrderBounds ==
    ASSUME NEW q \in Seq(Message), NEW c \in Nat, NEW l \in Nat, InOrder(q, c, l),
           NEW i \in 1 .. Len(q)
    PROVE  c < q[i].seq /\ q[i].seq <= l /\ q[i].seq \in Nat
<1>1. q[i].seq \in Nat /\ q # <<>> /\ Len(q) \in 1 .. Len(q)
  BY ElementOfSeq, LenProperties, EmptySeq, Numbers
<1>2. c < q[i].seq
  BY Zenon DEF InOrder
<1>3. l = q[Len(q)].seq
  BY <1>1, Zenon DEF InOrder
<1>4. i < Len(q) => q[i].seq < q[Len(q)].seq
  BY <1>1, Zenon DEF InOrder
<1> QED
  BY <1>1, <1>2, <1>3, <1>4

(* and what is newer can be appended. *)
LEMMA AppendInOrder ==
    ASSUME NEW q \in Seq(Message), NEW c \in Nat, NEW l \in Nat, InOrder(q, c, l),
           NEW m \in Message, l < m.seq, c <= l
    PROVE  InOrder(Append(q, m), c, m.seq)
<1> DEFINE a == Append(q, m)
<1>1. /\ a \in Seq(Message) /\ a # <<>> /\ Len(a) = Len(q) + 1 /\ Len(q) \in Nat
      /\ \A i \in 1 .. Len(q) : a[i] = q[i]
      /\ a[Len(q) + 1] = m
  BY AppendProperties, LenProperties
<1>2. m.seq \in Nat
  BY Numbers, Zenon
<1>3. \A i \in 1 .. Len(q) : c < a[i].seq /\ a[i].seq < m.seq
  BY <1>1, <1>2, InOrderBounds
<1>4. \A i, j \in 1 .. Len(q) : i < j => a[i].seq < a[j].seq
  BY <1>1, Zenon DEF InOrder
<1> HIDE DEF a
<1> QED
  BY <1>1, <1>2, <1>3, <1>4, SMTT(60) DEF InOrder, a

(* Appending to the queue appends to what the worker has. *)
LEMMA AppendToTail ==
    ASSUME NEW s \in Seq(Message), NEW t \in Seq(Message), NEW m \in Message
    PROVE  s \o Append(t, m) = Append(s \o t, m)
<1>1. s \o t \in Seq(Message) /\ <<m>> \in Seq(Message)
  BY ConcatProperties
<1>2. s \o (t \o <<m>>) = (s \o t) \o <<m>>
  BY <1>1, ConcatAssociative
<1> QED
  BY <1>1, <1>2, AppendIsConcat, Zenon

(* What was queued still is after an append, and so is the new event. *)
LEMMA AppendQueued ==
    ASSUME NEW q \in Seq(Message), NEW m \in Message
    PROVE  /\ Queued(Append(q, m), EventOf(m))
           /\ \A e : Queued(q, e) => Queued(Append(q, m), e)
<1>1. /\ Len(Append(q, m)) = Len(q) + 1 /\ Len(q) \in Nat
      /\ \A i \in 1 .. Len(q) : Append(q, m)[i] = q[i]
      /\ Append(q, m)[Len(q) + 1] = m
  BY AppendProperties, LenProperties
<1> QED
  BY <1>1 DEF Queued

-----------------------------------------------------------------------------
(* The parts of the invariant that a step does not touch. *)
LEMMA Frame ==
    ASSUME EventInv
    PROVE  /\ UNCHANGED <<seq, event, con>> => StoredInv'
           /\ UNCHANGED <<con, last, queue, worker>> => OrderInv'
           /\ UNCHANGED worker => WorkerInv'
           /\ UNCHANGED <<event, con, last, queue, worker>> => QueueInv'
           /\ UNCHANGED <<event, last, listener>> => ListenerInv'
           /\ UNCHANGED <<con, known, confirms, listener>> => ConfirmInv'
           /\ UNCHANGED <<event, con>> => NoEventSkipped'
           /\ UNCHANGED <<sub, event>> => ProvidersFirst'
<1> USE DEF EventInv
<1>1. UNCHANGED <<seq, event, con>> => StoredInv'
  BY Zenon DEF StoredInv
<1>2. UNCHANGED <<con, last, queue, worker>> => OrderInv'
  BY Zenon DEF OrderInv, Pipeline
<1>3. UNCHANGED worker => WorkerInv'
  BY Zenon DEF WorkerInv
<1>4. UNCHANGED <<event, con, last, queue, worker>> => QueueInv'
  BY ZenonT(60) DEF QueueInv, Pipeline, Genuine
<1>5. UNCHANGED <<event, last, listener>> => ListenerInv'
  BY Zenon DEF ListenerInv
<1>6. UNCHANGED <<con, known, confirms, listener>> => ConfirmInv'
  BY Zenon DEF ConfirmInv, ConfirmsTrue, MadeBy
<1>7. UNCHANGED <<event, con>> => NoEventSkipped'
  BY Zenon DEF NoEventSkipped
<1>8. UNCHANGED <<sub, event>> => ProvidersFirst'
  BY Zenon DEF ProvidersFirst
<1> QED
  BY <1>1, <1>2, <1>3, <1>4, <1>5, <1>6, <1>7, <1>8, Zenon

(* Nothing has happened yet. *)
LEMMA InitEventInv == Init => EventInv
<1> SUFFICES ASSUME Init PROVE EventInv
  BY Zenon
<1> USE DEF Init
<1>1. \A n, p \in Node : ListenFor(n, p) \subseteq Node \ {n}
  BY DEF ListenFor, RebuildListenEntries, Entry
<1>2. Listening \in Listener
  BY BoundAssumption DEF Listening, Listener
<1>3. TypeOK
  <2> <<>> \in Seq(Message)
    BY EmptySeq, Zenon
  <2> QED
    BY <1>1, <1>2, BoundAssumption DEF TypeOK, None, Waiting
<1>4. \A n, o \in Node : Pipeline(n, o) = <<>>
  BY EmptySeq, ConcatEmptySeq, Zenon DEF Pipeline, Waiting
<1>5. OrderInv
  <2> InOrder(<<>>, 0, 0)
    BY EmptySeq DEF InOrder
  <2> QED
    BY <1>4, Zenon DEF OrderInv, None
<1>6. QueueInv
  BY <1>4, EmptySeq DEF QueueInv, Complete
<1>7. WorkerInv
  BY EmptySeq DEF WorkerInv, WellGrouped, Waiting
<1>8. StoredInv /\ NoEventSkipped /\ ProvidersFirst
  BY <1>3, ProvidersAreNodes DEF StoredInv, NoEventSkipped, ProvidersFirst, None
<1>9. ListenerInv
  BY DEF ListenerInv, Gapless, Listening
<1>10. ConfirmInv
  BY DEF ConfirmInv, ConfirmsTrue, MadeBy, None, Listening
<1> QED
  BY <1>3, <1>5, <1>6, <1>7, <1>8, <1>9, <1>10, Zenon DEF EventInv

-----------------------------------------------------------------------------
(* createEvent(): the new number is larger than all that anybody has seen. *)
LEMMA NumbersSeen ==
    ASSUME EventInv, NEW n \in Node, NEW o \in Node
    PROVE  con[n][o][n] <= seq[o] /\ con[n][o][n] <= last[n][o] /\ last[n][o] <= seq[o]
<1>1. con[n][o][n] <= seq[o]
  BY Zenon DEF EventInv, StoredInv
<1>2. InOrder(Pipeline(n, o), con[n][o][n], last[n][o])
  BY Zenon DEF EventInv, OrderInv
<1>3. TypeOK /\ con[n][o][n] \in Nat /\ last[n][o] \in Nat
  BY Types, Zenon DEF EventInv
<1>4. CASE Pipeline(n, o) = <<>>
  BY <1>1, <1>2, <1>3, <1>4 DEF InOrder
<1>5. CASE Pipeline(n, o) # <<>>
  <2> DEFINE q == Pipeline(n, o)
  <2>1. Len(q) \in 1 .. Len(q) /\ q[Len(q)] \in Message
    BY <1>3, <1>5, PipelineType, EmptySeq
  <2>2. EventOf(q[Len(q)]) \in event[o][o]
    BY <2>1, Zenon DEF EventInv, QueueInv, Genuine
  <2>3. q[Len(q)].seq <= seq[o]
    BY <2>2, Zenon DEF EventInv, StoredInv, EventOf
  <2>4. q[Len(q)].seq \in Nat /\ con[n][o][n] < q[Len(q)].seq /\ last[n][o] = q[Len(q)].seq
    BY <1>2, <1>5, <2>1, Numbers, Zenon DEF InOrder
  <2> QED
    BY <1>1, <1>3, <2>3, <2>4
<1> QED
  BY <1>4, <1>5, Zenon

(* createEvent(): a new number breaks no order and leaves no gap. *)
LEMMA CreateEventInv ==
    ASSUME EventInv, NEW o \in Node, NEW k \in Kind, CreateEvent(o, k)
    PROVE  EventInv'
<1> DEFINE new == [seq |-> seq[o] + 1, kind |-> k]
<1>t. TypeOK
  BY Zenon DEF EventInv
<1>0. /\ seq'[o] = seq[o] + 1 /\ new \in Event
      /\ event'[o][o] = event[o][o] \cup {new}
      /\ \A m, x \in Node : m # o \/ x # o => event'[m][x] = event[m][x]
      /\ \A m, x \in Node : event[m][x] \subseteq event'[m][x]
      /\ \A x \in Node : x # o => seq'[x] = seq[x]
  BY <1>t, BoundAssumption, SMTT(30) DEF CreateEvent, WithinBudget, TypeOK, Event, Seqno
<1>u. UNCHANGED <<sub, listen, con, last, queue, confirms, known, listener, worker, grouped, faults>>
  BY Zenon DEF CreateEvent, config, memVars
<1>1. TypeOK'
  <2>1. seq' \in [Node -> 0 .. MaxSeqno]
    BY <1>t, BoundAssumption, SMTT(60) DEF TypeOK, CreateEvent, WithinBudget
  <2>2. event' \in [Node -> [Node -> SUBSET Event]]
    BY <1>t, <1>0 DEF TypeOK, CreateEvent
  <2>3. \A n, p \in Node : ListenFor(n, p)' \subseteq Node \ {n}
    BY <1>t, <1>u, ListenForType, Zenon
  <2> QED
    BY <1>t, <1>u, <2>1, <2>2, <2>3, Zenon DEF TypeOK
<1>3. StoredInv'
  <2>0. /\ seq[o] \in Nat
        /\ \A e \in event[o][o] : e.seq \in Nat /\ e.seq <= seq[o]
        /\ \A n \in Node : con[n][o][n] \in Nat /\ con[n][o][n] <= seq[o]
    BY <1>t, Types, Numbers, Zenon DEF EventInv, StoredInv
  <2>1. ASSUME NEW x \in Node, NEW e \in event'[x][x] PROVE e.seq <= seq'[x]
    BY <1>0, <2>0, SMTT(60) DEF EventInv, StoredInv
  <2>2. ASSUME NEW x \in Node, NEW e \in event'[x][x], NEW f \in event'[x][x], e.seq = f.seq
        PROVE  e = f
    BY <1>0, <2>0, <2>2 DEF EventInv, StoredInv
  <2>3. ASSUME NEW n \in Node, NEW x \in Node PROVE con'[n][x][n] <= seq'[x]
    BY <1>0, <1>u, <2>0 DEF EventInv, StoredInv
  <2>4. ASSUME NEW n \in Node, NEW x \in Node, n # x, NEW e \in event'[n][x]
        PROVE  e \in event'[x][x] /\ e.seq <= con'[n][x][n]
    BY <1>0, <1>u, <2>4 DEF EventInv, StoredInv
  <2> QED
    BY <2>1, <2>2, <2>3, <2>4, Zenon DEF StoredInv
<1>4. QueueInv'
  <2>1. \A n, x \in Node : Pipeline(n, x)' = Pipeline(n, x)
    BY <1>u, Zenon DEF Pipeline
  <2>3. ASSUME NEW n \in Node, NEW x \in Node, NEW i \in 1 .. Len(Pipeline(n, x))
        PROVE  n # x /\ Genuine(Pipeline(n, x)[i], x)'
    <3>1. n # x /\ Genuine(Pipeline(n, x)[i], x)
      BY Zenon DEF EventInv, QueueInv
    <3>2. Pipeline(n, x)[i].from \in Node
      BY <1>t, PipelineType, Numbers, Zenon
    <3> QED
      BY <1>0, <2>1, <3>1, <3>2, SMTT(60) DEF Genuine
  <2>4. ASSUME NEW n \in Node, NEW x \in Node, n # x
        PROVE  Complete(Pipeline(n, x), con[n][x][n], last[n][x], event'[x][x])
    <3>1. Complete(Pipeline(n, x), con[n][x][n], last[n][x], event[x][x])
      BY <2>4, Zenon DEF EventInv, QueueInv
    <3>2. last[n][o] \in Nat /\ seq[o] \in Nat /\ last[n][o] < new.seq
      BY <1>t, Types, NumbersSeen
    <3> QED
      BY <1>0, <3>1, <3>2, SMTT(60) DEF Complete
  <2> QED
    BY <1>u, <2>1, <2>3, <2>4, Zenon DEF QueueInv
<1>5. ListenerInv'
  <2> SUFFICES ASSUME NEW n \in Node, NEW p \in Node
               PROVE  /\ \A r \in listener[n][p].rows :
                            /\ r.origin # n
                            /\ EventOf(r) \in event'[r.origin][r.origin]
                            /\ EventOf(r) \in event'[p][r.origin]
                      /\ \A x \in Node : Gapless(listener[n][p].rows, x, last[n][x], event'[x][x])
    BY <1>u, Zenon DEF EventInv, ListenerInv
  <2>1. ASSUME NEW r \in listener[n][p].rows
        PROVE  /\ r.origin # n /\ r.origin \in Node
               /\ EventOf(r) \in event[r.origin][r.origin]
               /\ EventOf(r) \in event[p][r.origin]
    BY <1>t, Types, Numbers, Zenon DEF EventInv, ListenerInv
  <2>2. ASSUME NEW r \in listener[n][p].rows, r.origin = o
        PROVE  r.seq \in Nat /\ r.seq < new.seq
    <3>1. r.seq \in Nat /\ seq[o] \in Nat
      BY <1>t, Types, Numbers, Zenon
    <3>2. EventOf(r).seq <= seq[o]
      BY <2>1, <2>2, Zenon DEF EventInv, StoredInv
    <3> QED
      BY <3>1, <3>2, SMTT(60) DEF EventOf
  <2>3. ASSUME NEW x \in Node PROVE Gapless(listener[n][p].rows, x, last[n][x], event'[x][x])
    <3>1. Gapless(listener[n][p].rows, x, last[n][x], event[x][x])
      BY Zenon DEF EventInv, ListenerInv
    <3>2. CASE x = o
      <4> SUFFICES ASSUME NEW r \in listener[n][p].rows, NEW e \in event'[o][o],
                          r.origin = o, e.seq < r.seq, last[n][o] < e.seq
                   PROVE  [origin |-> o, seq |-> e.seq, kind |-> e.kind] \in listener[n][p].rows
        BY <3>2, Zenon DEF Gapless
      <4>1. e # new
        BY <1>t, Types, <2>2
      <4> QED
        BY <1>0, <3>1, <3>2, <4>1, Zenon DEF Gapless
    <3> QED
      BY <1>0, <3>1, <3>2, Zenon
  <2> QED
    BY <1>0, <2>1, <2>3, Zenon
<1>6. NoEventSkipped'
  <2> SUFFICES ASSUME NEW n \in Node, NEW x \in Node, n # x, NEW e \in event'[x][x],
                      e.seq <= con[n][x][n]
               PROVE  e \in event'[n][x]
    BY <1>u, Zenon DEF NoEventSkipped
  <2>1. x = o => e # new
    <3> seq[o] \in Nat /\ con[n][o][n] \in Nat
      BY <1>t, Types, Zenon
    <3> QED
      BY NumbersSeen
  <2> QED
    BY <1>0, <2>1 DEF EventInv, NoEventSkipped
<1>7. ProvidersFirst'
  <2> SUFFICES ASSUME NEW n \in Node, NEW x \in Node, NEW p \in DataProviders(sub, x, n) \ {x},
                      NEW e \in event'[n][x], e.kind = "SYNC"
               PROVE  e \in event'[p][x]
    BY <1>u, Zenon DEF ProvidersFirst
  <2>1. p \in Node
    BY <1>t, ProvidersAreNodes, Zenon
  <2>2. n # x
    BY <1>t, SubAssumption, Zenon DEF TypeOK, DataProviders
  <2> QED
    BY <1>0, <2>1, <2>2 DEF EventInv, ProvidersFirst
<1> QED
  BY <1>u, <1>1, <1>3, <1>4, <1>5, <1>6, <1>7, Frame, Zenon DEF EventInv

(* A transaction that rolls back leaves a gap in the numbers. *)
LEMMA RollBackEventInv ==
    ASSUME EventInv, NEW o \in Node, RollBackEvent(o)
    PROVE  EventInv'
<1>t. TypeOK
  BY Zenon DEF EventInv
<1>u. UNCHANGED <<sub, listen, event, con, last, queue, confirms, known, listener, worker, grouped, faults>>
  BY Zenon DEF RollBackEvent, config, memVars
<1>1. seq' \in [Node -> 0 .. MaxSeqno]
  BY <1>t, BoundAssumption, SMTT(60) DEF TypeOK, RollBackEvent, WithinBudget
<1>2. TypeOK'
  <2> \A n, p \in Node : ListenFor(n, p)' \subseteq Node \ {n}
    BY <1>t, <1>u, ListenForType, Zenon
  <2> QED
    BY <1>t, <1>u, <1>1, Zenon DEF TypeOK
<1>3. StoredInv'
  <2>1. \A x \in Node : seq[x] \in Nat /\ seq'[x] \in Nat /\ seq[x] <= seq'[x]
    <3> TAKE x \in Node
    <3>1. seq[x] \in Nat
      BY <1>t, Types, Zenon
    <3>2. seq'[x] = IF x = o THEN seq[x] + 1 ELSE seq[x]
      BY <1>t, Zenon DEF TypeOK, RollBackEvent
    <3> QED
      BY <3>1, <3>2
  <2>2. ASSUME NEW x \in Node, NEW e \in event[x][x] PROVE e.seq <= seq'[x]
    <3> e.seq \in Nat /\ e.seq <= seq[x]
      BY <1>t, Types, Numbers, Zenon DEF EventInv, StoredInv
    <3> QED
      BY <2>1
  <2>3. ASSUME NEW n \in Node, NEW x \in Node PROVE con[n][x][n] <= seq'[x]
    <3> con[n][x][n] \in Nat /\ con[n][x][n] <= seq[x]
      BY <1>t, Types, Zenon DEF EventInv, StoredInv
    <3> QED
      BY <2>1
  <2> QED
    BY <1>u, <2>2, <2>3, Zenon DEF EventInv, StoredInv
<1> QED
  BY <1>u, <1>2, <1>3, Frame, Zenon DEF EventInv

-----------------------------------------------------------------------------
(* A listener that changes nothing but its own state. *)
ListenerOnly(n, p, state) ==
    /\ SetListener(n, p, state)
    /\ UNCHANGED <<sub, listen, seq, event, con, last, queue, confirms, known, worker, grouped>>
    /\ faults' \in 0 .. MaxFault

(* It keeps the invariant if the rows and confirmations it has fit. *)
LEMMA ListenerOnlyInv ==
    ASSUME EventInv, NEW n \in Node, NEW p \in Node, NEW state \in Listener,
           ListenerOnly(n, p, state),
           \A o \in Node : state.last[o] <= last[n][o],
           \A r \in state.rows : /\ r.origin # n
                                 /\ EventOf(r) \in event[r.origin][r.origin]
                                 /\ EventOf(r) \in event[p][r.origin],
           \A o \in Node : Gapless(state.rows, o, last[n][o], event[o][o]),
           \A c \in state.cons : c.received # n /\ MadeBy(c)
    PROVE  EventInv'
<1>t. TypeOK
  BY Zenon DEF EventInv
<1>u. UNCHANGED <<sub, listen, seq, event, con, last, queue, confirms, known, worker, grouped>>
  BY Zenon DEF ListenerOnly
<1>0. /\ listener'[n][p] = state
      /\ \A m, x \in Node : m # n \/ x # p => listener'[m][x] = listener[m][x]
  BY <1>t, Zenon DEF ListenerOnly, SetListener, TypeOK
<1>1. TypeOK'
  <2>1. listener' \in [Node -> [Node -> Listener]]
    BY <1>t, Zenon DEF ListenerOnly, SetListener, TypeOK
  <2>2. \A m, x \in Node : ListenFor(m, x)' \subseteq Node \ {m}
    BY <1>t, <1>u, ListenForType, Zenon
  <2>3. faults' \in 0 .. MaxFault
    BY Zenon DEF ListenerOnly
  <2> QED
    BY <1>t, <1>u, <2>1, <2>2, <2>3, Zenon DEF TypeOK
<1>2. ListenerInv'
  <2> SUFFICES ASSUME NEW m \in Node, NEW x \in Node
               PROVE  /\ \A o \in Node : listener'[m][x].last[o] <= last[m][o]
                      /\ \A r \in listener'[m][x].rows :
                            /\ r.origin # m
                            /\ EventOf(r) \in event[r.origin][r.origin]
                            /\ EventOf(r) \in event[x][r.origin]
                      /\ \A o \in Node : Gapless(listener'[m][x].rows, o, last[m][o], event[o][o])
    BY <1>u, Zenon DEF ListenerInv
  <2>1. CASE m = n /\ x = p
    BY <1>0, <2>1, Zenon
  <2>2. CASE m # n \/ x # p
    BY <1>0, <2>2, Zenon DEF EventInv, ListenerInv
  <2> QED
    BY <2>1, <2>2, Zenon
<1>3. ConfirmInv'
  <2>1. ConfirmsTrue'
    BY <1>u, Zenon DEF EventInv, ConfirmInv, ConfirmsTrue
  <2>2. ASSUME NEW m \in Node, NEW x \in Node,
               NEW c \in confirms[m][x] \cup listener'[m][x].cons
        PROVE  c.received # m /\ MadeBy(c)
    BY <1>0, Zenon DEF EventInv, ConfirmInv
  <2> QED
    BY <1>u, <2>1, <2>2, Zenon DEF ConfirmInv, MadeBy
<1> QED
  BY <1>u, <1>1, <1>2, <1>3, Frame, Zenon DEF EventInv

(* Listening again from the start. *)
LEMMA ListeningInv ==
    ASSUME EventInv, NEW n \in Node, NEW p \in Node, ListenerOnly(n, p, Listening)
    PROVE  EventInv'
<1>1. Listening \in Listener
  BY BoundAssumption, SMTT(30) DEF Listening, Listener
<1>2. \A o \in Node : Listening.last[o] <= last[n][o]
  BY Types, SMTT(60) DEF EventInv, Listening
<1>3. Listening.rows = {} /\ Listening.cons = {}
  BY Zenon DEF Listening
<1>4. \A o \in Node : Gapless(Listening.rows, o, last[n][o], event[o][o])
  BY <1>3, Zenon DEF Gapless
<1> QED
  BY <1>1, <1>2, <1>3, <1>4, ListenerOnlyInv, Zenon

(* A lost connection: the listener starts again. *)
LEMMA DisconnectInv ==
    ASSUME EventInv, NEW n \in Node, NEW p \in Node, Disconnect(n, p)
    PROVE  EventInv'
<1>1. faults' \in 0 .. MaxFault
  BY BoundAssumption DEF EventInv, TypeOK, Disconnect, Fault
<1>2. ListenerOnly(n, p, Listening)
  BY <1>1, Zenon DEF Disconnect, ListenerOnly, dbVars, config
<1> QED
  BY <1>2, ListeningInv, Zenon

(* The listener copies last_event of every origin into its query. *)
LEMMA BuildQueryInv ==
    ASSUME EventInv, NEW n \in Node, NEW p \in Node, BuildQuery(n, p)
    PROVE  EventInv'
<1> DEFINE state == [Listening EXCEPT !.pc = "query", !.last = last[n]]
<1>1. state.last = last[n] /\ state.rows = {} /\ state.cons = {}
  BY Zenon DEF Listening
<1>2. state \in Listener
  BY Zenon DEF EventInv, TypeOK, Listening, Listener
<1>3. ListenerOnly(n, p, state)
  BY Zenon DEF EventInv, TypeOK, BuildQuery, ListenerOnly, dbVars, config
<1>4. \A o \in Node : state.last[o] <= last[n][o]
  BY <1>1, Types DEF EventInv
<1>5. \A o \in Node : Gapless(state.rows, o, last[n][o], event[o][o])
  BY <1>1, Zenon DEF Gapless
<1> HIDE DEF state
<1> QED
  BY <1>1, <1>2, <1>3, <1>4, <1>5, ListenerOnlyInv, Zenon

(* What precedes a row on its origin is on the provider as well: the rows
   selected have no gap. *)
LEMMA SelectEventsInv ==
    ASSUME EventInv, NEW n \in Node, NEW p \in Node, SelectEvents(n, p)
    PROVE  EventInv'
<1> DEFINE since == listener[n][p].last
           all == NewEvents(n, p, since)
<1>t. TypeOK
  BY Zenon DEF EventInv
<1>0. PICK rows \in SUBSET all :
          /\ AreFirst(rows, all)
          /\ SetListener(n, p, [Listening EXCEPT !.pc = "events", !.rows = rows])
  BY Zenon DEF SelectEvents
<1> DEFINE first == [Listening EXCEPT !.pc = "events"]
           state == [first EXCEPT !.rows = rows]
<1>1. ListenFor(n, p) \subseteq Node \ {n}
  BY <1>t, Zenon DEF TypeOK
<1>2. ASSUME NEW r \in all
      PROVE  /\ r \in Row /\ r.origin \in Node \ {n} /\ r.origin \in ListenFor(n, p)
             /\ EventOf(r) \in event[p][r.origin]
  <2>0. PICK o \in ListenFor(n, p) : \E e \in event[p][o] :
            r = [origin |-> o, seq |-> e.seq, kind |-> e.kind]
    BY Zenon DEF NewEvents
  <2>1. PICK e \in event[p][o] : r = [origin |-> o, seq |-> e.seq, kind |-> e.kind]
    BY <2>0, Zenon
  <2>2. o \in Node \ {n} /\ e \in Event
    BY <1>t, <1>1, Types, Zenon
  <2> QED
    BY <2>1, <2>2, Zenon DEF Row, Event, EventOf
<1>3. ASSUME NEW r \in all PROVE EventOf(r) \in event[r.origin][r.origin]
  BY <1>2, Zenon DEF EventInv, StoredInv
<1>4. ASSUME NEW o \in Node PROVE Gapless(rows, o, last[n][o], event[o][o])
  <2> SUFFICES ASSUME NEW r \in rows, NEW e \in event[o][o],
                      r.origin = o, e.seq < r.seq, last[n][o] < e.seq
               PROVE  [origin |-> o, seq |-> e.seq, kind |-> e.kind] \in rows
    BY Zenon DEF Gapless
  <2> DEFINE row == [origin |-> o, seq |-> e.seq, kind |-> e.kind]
  <2>0. r \in all /\ r \in Row
    BY <1>2, Zenon
  <2>1. /\ e \in Event /\ e.seq \in Nat /\ r.seq \in Nat /\ last[n][o] \in Nat
        /\ since[o] \in Nat
    BY <1>t, <2>0, Types, Numbers, Zenon
  <2>2. since[o] < e.seq
    <3> since[o] <= last[n][o]
      BY Zenon DEF EventInv, ListenerInv
    <3> QED
      BY <2>1, SMTT(60)
  <2>3. e \in event[p][o]
    <3>1. CASE p = o
      BY <3>1, Zenon
    <3>2. CASE p # o
      <4>1. EventOf(r) \in event[p][o]
        BY <1>2, <2>0, Zenon
      <4>2. r.seq <= con[p][o][p]
        BY <3>2, <4>1 DEF EventInv, StoredInv, EventOf
      <4>3. e.seq <= con[p][o][p]
        <5> con[p][o][p] \in Nat
          BY <1>t, Types, Zenon
        <5> QED
          BY <2>1, <4>2
      <4> QED
        BY <3>2, <4>3, Zenon DEF EventInv, NoEventSkipped
    <3> QED
      BY <3>1, <3>2, Zenon
  <2>4. row \in all
    <3>1. o \in ListenFor(n, p)
      BY <1>2, <2>0, Zenon
    <3>2. e \in {f \in event[p][o] : f.seq > since[o]}
      BY <2>1, <2>2, <2>3, Zenon
    <3> QED
      BY <3>1, <3>2, SMTT(60) DEF NewEvents
  <2>5. Before(row, r)
    BY Zenon DEF Before
  <2> HIDE DEF all, row
  <2> QED
    BY <1>0, <2>4, <2>5, Zenon DEF AreFirst, row
<1> HIDE DEF all
<1>5. first \in Listener /\ first.last = [o \in Node |-> 0] /\ first.cons = {}
  BY BoundAssumption DEF Listening, Listener
<1>6. ListenerOnly(n, p, state)
  BY <1>0, Zenon DEF EventInv, TypeOK, SelectEvents, ListenerOnly, dbVars, config
<1> HIDE DEF first
<1>7. /\ state \in Listener
      /\ state.last = [o \in Node |-> 0] /\ state.rows = rows /\ state.cons = {}
  BY <1>2, <1>5, Zenon DEF Listener
<1> HIDE DEF state
<1>8. \A o \in Node : state.last[o] <= last[n][o]
  BY <1>t, <1>7, Types
<1>9. \A r \in state.rows : /\ r.origin # n
                           /\ EventOf(r) \in event[r.origin][r.origin]
                           /\ EventOf(r) \in event[p][r.origin]
  BY <1>2, <1>3, <1>7, Zenon
<1> QED
  BY <1>4, <1>6, <1>7, <1>8, <1>9, ListenerOnlyInv, Zenon

-----------------------------------------------------------------------------
(* A restart forgets the queues, and goes back to what is confirmed. *)
LEMMA RestartInv ==
    ASSUME EventInv, NEW n \in Node, Restart(n)
    PROVE  EventInv'
<1>t. TypeOK
  BY Zenon DEF EventInv
<1>u. UNCHANGED <<sub, listen, seq, event, con>>
  BY Zenon DEF Restart, dbVars, config
<1>f. faults' \in 0 .. MaxFault
  BY <1>t, BoundAssumption DEF TypeOK, Restart, Fault
<1>l. /\ Listening \in Listener /\ Listening.rows = {} /\ Listening.cons = {}
      /\ Listening.last = [o \in Node |-> 0]
  BY BoundAssumption, SMTT(60) DEF Listening, Listener
<1>w. /\ Waiting \in [pc : {"idle", "group", "apply"}, group : Seq(Message)]
      /\ WellGrouped(Waiting) /\ Waiting.group = <<>> /\ <<>> \in Seq(Message)
  BY EmptySeq DEF Waiting, WellGrouped
<1> HIDE DEF Listening, Waiting
<1>1. /\ last' \in [Node -> [Node -> 0 .. MaxSeqno]]
      /\ \A m, x \in Node : last'[m][x] = IF m = n THEN con[n][x][n] ELSE last[m][x]
  <2>1. last' = [last EXCEPT ![n] = [x \in Node |-> con[n][x][n]]]
    BY Zenon DEF Restart, LoadedLast
  <2>2. /\ last \in [Node -> [Node -> 0 .. MaxSeqno]]
        /\ con \in [Node -> [Node -> [Node -> 0 .. MaxSeqno]]]
    BY <1>t, Zenon DEF TypeOK
  <2> QED
    BY <2>1, <2>2
<1>2. /\ queue' \in [Node -> [Node -> Seq(Message)]]
      /\ \A m, x \in Node : queue'[m][x] = IF m = n THEN <<>> ELSE queue[m][x]
  <2>1. queue' = [queue EXCEPT ![n] = [o \in Node |-> <<>>]]
    BY Zenon DEF Restart
  <2>2. queue \in [Node -> [Node -> Seq(Message)]]
    BY <1>t, Zenon DEF TypeOK
  <2> QED
    BY <1>w, <2>1, <2>2, Zenon
<1>3. /\ worker' \in [Node -> [Node -> [pc : {"idle", "group", "apply"}, group : Seq(Message)]]]
      /\ \A m, x \in Node : worker'[m][x] = IF m = n THEN Waiting ELSE worker[m][x]
  <2>1. worker' = [worker EXCEPT ![n] = [o \in Node |-> Waiting]]
    BY Zenon DEF Restart
  <2>2. worker \in [Node -> [Node -> [pc : {"idle", "group", "apply"}, group : Seq(Message)]]]
    BY <1>t, Zenon DEF TypeOK
  <2> QED
    BY <1>w, <2>1, <2>2, Zenon
<1>4. /\ listener' \in [Node -> [Node -> Listener]]
      /\ \A m, x \in Node : listener'[m][x] = IF m = n THEN Listening ELSE listener[m][x]
  <2>1. listener' = [listener EXCEPT ![n] = [p \in Node |-> Listening]]
    BY Zenon DEF Restart
  <2>2. listener \in [Node -> [Node -> Listener]]
    BY <1>t, Zenon DEF TypeOK
  <2> QED
    BY <1>l, <2>1, <2>2, Zenon
<1>5. /\ confirms' \in [Node -> [Node -> SUBSET Confirm]]
      /\ \A m, x \in Node : confirms'[m][x] \subseteq confirms[m][x]
  <2>1. confirms' = [confirms EXCEPT ![n] = [o \in Node |-> {}]]
    BY Zenon DEF Restart
  <2>2. confirms \in [Node -> [Node -> SUBSET Confirm]]
    BY <1>t, Zenon DEF TypeOK
  <2> QED
    BY <2>1, <2>2, Zenon
<1>6. /\ known' \in [Node -> [Node -> [Node -> 0 .. MaxSeqno]]]
      /\ \A m, x, r \in Node : known'[m][x][r] = IF m = n THEN 0 ELSE known[m][x][r]
  <2>1. known' = [known EXCEPT ![n] = None] /\ None = [x \in Node |-> [r \in Node |-> 0]]
    BY Zenon DEF Restart, None
  <2>2. known \in [Node -> [Node -> [Node -> 0 .. MaxSeqno]]]
    BY <1>t, Zenon DEF TypeOK
  <2> QED
    BY <2>1, <2>2, BoundAssumption
<1>7. grouped' \in [Node -> [Node -> 0 .. MaxGroup]]
  BY <1>t, BoundAssumption DEF TypeOK, Restart
<1>8. TypeOK'
  <2>1. \A m, x \in Node : ListenFor(m, x)' \subseteq Node \ {m}
    BY <1>t, <1>u, ListenForType, Zenon
  <2> QED
    BY <1>t, <1>u, <1>f, <1>1, <1>2, <1>3, <1>4, <1>5, <1>6, <1>7, <2>1, Zenon DEF TypeOK
<1>9. \A m, x \in Node : Pipeline(m, x)' = IF m = n THEN <<>> ELSE Pipeline(m, x)
  <2> <<>> \o <<>> = <<>>
    BY <1>w, ConcatEmptySeq, Zenon
  <2> QED
    BY <1>w, <1>2, <1>3, Zenon DEF Pipeline
<1>10. OrderInv'
  <2> SUFFICES ASSUME NEW m \in Node, NEW x \in Node
               PROVE  InOrder(Pipeline(m, x)', con[m][x][m], last'[m][x])
    BY <1>u, Zenon DEF OrderInv
  <2>1. InOrder(<<>>, con[m][x][m], con[m][x][m])
    BY EmptySeq DEF InOrder
  <2> QED
    BY <1>1, <1>9, <2>1, Zenon DEF EventInv, OrderInv
<1>11. WorkerInv'
  BY <1>w, <1>3, Zenon DEF EventInv, WorkerInv
<1>12. QueueInv'
  <2>1. ASSUME NEW m \in Node, NEW x \in Node, NEW i \in 1 .. Len(Pipeline(m, x)')
        PROVE  m # x /\ Genuine(Pipeline(m, x)[i], x)'
    <3>1. m # n
      BY <1>9, EmptySeq
    <3> QED
      BY <1>u, <1>9, <3>1, Zenon DEF EventInv, QueueInv, Genuine
  <2>2. ASSUME NEW m \in Node, NEW x \in Node, m # x
        PROVE  Complete(Pipeline(m, x)', con[m][x][m], last'[m][x], event[x][x])
    <3>1. CASE m = n
      <4>1. con[n][x][n] \in Nat /\ \A e \in event[x][x] : e.seq \in Nat
        BY <1>t, Types, Numbers, Zenon
      <4> QED
        BY <1>1, <3>1, <4>1 DEF Complete
    <3>2. CASE m # n
      BY <1>1, <1>9, <2>2, <3>2, Zenon DEF EventInv, QueueInv
    <3> QED
      BY <3>1, <3>2, Zenon
  <2> QED
    BY <1>u, <2>1, <2>2, Zenon DEF QueueInv
<1>13. ListenerInv'
  <2> SUFFICES ASSUME NEW m \in Node, NEW x \in Node
               PROVE  /\ \A o \in Node : listener'[m][x].last[o] <= last'[m][o]
                      /\ \A r \in listener'[m][x].rows :
                            /\ r.origin # m
                            /\ EventOf(r) \in event[r.origin][r.origin]
                            /\ EventOf(r) \in event[x][r.origin]
                      /\ \A o \in Node : Gapless(listener'[m][x].rows, o, last'[m][o], event[o][o])
    BY <1>u, Zenon DEF ListenerInv
  <2>1. CASE m = n
    <3>1. \A o \in Node : Gapless({}, o, last'[m][o], event[o][o])
      BY Zenon DEF Gapless
    <3>2. \A o \in Node : 0 <= last'[m][o]
      BY <1>1
    <3>3. /\ listener'[m][x].rows = {}
          /\ \A o \in Node : listener'[m][x].last[o] = 0
      BY <1>l, <1>4, <2>1
    <3> QED
      BY <3>1, <3>2, <3>3, Zenon
  <2>2. CASE m # n
    <3>1. listener'[m][x] = listener[m][x] /\ \A o \in Node : last'[m][o] = last[m][o]
      BY <1>1, <1>4, <2>2, Zenon
    <3> QED
      BY <3>1, Zenon DEF EventInv, ListenerInv
  <2> QED
    BY <2>1, <2>2, Zenon
<1>14. ConfirmInv'
  <2>1. ASSUME NEW m \in Node, NEW x \in Node, NEW r \in Node
        PROVE  con[m][x][r] <= con[r][x][r] /\ known'[m][x][r] <= con[r][x][r]
    <3>1. /\ con[m][x][r] <= con[r][x][r] /\ known[m][x][r] <= con[r][x][r]
          /\ con[r][x][r] \in Nat
      BY <1>t, Types, Zenon DEF EventInv, ConfirmInv, ConfirmsTrue
    <3> QED
      BY <1>6, <3>1, SMTT(60)
  <2>2. ASSUME NEW m \in Node, NEW x \in Node,
               NEW c \in confirms'[m][x] \cup listener'[m][x].cons
        PROVE  c.received # m /\ MadeBy(c)
    <3>1. c \in confirms[m][x] \cup listener[m][x].cons
      BY <1>l, <1>4, <1>5, Zenon
    <3> QED
      BY <3>1, Zenon DEF EventInv, ConfirmInv
  <2> QED
    BY <1>u, <2>1, <2>2, Zenon DEF ConfirmInv, ConfirmsTrue, MadeBy
<1> QED
  BY <1>u, <1>8, <1>10, <1>11, <1>12, <1>13, <1>14, Frame, Zenon DEF EventInv

-----------------------------------------------------------------------------
(* Handing events to the workers, and what a worker does with them.        *)

(* remoteWorker_event(): the first row is the next event for the queue, or is
   in it or behind it already. *)
LEMMA RemoteWorkerEventInv ==
    ASSUME EventInv, NEW n \in Node, NEW p \in Node, remoteWorker_event(n, p)
    PROVE  EventInv'
<1>t. TypeOK
  BY Zenon DEF EventInv
<1> DEFINE rows == listener[n][p].rows
<1>r. PICK r \in rows :
          /\ \A x \in rows : ~ Before(x, r)
          /\ IF IsNewEvent(n, r)
             THEN /\ last' = [last EXCEPT ![n][r.origin] = r.seq]
                  /\ queue' = [queue EXCEPT ![n][r.origin] =
                          Append(@, [seq |-> r.seq, kind |-> r.kind, from |-> p])]
             ELSE UNCHANGED <<last, queue>>
          /\ listener' = [listener EXCEPT ![n][p] = [listener[n][p] EXCEPT !.rows = @ \ {r}]]
  BY Zenon DEF remoteWorker_event, SetListener
<1>u. UNCHANGED <<sub, listen, seq, event, con, confirms, known, worker, grouped, faults>>
  BY Zenon DEF remoteWorker_event, dbVars, config
<1> DEFINE o == r.origin
           msg == [seq |-> r.seq, kind |-> r.kind, from |-> p]
           q == Pipeline(n, o)
<1>0. /\ r \in Row /\ o \in Node \ {n} /\ r.seq \in Nat /\ msg \in Message
      /\ EventOf(r) \in event[o][o] /\ EventOf(r) \in event[p][o]
      /\ last[n][o] \in Nat
      /\ con[n][o][n] \in Nat /\ con[n][o][n] <= last[n][o]
  <2>1. r \in Row
    BY <1>t, Types, Zenon
  <2>2. o # n /\ EventOf(r) \in event[o][o] /\ EventOf(r) \in event[p][o]
    BY Zenon DEF EventInv, ListenerInv
  <2> QED
    BY <1>t, <2>1, <2>2, Types, Numbers, NumbersSeen, Zenon DEF Row, Message
<1>l. /\ listener'[n][p] = [listener[n][p] EXCEPT !.rows = rows \ {r}]
      /\ listener'[n][p].rows = rows \ {r}
      /\ listener'[n][p].last = listener[n][p].last
      /\ listener'[n][p].cons = listener[n][p].cons
      /\ listener'[n][p] \in Listener
      /\ \A m, x \in Node : m # n \/ x # p => listener'[m][x] = listener[m][x]
  <2>1. listener[n][p] \in Listener
    BY <1>t, Types, Zenon
  <2>2. /\ listener'[n][p] = [listener[n][p] EXCEPT !.rows = rows \ {r}]
        /\ \A m, x \in Node : m # n \/ x # p => listener'[m][x] = listener[m][x]
    BY <1>r, <1>t, Zenon DEF TypeOK
  <2> QED
    BY <2>1, <2>2, Zenon DEF Listener
(* Nobody's last_event goes back, and that of (n, o) covers r. *)
<1>g. /\ \A m, x \in Node : m # n \/ x # o => last'[m][x] = last[m][x]
      /\ last'[n][o] \in Nat /\ last[n][o] <= last'[n][o] /\ r.seq <= last'[n][o]
      /\ last' \in [Node -> [Node -> 0 .. MaxSeqno]]
  <2>1. CASE IsNewEvent(n, r)
    <3>1. last' = [last EXCEPT ![n][o] = r.seq]
      BY <1>r, <2>1, Zenon
    <3>2. r.seq \in 0 .. MaxSeqno
      <4> r.seq \in Seqno
        BY <1>0, Zenon DEF Row
      <4> QED
        BY BoundAssumption DEF Seqno
    <3>3. last[n][o] < r.seq
      BY <2>1, Zenon DEF IsNewEvent
    <3> HIDE DEF o
    <3>4. /\ last'[n][o] = r.seq
          /\ \A m, x \in Node : m # n \/ x # o => last'[m][x] = last[m][x]
          /\ last' \in [Node -> [Node -> 0 .. MaxSeqno]]
      BY <1>0, <1>t, <3>1, <3>2, Zenon DEF TypeOK
    <3> QED
      BY <1>0, <3>3, <3>4, SMTT(60)
  <2>2. CASE ~ IsNewEvent(n, r)
    <3>1. last' = last /\ r.seq <= last[n][o]
      BY <1>r, <1>0, <2>2 DEF IsNewEvent
    <3>2. last \in [Node -> [Node -> 0 .. MaxSeqno]]
      BY <1>t, Zenon DEF TypeOK
    <3>3. last[n][o] \in Nat /\ last[n][o] <= last[n][o]
      BY <1>0, SMTT(60)
    <3> HIDE DEF o
    <3> QED
      BY <3>1, <3>2, <3>3, Zenon
  <2> QED
    BY <2>1, <2>2, Zenon
<1>q. /\ queue' \in [Node -> [Node -> Seq(Message)]]
      /\ \A m, x \in Node : m # n \/ x # o => Pipeline(m, x)' = Pipeline(m, x)
  <2>1. CASE IsNewEvent(n, r)
    <3>1. queue' = [queue EXCEPT ![n][o] = Append(@, msg)]
      BY <1>r, <2>1, Zenon
    <3>2. Append(queue[n][o], msg) \in Seq(Message)
      BY <1>0, <1>t, PipelineType, AppendProperties, Zenon
    <3>3. queue' \in [Node -> [Node -> Seq(Message)]]
      BY <1>0, <1>t, <3>1, <3>2, Zenon DEF TypeOK
    <3>4. \A m, x \in Node : m # n \/ x # o => queue'[m][x] = queue[m][x]
      BY <1>0, <1>t, <3>1, Zenon DEF TypeOK
    <3> QED
      BY <1>u, <3>3, <3>4, Zenon DEF Pipeline
  <2>2. CASE ~ IsNewEvent(n, r)
    BY <1>r, <1>u, <1>t, <2>2, Zenon DEF Pipeline, TypeOK
  <2> QED
    BY <2>1, <2>2, Zenon
<1>1. TypeOK'
  <2> DEFINE state == [listener[n][p] EXCEPT !.rows = rows \ {r}]
  <2>0. listener' = [listener EXCEPT ![n][p] = state] /\ state \in Listener
    BY <1>r, <1>l, Zenon
  <2> HIDE DEF state
  <2>1. listener' \in [Node -> [Node -> Listener]]
    <3>1. listener \in [Node -> [Node -> Listener]]
      BY <1>t, Zenon DEF TypeOK
    <3> QED
      BY <2>0, <3>1, Zenon
  <2>2. \A m, x \in Node : ListenFor(m, x)' \subseteq Node \ {m}
    BY <1>t, <1>u, ListenForType, Zenon
  <2> QED
    BY <1>t, <1>u, <1>g, <1>q, <2>1, <2>2, Zenon DEF TypeOK
(* The new message, if there is one. *)
<1>n. ASSUME IsNewEvent(n, r)
      PROVE  /\ last'[n][o] = r.seq /\ last[n][o] < r.seq
             /\ Pipeline(n, o)' = Append(q, msg) /\ q \in Seq(Message)
  <2>1. last'[n][o] = r.seq /\ queue'[n][o] = Append(queue[n][o], msg)
    <3>1. last' = [last EXCEPT ![n][o] = r.seq] /\ queue' = [queue EXCEPT ![n][o] = Append(@, msg)]
      BY <1>r, <1>n, Zenon
    <3> HIDE DEF o, msg
    <3> QED
      BY <3>1, <1>0, <1>t, Zenon DEF TypeOK
  <2>2. worker[n][o].group \in Seq(Message) /\ queue[n][o] \in Seq(Message) /\ q \in Seq(Message)
    BY <1>0, <1>t, PipelineType, Zenon
  <2>3. worker[n][o].group \o Append(queue[n][o], msg) = Append(q, msg)
    <3> HIDE DEF msg
    <3> QED
      BY <1>0, <2>2, AppendToTail, Zenon DEF Pipeline
  <2> QED
    BY <1>n, <1>u, <2>1, <2>2, <2>3, Zenon DEF Pipeline, IsNewEvent
<1>o. ASSUME ~ IsNewEvent(n, r)
      PROVE  last' = last /\ Pipeline(n, o)' = q
  BY <1>r, <1>o, <1>u, Zenon DEF Pipeline
<1>2. OrderInv'
  <2> SUFFICES ASSUME NEW m \in Node, NEW x \in Node
               PROVE  InOrder(Pipeline(m, x)', con[m][x][m], last'[m][x])
    BY <1>u, Zenon DEF OrderInv
  <2>1. InOrder(Pipeline(m, x), con[m][x][m], last[m][x])
    BY Zenon DEF EventInv, OrderInv
  <2>2. CASE m = n /\ x = o /\ IsNewEvent(n, r)
    <3>1. msg.seq = r.seq /\ msg \in Message
      BY <1>0, Zenon
    <3> HIDE DEF o, q, msg
    <3> QED
      BY <1>0, <1>n, <2>1, <2>2, <3>1, AppendInOrder, Zenon DEF q
  <2>3. CASE ~ (m = n /\ x = o /\ IsNewEvent(n, r))
    BY <1>g, <1>q, <1>o, <2>1, <2>3, Zenon
  <2> QED
    BY <2>2, <2>3, Zenon
<1>3. QueueInv'
  <2>1. ASSUME NEW m \in Node, NEW x \in Node, NEW i \in 1 .. Len(Pipeline(m, x)')
        PROVE  m # x /\ Genuine(Pipeline(m, x)'[i], x)
    <3>1. CASE m = n /\ x = o /\ IsNewEvent(n, r)
      <4>1. Len(Append(q, msg)) = Len(q) + 1 /\ Append(q, msg)[Len(q) + 1] = msg /\ Len(q) \in Nat
            /\ \A j \in 1 .. Len(q) : Append(q, msg)[j] = q[j]
        BY <1>0, <1>n, <3>1, AppendProperties, LenProperties, SMTT(60)
      <4>2. Genuine(msg, o)
        BY <1>0, Zenon DEF Genuine, EventOf
      <4>3. \A j \in 1 .. Len(q) : Genuine(q[j], o)
        BY <1>0, Zenon DEF EventInv, QueueInv
      <4> HIDE DEF o, q, msg
      <4> QED
        BY <1>0, <1>n, <3>1, <4>1, <4>2, <4>3, SMTT(60)
    <3>2. CASE ~ (m = n /\ x = o /\ IsNewEvent(n, r))
      BY <1>q, <1>o, <3>2, Zenon DEF EventInv, QueueInv
    <3> QED
      BY <3>1, <3>2, Zenon
  <2>2. ASSUME NEW m \in Node, NEW x \in Node, m # x
        PROVE  Complete(Pipeline(m, x)', con[m][x][m], last'[m][x], event[x][x])
    <3>1. Complete(Pipeline(m, x), con[m][x][m], last[m][x], event[x][x])
      BY <2>2, Zenon DEF EventInv, QueueInv
    <3>2. CASE m = n /\ x = o /\ IsNewEvent(n, r)
      <4> SUFFICES ASSUME NEW e \in event[o][o], con[n][o][n] < e.seq, e.seq <= r.seq
                   PROVE  Queued(Append(q, msg), e)
        BY <1>n, <3>2, Zenon DEF Complete
      <4>0. e \in Event /\ e.seq \in Nat
        BY <1>0, <1>t, Types, Numbers, Zenon
      <4>1. CASE e.seq <= last[n][o]
        <5> Queued(q, e)
          BY <3>1, <3>2, <4>1, Zenon DEF Complete
        <5> QED
          BY <1>0, <1>n, <3>2, AppendQueued, Zenon
      <4>2. CASE e.seq = r.seq
        <5>1. EventOf(r).seq = r.seq /\ EventOf(r) = EventOf(msg)
          BY Zenon DEF EventOf
        <5>2. e = EventOf(r)
          BY <1>0, <4>2, <5>1, Zenon DEF EventInv, StoredInv
        <5> QED
          BY <1>0, <1>n, <3>2, <5>1, <5>2, AppendQueued, Zenon
      <4>3. CASE last[n][o] < e.seq /\ e.seq < r.seq
        <5> DEFINE row == [origin |-> o, seq |-> e.seq, kind |-> e.kind]
        <5>1. Gapless(rows, o, last[n][o], event[o][o])
          BY <1>0, Zenon DEF EventInv, ListenerInv
        <5>2. row \in rows
          BY <4>3, <5>1, Zenon DEF Gapless
        <5>3. Before(row, r)
          BY <4>3, Zenon DEF Before
        <5> QED
          BY <1>r, <5>2, <5>3, Zenon
      <4>4. \/ e.seq <= last[n][o] \/ e.seq = r.seq
            \/ last[n][o] < e.seq /\ e.seq < r.seq
        <5> DEFINE l == last[n][o]
        <5> HIDE DEF l
        <5> l \in Nat /\ r.seq \in Nat
          BY <1>0, Zenon DEF l
        <5> QED
          BY <4>0 DEF l
      <4> QED
        BY <4>1, <4>2, <4>3, <4>4, Zenon
    <3>3. CASE ~ (m = n /\ x = o /\ IsNewEvent(n, r))
      BY <1>g, <1>q, <1>o, <3>1, <3>3, Zenon
    <3> QED
      BY <3>2, <3>3, Zenon
  <2> QED
    BY <1>u, <2>1, <2>2, Zenon DEF QueueInv, Genuine
<1>4. ListenerInv'
  <2> SUFFICES ASSUME NEW m \in Node, NEW x \in Node
               PROVE  /\ \A y \in Node : listener'[m][x].last[y] <= last'[m][y]
                      /\ \A s \in listener'[m][x].rows :
                            /\ s.origin # m
                            /\ EventOf(s) \in event[s.origin][s.origin]
                            /\ EventOf(s) \in event[x][s.origin]
                      /\ \A y \in Node : Gapless(listener'[m][x].rows, y, last'[m][y], event[y][y])
    BY <1>u, Zenon DEF ListenerInv
  <2>0. /\ listener'[m][x].last = listener[m][x].last
        /\ listener'[m][x].rows \subseteq listener[m][x].rows
    BY <1>l, Zenon
  <2>1. ASSUME NEW y \in Node
        PROVE  last[m][y] \in Nat /\ last'[m][y] \in Nat /\ last[m][y] <= last'[m][y]
    BY <1>t, <1>g, Types, SMTT(60)
  <2>2. ASSUME NEW y \in Node PROVE listener'[m][x].last[y] <= last'[m][y]
    <3> listener[m][x].last[y] \in Nat /\ listener[m][x].last[y] <= last[m][y]
      BY <1>t, Types, Zenon DEF EventInv, ListenerInv
    <3> QED
      BY <2>0, <2>1, SMTT(60)
  <2>3. \A s \in listener'[m][x].rows : /\ s.origin # m
                                       /\ EventOf(s) \in event[s.origin][s.origin]
                                       /\ EventOf(s) \in event[x][s.origin]
    BY <2>0, Zenon DEF EventInv, ListenerInv
  <2>4. ASSUME NEW y \in Node
        PROVE  Gapless(listener'[m][x].rows, y, last'[m][y], event[y][y])
    <3> SUFFICES ASSUME NEW s \in listener'[m][x].rows, NEW e \in event[y][y],
                        s.origin = y, e.seq < s.seq, last'[m][y] < e.seq
                 PROVE  [origin |-> y, seq |-> e.seq, kind |-> e.kind] \in listener'[m][x].rows
      BY Zenon DEF Gapless
    <3> DEFINE row == [origin |-> y, seq |-> e.seq, kind |-> e.kind]
    <3>1. e.seq \in Nat /\ last[m][y] < e.seq
      BY <1>t, <2>1, Types, Numbers, SMTT(60)
    <3>2. row \in listener[m][x].rows
      <4> Gapless(listener[m][x].rows, y, last[m][y], event[y][y])
        BY Zenon DEF EventInv, ListenerInv
      <4> QED
        BY <2>0, <3>1, Zenon DEF Gapless
    <3>3. CASE m = n /\ x = p
      <4> row # r
        <5> SUFFICES ASSUME row = r PROVE FALSE
          BY Zenon
        <5> y = o /\ e.seq = r.seq
          BY Zenon
        <5> QED
          BY <1>0, <1>g, <3>1, <3>3, SMTT(60)
      <4> QED
        BY <1>l, <3>2, <3>3, Zenon
    <3> QED
      BY <1>l, <3>2, <3>3, Zenon
  <2> QED
    BY <2>2, <2>3, <2>4, Zenon
<1>5. ConfirmInv'
  <2>1. \A m, x \in Node : listener'[m][x].cons = listener[m][x].cons
    BY <1>l, Zenon
  <2> QED
    BY <1>u, <2>1, SMTT(60) DEF EventInv, ConfirmInv, ConfirmsTrue, MadeBy
<1> QED
  BY <1>u, <1>1, <1>2, <1>3, <1>4, <1>5, Frame, Zenon DEF EventInv

(* The confirmations selected are the provider's, which are true. *)
LEMMA SelectConfirmsInv ==
    ASSUME EventInv, NEW n \in Node, NEW p \in Node, SelectConfirms(n, p)
    PROVE  EventInv'
<1> DEFINE cons == ForwardedBy(n, p)
           first == [Listening EXCEPT !.pc = "confirms"]
           state == [first EXCEPT !.cons = cons]
<1>t. TypeOK
  BY Zenon DEF EventInv
<1>u. UNCHANGED <<sub, listen, seq, event, con, last, queue, confirms, known, worker, grouped, faults>>
  BY Zenon DEF SelectConfirms, dbVars, config
<1>f. faults' \in 0 .. MaxFault
  BY <1>t, <1>u, Zenon DEF TypeOK
<1>1. CASE cons = {}
  <2>1. ListenerOnly(n, p, Listening)
    BY <1>1, <1>f, <1>u, Zenon DEF SelectConfirms, ListenerOnly
  <2> QED
    BY <2>1, ListeningInv, Zenon
<1>2. CASE cons # {}
  <2>1. ASSUME NEW c \in cons PROVE c \in Confirm /\ c.received # n /\ MadeBy(c)
    <3>1. PICK x \in Node \X (Node \ {n}) :
              /\ con[p][x[1]][x[2]] > 0
              /\ c = [origin |-> x[1], received |-> x[2], seq |-> con[p][x[1]][x[2]]]
      BY Zenon DEF ForwardedBy
    <3>2. con[p][x[1]][x[2]] \in Seqno
      <4> DEFINE k == con[p][x[1]][x[2]]
      <4>1. k \in 0 .. MaxSeqno
        BY <1>t DEF TypeOK
      <4>2. k > 0
        BY <3>1, Zenon
      <4> HIDE DEF k
      <4>3. k \in Seqno
        BY <4>1, <4>2, BoundAssumption DEF Seqno
      <4> QED
        BY <4>3, Zenon DEF k
    <3>3. con[p][x[1]][x[2]] <= con[x[2]][x[1]][x[2]]
      BY Zenon DEF EventInv, ConfirmInv, ConfirmsTrue
    <3> QED
      BY <3>1, <3>2, <3>3, Zenon DEF Confirm, MadeBy
  <2>2. first \in Listener /\ first.last = [o \in Node |-> 0] /\ first.rows = {}
    BY BoundAssumption DEF Listening, Listener
  <2>3. SetListener(n, p, state)
    BY <1>2, Zenon DEF SelectConfirms
  <2> HIDE DEF cons, first
  <2>4. /\ state \in Listener
        /\ state.last = [o \in Node |-> 0] /\ state.rows = {} /\ state.cons = cons
    BY <2>1, <2>2, Zenon DEF Listener
  <2> HIDE DEF state
  <2>5. \A o \in Node : state.last[o] <= last[n][o]
    BY <1>t, <2>4, Types, SMTT(60)
  <2>6. \A o \in Node : Gapless(state.rows, o, last[n][o], event[o][o])
    BY <2>4, Zenon DEF Gapless
  <2>7. ListenerOnly(n, p, state)
    BY <1>u, <1>f, <2>3, Zenon DEF ListenerOnly
  <2> QED
    BY <2>1, <2>4, <2>5, <2>6, <2>7, ListenerOnlyInv, Zenon
<1> QED
  BY <1>1, <1>2, Zenon

(* remoteWorker_confirm(): the messages queued are old ones and the new. *)
LEMMA RemoteWorkerConfirmInv ==
    ASSUME EventInv, NEW n \in Node, NEW p \in Node, remoteWorker_confirm(n, p)
    PROVE  EventInv'
<1>t. TypeOK
  BY Zenon DEF EventInv
<1>u. UNCHANGED <<sub, listen, seq, event, con, last, queue, known, worker, grouped, faults>>
  BY Zenon DEF remoteWorker_confirm, dbVars, config
<1>l. /\ Listening \in Listener /\ Listening.rows = {} /\ Listening.cons = {}
      /\ Listening.last = [o \in Node |-> 0]
  BY BoundAssumption, SMTT(60) DEF Listening, Listener
<1>0. /\ listener' = [listener EXCEPT ![n][p] = Listening]
      /\ confirms' = [confirms EXCEPT ![n][p] = Raised(@, listener[n][p].cons)]
  BY Zenon DEF remoteWorker_confirm, SetListener
<1>1. /\ listener' \in [Node -> [Node -> Listener]]
      /\ \A m, x \in Node : listener'[m][x] \in {Listening, listener[m][x]}
  <2> HIDE DEF Listening
  <2> QED
    BY <1>t, <1>0, <1>l, Zenon DEF TypeOK
<1>2. /\ Raised(confirms[n][p], listener[n][p].cons) \subseteq confirms[n][p] \cup listener[n][p].cons
      /\ confirms[n][p] \cup listener[n][p].cons \subseteq Confirm
  BY <1>t, Types, Zenon DEF Raised
<1>3. /\ confirms' \in [Node -> [Node -> SUBSET Confirm]]
      /\ \A m, x \in Node : confirms'[m][x] \subseteq confirms[m][x] \cup listener[m][x].cons
  BY <1>t, <1>0, <1>2, Zenon DEF TypeOK
<1>4. TypeOK'
  <2>1. \A m, x \in Node : ListenFor(m, x)' \subseteq Node \ {m}
    BY <1>t, <1>u, ListenForType, Zenon
  <2> QED
    BY <1>t, <1>u, <1>1, <1>3, <2>1, Zenon DEF TypeOK
<1>5. ListenerInv'
  <2> SUFFICES ASSUME NEW m \in Node, NEW x \in Node
               PROVE  /\ \A o \in Node : listener'[m][x].last[o] <= last[m][o]
                      /\ \A r \in listener'[m][x].rows :
                            /\ r.origin # m
                            /\ EventOf(r) \in event[r.origin][r.origin]
                            /\ EventOf(r) \in event[x][r.origin]
                      /\ \A o \in Node : Gapless(listener'[m][x].rows, o, last[m][o], event[o][o])
    BY <1>u, Zenon DEF ListenerInv
  <2>1. CASE listener'[m][x] = Listening
    <3>1. \A o \in Node : Gapless({}, o, last[m][o], event[o][o])
      BY Zenon DEF Gapless
    <3>2. \A o \in Node : 0 <= last[m][o]
      <4> \A o \in Node : last[m][o] \in Nat
        BY <1>t, Types, Zenon
      <4> QED
        OBVIOUS
    <3> HIDE DEF Listening
    <3> QED
      BY <1>l, <2>1, <3>1, <3>2, Zenon
  <2>2. CASE listener'[m][x] = listener[m][x]
    BY <2>2, Zenon DEF EventInv, ListenerInv
  <2> QED
    BY <1>1, <2>1, <2>2, Zenon
<1>6. ConfirmInv'
  <2>1. ConfirmsTrue'
    BY <1>u, Zenon DEF EventInv, ConfirmInv, ConfirmsTrue
  <2>2. ASSUME NEW m \in Node, NEW x \in Node,
               NEW c \in confirms'[m][x] \cup listener'[m][x].cons
        PROVE  c.received # m /\ MadeBy(c)
    <3>1. c \in confirms[m][x] \cup listener[m][x].cons
      BY <1>1, <1>3, <1>l, Zenon
    <3> QED
      BY <3>1, Zenon DEF EventInv, ConfirmInv
  <2> QED
    BY <1>u, <2>1, <2>2, Zenon DEF ConfirmInv, MadeBy
<1> QED
  BY <1>u, <1>4, <1>5, <1>6, Frame, Zenon DEF EventInv

-----------------------------------------------------------------------------
(* A confirmation that is remembered or stored is one its receiver made. *)
ConfirmTaken(n, o, c) ==
    /\ confirms' = [confirms EXCEPT ![n][o] = @ \ {c}]
    /\ \/ known' = known
       \/ known' = [known EXCEPT ![n][c.origin][c.received] = c.seq]
    /\ \/ con' = con
       \/ con' = [con EXCEPT ![n][c.origin][c.received] = Larger(@, c.seq)]
    /\ UNCHANGED <<sub, listen, seq, event, last, queue, listener, worker, grouped>>
    /\ faults' \in 0 .. MaxFault

(* Taking a confirmation from the queue, whatever becomes of it. *)
LEMMA ConfirmTakenInv ==
    ASSUME EventInv, NEW n \in Node, NEW o \in Node, NEW c \in confirms[n][o],
           ConfirmTaken(n, o, c)
    PROVE  EventInv'
<1>t. TypeOK
  BY Zenon DEF EventInv
<1>u. UNCHANGED <<sub, listen, seq, event, last, queue, listener, worker, grouped>>
  BY Zenon DEF ConfirmTaken
<1>0. /\ c \in Confirm /\ c.seq \in Nat /\ c.origin \in Node /\ c.received \in Node
      /\ c.seq \in 0 .. MaxSeqno
      /\ c.received # n /\ c.seq <= con[c.received][c.origin][c.received]
  <2>1. c \in Confirm
    BY <1>t, Types, Zenon
  <2>2. c.seq \in 0 .. MaxSeqno
    BY <2>1, BoundAssumption DEF Confirm, Seqno
  <2>3. c.received # n /\ MadeBy(c)
    BY Zenon DEF EventInv, ConfirmInv
  <2> QED
    BY <2>1, <2>2, <2>3, Numbers, Zenon DEF MadeBy
(* Only a node itself says what it has received. *)
<1>1. /\ con' \in [Node -> [Node -> [Node -> 0 .. MaxSeqno]]]
      /\ \A m, x, r \in Node : \/ con'[m][x][r] = con[m][x][r]
                               \/ m # r /\ con'[m][x][r] = c.seq /\ x = c.origin /\ r = c.received
  <2>1. CASE con' = con
    BY <1>t, <2>1, Zenon DEF TypeOK
  <2>2. CASE con' = [con EXCEPT ![n][c.origin][c.received] = Larger(@, c.seq)]
    <3>1. Larger(con[n][c.origin][c.received], c.seq) \in {con[n][c.origin][c.received], c.seq}
      BY Zenon DEF Larger
    <3>2. con \in [Node -> [Node -> [Node -> 0 .. MaxSeqno]]]
      BY <1>t, Zenon DEF TypeOK
    <3> DEFINE v == Larger(con[n][c.origin][c.received], c.seq)
    <3>3. v \in 0 .. MaxSeqno
      BY <1>0, <3>1, <3>2
    <3>4. con' = [con EXCEPT ![n][c.origin][c.received] = v]
      BY <2>2, Zenon
    <3>5. \A m, x, r \in Node : \/ con'[m][x][r] = con[m][x][r]
                                \/ con'[m][x][r] = v /\ m = n /\ x = c.origin /\ r = c.received
      <4> HIDE DEF v
      <4> QED
        BY <1>0, <3>2, <3>4
    <3>6. con' \in [Node -> [Node -> [Node -> 0 .. MaxSeqno]]]
      <4> HIDE DEF v
      <4> QED
        BY <1>0, <3>2, <3>3, <3>4, Zenon
    <3> QED
      BY <1>0, <3>1, <3>5, <3>6, SMTT(30)
  <2> QED
    BY <2>1, <2>2, Zenon DEF ConfirmTaken
<1>2. /\ known' \in [Node -> [Node -> [Node -> 0 .. MaxSeqno]]]
      /\ \A m, x, r \in Node : \/ known'[m][x][r] = known[m][x][r]
                               \/ known'[m][x][r] = c.seq /\ x = c.origin /\ r = c.received
  <2>1. known \in [Node -> [Node -> [Node -> 0 .. MaxSeqno]]]
    BY <1>t, Zenon DEF TypeOK
  <2>2. CASE known' = known
    BY <2>1, <2>2, Zenon
  <2>3. CASE known' = [known EXCEPT ![n][c.origin][c.received] = c.seq]
    BY <1>0, <2>1, <2>3
  <2> QED
    BY <2>2, <2>3, Zenon DEF ConfirmTaken
<1>3. /\ confirms' \in [Node -> [Node -> SUBSET Confirm]]
      /\ \A m, x \in Node : confirms'[m][x] \subseteq confirms[m][x]
  <2>1. confirms \in [Node -> [Node -> SUBSET Confirm]]
    BY <1>t, Zenon DEF TypeOK
  <2>2. confirms' = [confirms EXCEPT ![n][o] = @ \ {c}]
    BY Zenon DEF ConfirmTaken
  <2> QED
    BY <2>1, <2>2, Zenon
<1>4. \A m, x \in Node : con'[m][x][m] = con[m][x][m]
  BY <1>1
<1>5. TypeOK'
  <2>1. \A m, x \in Node : ListenFor(m, x)' \subseteq Node \ {m}
    BY <1>t, <1>u, ListenForType, Zenon
  <2>2. faults' \in 0 .. MaxFault
    BY Zenon DEF ConfirmTaken
  <2> QED
    BY <1>t, <1>u, <1>1, <1>2, <1>3, <2>1, <2>2, Zenon DEF TypeOK
<1>6. StoredInv' /\ NoEventSkipped'
  BY <1>u, <1>4, ZenonT(40) DEF EventInv, StoredInv, NoEventSkipped
<1>7. OrderInv' /\ QueueInv'
  <2> \A m, x \in Node : Pipeline(m, x)' = Pipeline(m, x)
    BY <1>u, Zenon DEF Pipeline
  <2> QED
    BY <1>u, <1>4 DEF EventInv, OrderInv, QueueInv, Genuine
<1>8. ConfirmInv'
  <2>1. ConfirmsTrue'
    <3> SUFFICES ASSUME NEW m \in Node, NEW x \in Node, NEW r \in Node
                 PROVE  con'[m][x][r] <= con[r][x][r] /\ known'[m][x][r] <= con[r][x][r]
      BY <1>4, Zenon DEF ConfirmsTrue
    <3>1. con[m][x][r] <= con[r][x][r] /\ known[m][x][r] <= con[r][x][r]
      BY Zenon DEF EventInv, ConfirmInv, ConfirmsTrue
    <3>2. x = c.origin /\ r = c.received => c.seq <= con[r][x][r]
      BY <1>0, Zenon
    <3>3. con'[m][x][r] = con[m][x][r] \/ (con'[m][x][r] = c.seq /\ x = c.origin /\ r = c.received)
      BY <1>1
    <3>4. known'[m][x][r] = known[m][x][r] \/ (known'[m][x][r] = c.seq /\ x = c.origin /\ r = c.received)
      BY <1>2
    <3> QED
      BY <3>1, <3>2, <3>3, <3>4, Zenon
  <2>2. ASSUME NEW m \in Node, NEW x \in Node,
               NEW d \in confirms'[m][x] \cup listener[m][x].cons
        PROVE  d.received # m /\ MadeBy(d)'
    <3>1. d \in confirms[m][x] \cup listener[m][x].cons
      BY <1>3, Zenon
    <3>2. d.received # m /\ MadeBy(d) /\ d.received \in Node /\ d.origin \in Node
      BY <1>t, <3>1, Types, Numbers, Zenon DEF EventInv, ConfirmInv
    <3> QED
      BY <1>4, <3>2, Zenon DEF MadeBy
  <2> QED
    BY <1>u, <2>1, <2>2, Zenon DEF ConfirmInv
<1> QED
  BY <1>u, <1>5, <1>6, <1>7, <1>8, Frame, Zenon DEF EventInv

(* store_confirm_forward(), and its query failing. *)
LEMMA StoreConfirmInv ==
    ASSUME EventInv, NEW n \in Node, NEW o \in Node,
           store_confirm_forward(n, o) \/ StoreConfirmFails(n, o)
    PROVE  EventInv'
<1>1. CASE store_confirm_forward(n, o)
  <2>1. PICK c \in confirms[n][o] :
            /\ TakeConfirm(n, o, c)
            /\ \/ UNCHANGED <<known, con>>
               \/ Remember(n, c) /\ forwardConfirm(n, c)
            /\ UNCHANGED faults
    BY <1>1, Zenon DEF store_confirm_forward
  <2>2. faults' \in 0 .. MaxFault
    BY <2>1, Zenon DEF EventInv, TypeOK
  <2>3. ConfirmTaken(n, o, c)
    BY <2>1, <2>2, Zenon DEF ConfirmTaken, TakeConfirm, Remember, forwardConfirm, config
  <2> QED
    BY <2>3, ConfirmTakenInv, Zenon
<1>2. CASE StoreConfirmFails(n, o)
  <2>1. PICK c \in confirms[n][o] :
            Fault /\ TakeConfirm(n, o, c) /\ Remember(n, c) /\ UNCHANGED con
    BY <1>2, Zenon DEF StoreConfirmFails
  <2>2. faults' \in 0 .. MaxFault
    BY <2>1, BoundAssumption DEF EventInv, TypeOK, Fault
  <2>3. ConfirmTaken(n, o, c)
    BY <2>1, <2>2, Zenon DEF ConfirmTaken, TakeConfirm, Remember, config
  <2> QED
    BY <2>3, ConfirmTakenInv, Zenon
<1> QED
  BY <1>1, <1>2, Zenon

-----------------------------------------------------------------------------
(* Taking events from the queue into the group changes neither their order
   nor which they are. *)
LEMMA SamePipelineInv ==
    ASSUME EventInv, TypeOK', WorkerInv',
           \A m, x \in Node : Pipeline(m, x)' = Pipeline(m, x),
           UNCHANGED <<sub, listen, seq, event, con, last, confirms, known, listener>>
    PROVE  EventInv'
<1>1. OrderInv'
  BY Zenon DEF EventInv, OrderInv
<1>2. QueueInv'
  BY Zenon DEF EventInv, QueueInv, Genuine
<1> QED
  BY <1>1, <1>2, Frame, Zenon DEF EventInv

(* The worker takes the head of its queue in hand. *)
LEMMA TakeEventInv ==
    ASSUME EventInv, NEW n \in Node, NEW o \in Node, TakeEvent(n, o)
    PROVE  EventInv'
<1> DEFINE q == queue[n][o]
           e == Head(q)
           w == [pc |-> IF e.kind = "SYNC" THEN "group" ELSE "apply", group |-> <<e>>]
<1>t. TypeOK
  BY Zenon DEF EventInv
<1>u. UNCHANGED <<sub, listen, seq, event, con, last, confirms, known, listener, grouped, faults>>
  BY Zenon DEF TakeEvent, dbVars, config
<1>0. q # <<>> /\ worker[n][o].pc = "idle" /\ worker' = [worker EXCEPT ![n][o] = w]
      /\ queue' = [queue EXCEPT ![n][o] = Tail(@)]
  BY Zenon DEF TakeEvent
<1>1. q \in Seq(Message) /\ e \in Message /\ Tail(q) \in Seq(Message) /\ <<e>> \in Seq(Message)
  BY <1>t, <1>0, PipelineType, HeadTailProperties, SMTT(30)
<1>2. <<e>> \o Tail(q) = q
  BY <1>0, <1>1
<1>3. worker[n][o].group = <<>>
  BY <1>0, Zenon DEF EventInv, WorkerInv, WellGrouped
<1>4. /\ w \in [pc : {"idle", "group", "apply"}, group : Seq(Message)]
      /\ w.group = <<e>> /\ w.pc \in {"group", "apply"} /\ (w.pc = "group" => e.kind = "SYNC")
  BY <1>1, Zenon
<1> HIDE DEF w
<1>5. /\ worker' \in [Node -> [Node -> [pc : {"idle", "group", "apply"}, group : Seq(Message)]]]
      /\ worker'[n][o] = w
      /\ \A m, x \in Node : m # n \/ x # o => worker'[m][x] = worker[m][x]
  BY <1>t, <1>0, <1>4, Zenon DEF TypeOK
<1>6. /\ queue' \in [Node -> [Node -> Seq(Message)]]
      /\ queue'[n][o] = Tail(q)
      /\ \A m, x \in Node : m # n \/ x # o => queue'[m][x] = queue[m][x]
  BY <1>t, <1>0, <1>1, Zenon DEF TypeOK
<1>7. TypeOK'
  <2>1. \A m, x \in Node : ListenFor(m, x)' \subseteq Node \ {m}
    BY <1>t, <1>u, ListenForType, Zenon
  <2> QED
    BY <1>t, <1>u, <1>5, <1>6, <2>1, Zenon DEF TypeOK
<1>8. WorkerInv'
  <2>1. WellGrouped(w)
    <3> Len(<<e>>) = 1 /\ <<e>>[1] = e /\ <<e>> # <<>>
      BY Zenon
    <3> HIDE DEF e
    <3> QED
      BY <1>4 DEF WellGrouped
  <2> QED
    BY <1>5, <2>1, Zenon DEF EventInv, WorkerInv
<1>9. ASSUME NEW m \in Node, NEW x \in Node PROVE Pipeline(m, x)' = Pipeline(m, x)
  <2>1. CASE m = n /\ x = o
    <3>1. Pipeline(n, o)' = q
      BY <1>2, <1>4, <1>5, <1>6, Zenon DEF Pipeline
    <3>2. Pipeline(n, o) = q
      BY <1>1, <1>3, ConcatEmptySeq, Zenon DEF Pipeline
    <3> QED
      BY <2>1, <3>1, <3>2, Zenon
  <2>2. CASE m # n \/ x # o
    BY <1>5, <1>6, <2>2, Zenon DEF Pipeline
  <2> QED
    BY <2>1, <2>2, Zenon
<1> QED
  BY <1>u, <1>7, <1>8, <1>9, SamePipelineInv, Zenon

(* A queue cut in two is still what it was. *)
LEMMA SplitQueue ==
    ASSUME NEW g \in Seq(Message), NEW q \in Seq(Message), NEW k \in 0 .. Len(q)
    PROVE  /\ SubSeq(q, 1, k) \in Seq(Message)
           /\ SubSeq(q, k + 1, Len(q)) \in Seq(Message)
           /\ g \o SubSeq(q, 1, k) \in Seq(Message)
           /\ Len(g \o SubSeq(q, 1, k)) = Len(g) + k
           /\ \A i \in 1 .. Len(g) : (g \o SubSeq(q, 1, k))[i] = g[i]
           /\ \A i \in Len(g) + 1 .. Len(g) + k : (g \o SubSeq(q, 1, k))[i] = q[i - Len(g)]
           /\ (g \o SubSeq(q, 1, k)) \o SubSeq(q, k + 1, Len(q)) = g \o q
<1> DEFINE a == SubSeq(q, 1, k)
           b == SubSeq(q, k + 1, Len(q))
<1>1. Len(q) \in Nat /\ k \in Nat /\ Len(g) \in Nat
  BY LenProperties
<1>2. \A i \in 1 .. Len(q) : q[i] \in Message
  BY ElementOfSeq, Zenon
<1>3. a \in Seq(Message) /\ Len(a) = k /\ \A i \in 1 .. k : a[i] = q[i]
  <2>1. \A i \in 1 .. k : q[i] \in Message
    BY <1>1, <1>2
  <2>2. /\ a \in Seq(Message) /\ Len(a) = IF 1 <= k THEN k - 1 + 1 ELSE 0
        /\ \A i \in 1 .. k - 1 + 1 : a[i] = q[1 + i - 1]
    BY <1>1, <2>1, SubSeqProperties
  <2> HIDE DEF a
  <2> QED
    BY <1>1, <2>2
<1>4. b \in Seq(Message)
  <2>1. \A i \in k + 1 .. Len(q) : q[i] \in Message
    BY <1>1, <1>2
  <2> QED
    BY <1>1, <2>1, SubSeqProperties
<1>5. a \o b = q
  <2>1. 1 \in 1 .. Len(q) + 1 /\ k \in 1 - 1 .. Len(q) /\ Len(q) \in k .. Len(q)
    BY <1>1
  <2>2. a \o b = SubSeq(q, 1, Len(q))
    BY <2>1, ConcatAdjacentSubSeq, Zenon
  <2> QED
    BY <2>2, SubSeqFull, Zenon
<1> HIDE DEF a, b
<1>6. (g \o a) \o b = g \o q
  <2>1. (g \o a) \o b = g \o (a \o b)
    BY <1>3, <1>4, ConcatAssociative, SMTT(60)
  <2> QED
    BY <1>5, <2>1, Zenon
<1>7. /\ g \o a \in Seq(Message)
      /\ Len(g \o a) = Len(g) + Len(a)
      /\ \A i \in 1 .. Len(g) + Len(a) : (g \o a)[i] = IF i <= Len(g) THEN g[i] ELSE a[i - Len(g)]
  BY <1>3, ConcatProperties, Zenon
<1>8. ASSUME NEW i \in Len(g) + 1 .. Len(g) + k PROVE (g \o a)[i] = q[i - Len(g)]
  <2>1. i \in 1 .. Len(g) + Len(a) /\ ~ (i <= Len(g)) /\ i - Len(g) \in 1 .. k
    BY <1>1, <1>3
  <2> QED
    BY <1>3, <1>7, <2>1, Zenon
<1>9. ASSUME NEW i \in 1 .. Len(g) PROVE (g \o a)[i] = g[i]
  <2>1. i \in 1 .. Len(g) + Len(a) /\ i <= Len(g)
    BY <1>1, <1>3
  <2> QED
    BY <1>7, <2>1, Zenon
<1> QED
  BY <1>3, <1>4, <1>6, <1>7, <1>8, <1>9, Zenon DEF a, b

(* The worker adds the SYNCs that follow to its group. *)
LEMMA GroupSyncsInv ==
    ASSUME EventInv, NEW n \in Node, NEW o \in Node, GroupSyncs(n, o)
    PROVE  EventInv'
<1>t. TypeOK
  BY Zenon DEF EventInv
<1>u. UNCHANGED <<sub, listen, seq, event, con, last, confirms, known, listener, faults>>
  BY Zenon DEF GroupSyncs, dbVars, config
<1> DEFINE q == queue[n][o]
           g == worker[n][o].group
<1>0. PICK k \in 0 .. Len(q) :
          /\ IF confirms[n][o] # {} THEN k = 0 ELSE GroupEndsAt(n, o, k)
          /\ worker' = [worker EXCEPT ![n][o] = [pc |-> "apply", group |-> @.group \o SubSeq(q, 1, k)]]
          /\ queue' = [queue EXCEPT ![n][o] = SubSeq(@, k + 1, Len(@))]
          /\ grouped' = [grouped EXCEPT ![n][o] = k + 1]
  BY Zenon DEF GroupSyncs
<1> DEFINE a == SubSeq(q, 1, k)
           b == SubSeq(q, k + 1, Len(q))
           w == [pc |-> "apply", group |-> g \o a]
<1>1. q \in Seq(Message) /\ g \in Seq(Message) /\ Len(q) \in Nat /\ k \in Nat
  BY <1>t, PipelineType, LenProperties
<1>2. /\ b \in Seq(Message) /\ g \o a \in Seq(Message) /\ Len(g \o a) = Len(g) + k
      /\ \A i \in 1 .. Len(g) : (g \o a)[i] = g[i]
      /\ \A i \in Len(g) + 1 .. Len(g) + k : (g \o a)[i] = q[i - Len(g)]
      /\ (g \o a) \o b = g \o q
  <2> HIDE DEF g, q
  <2> QED
    BY <1>1, SplitQueue, Zenon
<1> HIDE DEF a, b
(* The group before had one SYNC; those added are SYNCs. *)
<1>5. Len(g) = 1 /\ g[1].kind = "SYNC" /\ \A i \in 1 .. k : q[i].kind = "SYNC"
  <2>1. Len(g) = 1 /\ g[1].kind = "SYNC"
    BY Zenon DEF GroupSyncs, EventInv, WorkerInv, WellGrouped
  <2>2. \A i \in 1 .. k : q[i].kind = "SYNC"
    BY <1>0, <1>1, SMTT(30) DEF GroupEndsAt
  <2> QED
    BY <2>1, <2>2, Zenon
<1>6. k + 1 \in 0 .. MaxGroup
  <2>1. grouped[n][o] \in Nat
    BY <1>t, BoundAssumption, SMTT(30) DEF TypeOK
  <2>2. Proposed(n, o) \in Nat /\ Proposed(n, o) <= MaxGroup
    BY <2>1, BoundAssumption DEF Proposed, Larger, Smaller
  <2>3. k = 0 \/ k < Proposed(n, o)
    BY <1>0, Zenon DEF GroupEndsAt
  <2> QED
    BY <1>1, <2>2, <2>3, BoundAssumption
<1>7. WellGrouped(w) /\ w \in [pc : {"idle", "group", "apply"}, group : Seq(Message)]
      /\ w.group = g \o a
  <2> HIDE DEF g, q
  <2>1. ASSUME NEW i \in 1 .. Len(g \o a) PROVE (g \o a)[i].kind = "SYNC"
    <3>1. CASE i = 1
      BY <1>2, <1>5, <3>1, SMTT(30)
    <3>2. CASE i # 1
      <4>1. i \in Len(g) + 1 .. Len(g) + k /\ i - Len(g) \in 1 .. k
        BY <1>1, <1>2, <1>5, <3>2
      <4>2. (g \o a)[i] = q[i - Len(g)]
        BY <1>2, <4>1, Zenon
      <4> QED
        BY <1>5, <4>1, <4>2, Zenon
    <3> QED
      BY <3>1, <3>2, Zenon
  <2>2. g \o a # <<>>
    <3>1. Len(g \o a) # 0
      BY <1>1, <1>2, <1>5
    <3> QED
      BY <3>1, EmptySeq, Zenon
  <2> QED
    BY <1>2, <2>1, <2>2, Zenon DEF WellGrouped
<1>8. /\ worker' \in [Node -> [Node -> [pc : {"idle", "group", "apply"}, group : Seq(Message)]]]
      /\ worker'[n][o] = w
      /\ \A m, x \in Node : m # n \/ x # o => worker'[m][x] = worker[m][x]
  <2>1. worker' = [worker EXCEPT ![n][o] = w]
    BY <1>0, <1>t, Zenon DEF TypeOK, a
  <2> HIDE DEF w
  <2> QED
    BY <1>t, <1>7, <2>1, Zenon DEF TypeOK
<1>9. /\ queue' \in [Node -> [Node -> Seq(Message)]]
      /\ queue'[n][o] = b
      /\ \A m, x \in Node : m # n \/ x # o => queue'[m][x] = queue[m][x]
  <2>1. queue' = [queue EXCEPT ![n][o] = b]
    BY <1>0, <1>t, Zenon DEF TypeOK, b
  <2>2. queue \in [Node -> [Node -> Seq(Message)]] /\ b \in Seq(Message)
    BY <1>t, <1>2, Zenon DEF TypeOK
  <2> QED
    BY <2>1, <2>2, Zenon
<1>10. TypeOK'
  <2>1. \A m, x \in Node : ListenFor(m, x)' \subseteq Node \ {m}
    BY <1>t, <1>u, ListenForType, Zenon
  <2>2. grouped' \in [Node -> [Node -> 0 .. MaxGroup]]
    BY <1>t, <1>0, <1>6, Zenon DEF TypeOK
  <2> QED
    BY <1>t, <1>u, <1>8, <1>9, <2>1, <2>2, Zenon DEF TypeOK
<1>11. WorkerInv'
  BY <1>7, <1>8, Zenon DEF EventInv, WorkerInv
<1>12. ASSUME NEW m \in Node, NEW x \in Node PROVE Pipeline(m, x)' = Pipeline(m, x)
  <2>1. CASE m = n /\ x = o
    BY <1>2, <1>7, <1>8, <1>9, <2>1, Zenon DEF Pipeline
  <2>2. CASE m # n \/ x # o
    BY <1>8, <1>9, <2>2, Zenon DEF Pipeline
  <2> QED
    BY <2>1, <2>2, Zenon
<1> QED
  BY <1>u, <1>10, <1>11, <1>12, SamePipelineInv, Zenon

-----------------------------------------------------------------------------
(* When the group g is done, the rest q of the queue is in order behind it,
   and what was queued is in the one or the other according to its number. *)
LEMMA GroupDone ==
    ASSUME NEW g \in Seq(Message), NEW q \in Seq(Message), g # <<>>,
           NEW c \in Nat, NEW l \in Nat, InOrder(g \o q, c, l)
    PROVE  /\ g[Len(g)] \in Message
           /\ c < g[Len(g)].seq /\ g[Len(g)].seq <= l
           /\ InOrder(q, g[Len(g)].seq, l)
           /\ \A i \in 1 .. Len(g) : g[i].seq <= g[Len(g)].seq
           /\ \A x : Queued(g \o q, x) /\ x.seq <= g[Len(g)].seq => Queued(g, x)
           /\ \A x : Queued(g \o q, x) /\ g[Len(g)].seq < x.seq => Queued(q, x)
<1> DEFINE s == g \o q
           e == g[Len(g)].seq
<1>1. Len(g) \in Nat \ {0} /\ Len(q) \in Nat /\ Len(g) \in 1 .. Len(g)
  BY LenProperties, EmptySeq
<1>2. /\ s \in Seq(Message) /\ Len(s) = Len(g) + Len(q)
      /\ \A i \in 1 .. Len(g) + Len(q) : s[i] = IF i <= Len(g) THEN g[i] ELSE q[i - Len(g)]
  BY ConcatProperties, Zenon
<1> HIDE DEF s
<1>3. ASSUME NEW i \in 1 .. Len(g)
      PROVE  i \in 1 .. Len(s) /\ s[i] = g[i] /\ g[i] \in Message /\ g[i].seq \in Nat
  BY <1>1, <1>2, ElementOfSeq, Numbers
<1>4. ASSUME NEW i \in 1 .. Len(q)
      PROVE  /\ Len(g) + i \in 1 .. Len(s) /\ s[Len(g) + i] = q[i]
             /\ q[i] \in Message /\ q[i].seq \in Nat
  <2>1. Len(g) + i \in 1 .. Len(g) + Len(q) /\ ~ (Len(g) + i <= Len(g)) /\ Len(g) + i - Len(g) = i
    BY <1>1
  <2> QED
    BY <1>2, <2>1, ElementOfSeq, Numbers
<1>o. InOrder(s, c, l)
  BY Zenon DEF s
<1>p. \A i, j \in 1 .. Len(s) : i < j => s[i].seq < s[j].seq
  BY <1>o, Zenon DEF InOrder
<1>5. e \in Nat /\ g[Len(g)] \in Message /\ c < e /\ e <= l
  <2>1. Len(g) \in 1 .. Len(s) /\ s[Len(g)] = g[Len(g)] /\ g[Len(g)] \in Message
    BY <1>1, <1>3, Zenon
  <2>2. s \in Seq(Message)
    BY <1>2, Zenon
  <2>3. c < s[Len(g)].seq /\ s[Len(g)].seq <= l /\ s[Len(g)].seq \in Nat
    BY <1>o, <2>1, <2>2, InOrderBounds, Zenon
  <2> QED
    BY <2>1, <2>3, Zenon
<1>6. ASSUME NEW i \in 1 .. Len(g) PROVE g[i].seq <= e
  <2>1. i < Len(g) => s[i].seq < s[Len(g)].seq
    BY <1>1, <1>3, <1>o, Zenon DEF InOrder
  <2> QED
    BY <1>1, <1>3, <2>1, SMTT(30)
<1>7. ASSUME NEW i \in 1 .. Len(q) PROVE e < q[i].seq
  <2>1. Len(g) \in 1 .. Len(s) /\ Len(g) + i \in 1 .. Len(s) /\ Len(g) < Len(g) + i
    BY <1>1, <1>3, <1>4
  <2>2. s[Len(g)].seq < s[Len(g) + i].seq
    BY <1>p, <2>1, Zenon
  <2> QED
    BY <1>1, <1>3, <1>4, <2>2, Zenon
<1>8. InOrder(q, e, l)
  <2>1. ASSUME NEW i \in 1 .. Len(q), NEW j \in 1 .. Len(q), i < j
        PROVE  q[i].seq < q[j].seq
    <3>1. Len(g) + i \in 1 .. Len(s) /\ Len(g) + j \in 1 .. Len(s) /\ Len(g) + i < Len(g) + j
      BY <1>1, <1>4, <2>1
    <3>2. s[Len(g) + i].seq < s[Len(g) + j].seq
      BY <1>p, <3>1, Zenon
    <3> QED
      BY <1>4, <3>2, Zenon
  <2>2. s # <<>>
    BY <1>1, <1>2, EmptySeq
  <2>3. l = s[Len(s)].seq
    BY <1>o, <2>2, Zenon DEF InOrder
  <2>4. CASE q = <<>>
    <3>1. Len(s) = Len(g)
      BY <1>1, <1>2, <2>4, EmptySeq
    <3> QED
      BY <1>1, <1>3, <1>7, <2>1, <2>3, <2>4, <3>1, Zenon DEF InOrder
  <2>5. CASE q # <<>>
    <3>1. Len(q) \in 1 .. Len(q)
      BY <1>1, <2>5, EmptySeq
    <3>2. l = q[Len(q)].seq
      BY <1>2, <1>4, <2>3, <3>1, Zenon
    <3> QED
      BY <1>7, <2>1, <2>5, <3>2, Zenon DEF InOrder
  <2> QED
    BY <2>4, <2>5, Zenon
<1>9. ASSUME NEW x, Queued(s, x)
      PROVE  (x.seq <= e => Queued(g, x)) /\ (e < x.seq => Queued(q, x))
  <2>1. PICK i \in 1 .. Len(s) : EventOf(s[i]) = x
    BY <1>9, Zenon DEF Queued
  <2>2. x.seq = s[i].seq
    BY <2>1, Zenon DEF EventOf
  <2>3. CASE i <= Len(g)
    <3>1. i \in 1 .. Len(g)
      BY <1>1, <1>2, <2>3
    <3>2. EventOf(g[i]) = x /\ x.seq = g[i].seq
      BY <1>3, <2>1, <2>2, <3>1, Zenon
    <3>3. Queued(g, x)
      BY <3>1, <3>2, Zenon DEF Queued
    <3>4. ~ (e < x.seq)
      BY <1>3, <1>5, <1>6, <3>1, <3>2
    <3> QED
      BY <3>3, <3>4, Zenon
  <2>4. CASE ~ (i <= Len(g))
    <3>1. i - Len(g) \in 1 .. Len(q) /\ s[i] = q[i - Len(g)]
      BY <1>1, <1>2, <2>4
    <3>2. Queued(q, x)
      BY <2>1, <3>1, Zenon DEF Queued
    <3>3. ~ (x.seq <= e)
      BY <1>4, <1>5, <1>7, <2>2, <3>1, SMTT(60)
    <3> QED
      BY <3>2, <3>3, Zenon
  <2> QED
    BY <2>3, <2>4, Zenon
<1> QED
  BY <1>5, <1>6, <1>8, <1>9, Zenon DEF s

(* The transaction that processes a group: afterwards the node has all events
   up to the last of the group, and its data providers have had the SYNCs. *)
LEMMA ProcessEventsInv ==
    ASSUME EventInv, NEW n \in Node, NEW o \in Node, ProcessEvents(n, o)
    PROVE  EventInv'
<1> DEFINE g == worker[n][o].group
           q == queue[n][o]
           e == g[Len(g)]
           added == {[seq |-> m.seq, kind |-> m.kind] : m \in Range(g)}
<1>t. TypeOK
  BY Zenon DEF EventInv
<1>u. UNCHANGED <<sub, listen, seq, last, queue, confirms, known, listener, grouped, faults>>
  BY Zenon DEF ProcessEvents, config
<1>0. /\ worker[n][o].pc = "apply"
      /\ e.kind = "SYNC" => ProvidersReady(n, o, e)
      /\ event' = [event EXCEPT ![n][o] = @ \cup added]
      /\ con' = [con EXCEPT ![n][o][n] = Larger(@, e.seq)]
      /\ worker' = [worker EXCEPT ![n][o] = Waiting]
  BY Zenon DEF ProcessEvents
<1>1. /\ g \in Seq(Message) /\ q \in Seq(Message) /\ g # <<>>
      /\ \A i, j \in 1 .. Len(g) : g[j].kind = "SYNC" => g[i].kind = "SYNC"
  <2>1. g \in Seq(Message) /\ q \in Seq(Message)
    BY <1>t, PipelineType, Zenon
  <2>2. WellGrouped(worker[n][o])
    BY Zenon DEF EventInv, WorkerInv
  <2> QED
    BY <1>0, <2>1, <2>2, Zenon DEF WellGrouped
<1>2. /\ con[n][o][n] \in Nat /\ last[n][o] \in Nat
      /\ InOrder(g \o q, con[n][o][n], last[n][o])
  BY <1>t, Types, Zenon DEF EventInv, OrderInv, Pipeline
<1>3. /\ e \in Message
      /\ con[n][o][n] < e.seq /\ e.seq <= last[n][o]
      /\ InOrder(q, e.seq, last[n][o])
      /\ \A i \in 1 .. Len(g) : g[i].seq <= e.seq
      /\ \A x : Queued(g \o q, x) /\ x.seq <= e.seq => Queued(g, x)
      /\ \A x : Queued(g \o q, x) /\ e.seq < x.seq => Queued(q, x)
  <2> HIDE DEF g, q
  <2> QED
    BY <1>1, <1>2, GroupDone, SMTT(30)
<1>l. Len(g) \in 1 .. Len(g) /\ e.seq \in Nat /\ e.from \in Node
  <2>1. Len(g) \in 1 .. Len(g)
    <3> HIDE DEF g
    <3> QED
      BY <1>1, LenProperties, EmptySeq
  <2>2. e.seq \in Nat /\ e.from \in Node
    <3> HIDE DEF e
    <3> QED
      BY <1>3, Numbers, Zenon
  <2> QED
    BY <2>1, <2>2, Zenon
<1>4. \A x : x \in added <=> Queued(g, x)
  <2>1. Range(g) = {g[i] : i \in 1 .. Len(g)}
    BY <1>1, RangeEquality, Zenon
  <2> HIDE DEF g
  <2> QED
    BY <2>1, Zenon DEF Queued, EventOf
(* What is queued is an event of the origin. *)
<1>5. ASSUME NEW i \in 1 .. Len(g)
      PROVE  n # o /\ Genuine(g[i], o) /\ g[i] \in Message
  <2>1. /\ Len(g \o q) = Len(g) + Len(q) /\ Len(g) \in Nat /\ Len(q) \in Nat
        /\ \A j \in 1 .. Len(g) + Len(q) : (g \o q)[j] = IF j <= Len(g) THEN g[j] ELSE q[j - Len(g)]
    <3> HIDE DEF g, q
    <3> QED
      BY <1>1, ConcatProperties, LenProperties, Zenon
  <2>2. i \in 1 .. Len(Pipeline(n, o)) /\ Pipeline(n, o)[i] = g[i]
    <3> Pipeline(n, o) = g \o q
      BY Zenon DEF Pipeline
    <3> HIDE DEF g, q
    <3> QED
      BY <2>1
  <2> QED
    BY <1>1, <2>2, ElementOfSeq, Zenon DEF EventInv, QueueInv
<1>n. /\ con[n][o][n] \in Nat /\ last[n][o] \in Nat /\ e.seq \in Nat
      /\ con[n][o][n] < e.seq /\ e.seq <= last[n][o]
  BY <1>2, <1>3, <1>l, Zenon
<1>6. n # o
  BY <1>5, <1>l, Zenon
<1>7. ASSUME NEW x \in added
      PROVE  /\ x \in Event /\ x.seq \in Nat /\ x.seq <= e.seq /\ x \in event[o][o]
             /\ x.kind = "SYNC" => e.kind = "SYNC"
  <2>1. PICK i \in 1 .. Len(g) : EventOf(g[i]) = x
    BY <1>4, Zenon DEF Queued
  <2>2. g[i] \in Message /\ Genuine(g[i], o)
    BY <1>5, Zenon
  <2>3. x.seq = g[i].seq /\ x.kind = g[i].kind
    BY <2>1, Zenon DEF EventOf
  <2> QED
    BY <1>1, <1>3, <1>l, <2>1, <2>2, <2>3, Numbers, Zenon DEF Genuine
<1> HIDE DEF added
<1>8. /\ event' \in [Node -> [Node -> SUBSET Event]]
      /\ event'[n][o] = event[n][o] \cup added
      /\ \A m, x \in Node : m # n \/ x # o => event'[m][x] = event[m][x]
      /\ \A m, x \in Node : event[m][x] \subseteq event'[m][x]
  <2> event \in [Node -> [Node -> SUBSET Event]] /\ added \subseteq Event
    BY <1>t, <1>7, Zenon DEF TypeOK
  <2> QED
    BY <1>0, Zenon
<1>9. /\ con' \in [Node -> [Node -> [Node -> 0 .. MaxSeqno]]]
      /\ con'[n][o][n] = e.seq
      /\ \A m, x, r \in Node : m # n \/ x # o \/ r # n => con'[m][x][r] = con[m][x][r]
  <2>1. Larger(con[n][o][n], e.seq) = e.seq
    BY <1>2, <1>3, <1>l, Zenon DEF Larger
  <2>2. con' = [con EXCEPT ![n][o][n] = e.seq]
    BY <1>0, <2>1, Zenon
  <2>3. e.seq \in 0 .. MaxSeqno
    <3> HIDE DEF e
    <3> QED
      BY <1>3, BoundAssumption DEF Message, Seqno
  <2>4. con \in [Node -> [Node -> [Node -> 0 .. MaxSeqno]]]
    BY <1>t, Zenon DEF TypeOK
  <2> HIDE DEF e
  <2> QED
    BY <2>2, <2>3, <2>4
<1>10. /\ worker' \in [Node -> [Node -> [pc : {"idle", "group", "apply"}, group : Seq(Message)]]]
       /\ worker'[n][o] = Waiting /\ Waiting.group = <<>>
       /\ \A m, x \in Node : m # n \/ x # o => worker'[m][x] = worker[m][x]
       /\ WellGrouped(Waiting)
  <2>1. Waiting \in [pc : {"idle", "group", "apply"}, group : Seq(Message)]
    BY EmptySeq, Zenon DEF Waiting
  <2>2. WellGrouped(Waiting) /\ Waiting.group = <<>>
    BY EmptySeq DEF Waiting, WellGrouped
  <2> QED
    BY <1>0, <1>t, <2>1, <2>2, Zenon DEF TypeOK
<1>11. \A m, x \in Node : Pipeline(m, x)' = IF m = n /\ x = o THEN q ELSE Pipeline(m, x)
  <2>1. Pipeline(n, o)' = q
    BY <1>u, <1>1, <1>10, ConcatEmptySeq, Zenon DEF Pipeline
  <2> QED
    BY <1>u, <1>10, <2>1, Zenon DEF Pipeline
<1>12. TypeOK'
  <2>1. \A m, x \in Node : ListenFor(m, x)' \subseteq Node \ {m}
    BY <1>t, <1>u, ListenForType, Zenon
  <2> QED
    BY <1>t, <1>u, <1>8, <1>9, <1>10, <2>1, Zenon DEF TypeOK
<1> HIDE DEF e
<1>13. StoredInv'
  <2>1. \A x \in Node : event'[x][x] = event[x][x]
    BY <1>6, <1>8
  <2>2. ASSUME NEW m \in Node, NEW x \in Node PROVE con'[m][x][m] <= seq[x]
    <3>1. CASE m = n /\ x = o
      <4> e.seq <= seq[o]
        <5> last[n][o] <= seq[o] /\ seq[o] \in Nat
          BY <1>t, Types, NumbersSeen, Zenon
        <5> QED
          BY <1>n, Leq, Zenon
      <4> QED
        BY <1>9, <3>1, Zenon
    <3>2. CASE m # n \/ x # o
      BY <1>9, <3>2 DEF EventInv, StoredInv
    <3> QED
      BY <3>1, <3>2, Zenon
  <2>3. ASSUME NEW m \in Node, NEW x \in Node, m # x, NEW f \in event'[m][x]
        PROVE  f \in event[x][x] /\ f.seq <= con'[m][x][m]
    <3>1. CASE m = n /\ x = o /\ f \in added
      BY <1>7, <1>9, <3>1, Zenon
    <3>2. CASE m = n /\ x = o /\ f \in event[n][o]
      <4>1. f \in event[o][o] /\ f.seq <= con[n][o][n]
        BY <2>3, <3>2, Zenon DEF EventInv, StoredInv
      <4>2. f.seq \in Nat
        BY <1>t, <3>2, Types, Numbers, Zenon
      <4>3. f.seq <= e.seq
        BY <1>n, <4>1, <4>2, LeqLess, Zenon
      <4> QED
        BY <1>9, <3>2, <4>1, <4>3, Zenon
    <3>3. CASE m # n \/ x # o
      <4>1. f \in event[m][x] /\ con'[m][x][m] = con[m][x][m]
        BY <1>8, <1>9, <3>3, SMTT(60)
      <4> QED
        BY <2>3, <4>1, Zenon DEF EventInv, StoredInv
    <3> QED
      BY <1>8, <3>1, <3>2, <3>3, Zenon
  <2> QED
    BY <1>u, <2>1, <2>2, <2>3, Zenon DEF EventInv, StoredInv
<1>14. OrderInv'
  <2> SUFFICES ASSUME NEW m \in Node, NEW x \in Node
               PROVE  InOrder(Pipeline(m, x)', con'[m][x][m], last[m][x])
    BY <1>u, Zenon DEF OrderInv
  <2>1. CASE m = n /\ x = o
    BY <1>3, <1>9, <1>11, <2>1, Zenon
  <2>2. CASE m # n \/ x # o
    BY <1>9, <1>11, <2>2, SMTT(60) DEF EventInv, OrderInv
  <2> QED
    BY <2>1, <2>2, Zenon
<1>15. WorkerInv'
  BY <1>10, Zenon DEF EventInv, WorkerInv
<1>16. QueueInv'
  <2>1. ASSUME NEW m \in Node, NEW x \in Node, NEW i \in 1 .. Len(Pipeline(m, x)')
        PROVE  m # x /\ Genuine(Pipeline(m, x)[i], x)'
    <3>1. PICK j \in 1 .. Len(Pipeline(m, x)) : Pipeline(m, x)'[i] = Pipeline(m, x)[j]
      <4>1. CASE m = n /\ x = o
        <5>1. /\ Len(g \o q) = Len(g) + Len(q) /\ Len(g) \in Nat /\ Len(q) \in Nat
              /\ \A j \in 1 .. Len(g) + Len(q) : (g \o q)[j] = IF j <= Len(g) THEN g[j] ELSE q[j - Len(g)]
          <6> HIDE DEF g, q
          <6> QED
            BY <1>1, ConcatProperties, LenProperties, Zenon
        <5>2. Pipeline(n, o) = g \o q /\ i \in 1 .. Len(q) /\ Pipeline(m, x)'[i] = q[i]
          BY <1>11, <4>1, Zenon DEF Pipeline
        <5> HIDE DEF g, q
        <5>3. /\ Len(g) + i \in 1 .. Len(g) + Len(q) /\ ~ (Len(g) + i <= Len(g))
              /\ Len(g) + i - Len(g) = i
          BY <5>1, <5>2, SMTT(30)
        <5>4. (g \o q)[Len(g) + i] = q[i]
          BY <5>1, <5>3
        <5> QED
          BY <4>1, <5>1, <5>2, <5>3, <5>4, Zenon
      <4>2. CASE m # n \/ x # o
        BY <1>11, <4>2, Zenon
      <4> QED
        BY <4>1, <4>2, Zenon
    <3>2. m # x /\ Genuine(Pipeline(m, x)[j], x) /\ Pipeline(m, x)[j].from \in Node
      BY <1>t, PipelineType, Numbers, Zenon DEF EventInv, QueueInv
    <3> QED
      BY <1>8, <3>1, <3>2, Zenon DEF Genuine
  <2>2. ASSUME NEW m \in Node, NEW x \in Node, m # x
        PROVE  Complete(Pipeline(m, x)', con'[m][x][m], last[m][x], event'[x][x])
    <3>1. event'[x][x] = event[x][x]
      BY <1>6, <1>8
    <3>2. Complete(Pipeline(m, x), con[m][x][m], last[m][x], event[x][x])
      BY <2>2, Zenon DEF EventInv, QueueInv
    <3>3. CASE m = n /\ x = o
      <4> SUFFICES ASSUME NEW f \in event[o][o], e.seq < f.seq, f.seq <= last[n][o]
                   PROVE  Queued(q, f)
        BY <1>9, <1>11, <3>1, <3>3, Zenon DEF Complete
      <4>1. f.seq \in Nat
        BY <1>t, Types, Numbers, Zenon
      <4>2. con[n][o][n] < f.seq
        BY <1>n, <4>1, Less, Zenon
      <4>3. Queued(g \o q, f)
        BY <3>2, <3>3, <4>2, Zenon DEF Complete, Pipeline
      <4> QED
        BY <1>3, <4>3, Zenon
    <3>4. CASE m # n \/ x # o
      BY <1>9, <1>11, <3>1, <3>2, <3>4
    <3> QED
      BY <3>3, <3>4, Zenon
  <2> QED
    BY <1>u, <2>1, <2>2, Zenon DEF QueueInv
<1>17. ListenerInv'
  <2>1. \A x \in Node : event'[x][x] = event[x][x]
    BY <1>6, <1>8
  <2>2. ASSUME NEW m \in Node, NEW x \in Node, NEW r \in listener[m][x].rows
        PROVE  /\ r.origin # m
               /\ EventOf(r) \in event'[r.origin][r.origin]
               /\ EventOf(r) \in event'[x][r.origin]
    <3>1. /\ r.origin # m /\ EventOf(r) \in event[r.origin][r.origin]
          /\ EventOf(r) \in event[x][r.origin] /\ r.origin \in Node
      BY <1>t, Types, Numbers, Zenon DEF EventInv, ListenerInv
    <3> QED
      BY <1>8, <3>1, Zenon
  <2> QED
    BY <1>u, <2>1, <2>2, Zenon DEF EventInv, ListenerInv
<1>18. ConfirmInv'
  <2>0. ASSUME NEW x \in Node, NEW r \in Node
        PROVE  con[r][x][r] \in Nat /\ con'[r][x][r] \in Nat /\ con[r][x][r] <= con'[r][x][r]
    <3>1. con[r][x][r] \in Nat
      BY <1>t, Types, Zenon
    <3>2. CASE r = n /\ x = o
      <4>1. con'[n][o][n] = e.seq /\ con[n][o][n] < e.seq
        BY <1>3, <1>9, Zenon
      <4>2. con'[n][o][n] \in Nat /\ con[n][o][n] <= con'[n][o][n]
        BY <1>n, <4>1, LessIsLeq, Zenon
      <4> QED
        BY <3>1, <3>2, <4>2, Zenon
    <3>3. CASE r # n \/ x # o
      <4> con'[r][x][r] = con[r][x][r]
        BY <1>9, <3>3, SMTT(30)
      <4> QED
        BY <3>1
    <3> QED
      BY <3>2, <3>3, Zenon
  <2>1. ASSUME NEW m \in Node, NEW x \in Node, NEW r \in Node
        PROVE  con'[m][x][r] <= con'[r][x][r] /\ known[m][x][r] <= con'[r][x][r]
    <3>1. /\ con[m][x][r] <= con[r][x][r] /\ known[m][x][r] <= con[r][x][r]
          /\ con[m][x][r] \in Nat /\ known[m][x][r] \in Nat
      BY <1>t, Types, Zenon DEF EventInv, ConfirmInv, ConfirmsTrue
    <3>2. con'[m][x][r] = con[m][x][r] \/ m = r
      BY <1>9, SMTT(30)
    <3> QED
      BY <2>0, <3>1, <3>2
  <2>2. ASSUME NEW m \in Node, NEW x \in Node,
               NEW c \in confirms[m][x] \cup listener[m][x].cons
        PROVE  c.received # m /\ MadeBy(c)'
    <3>1. c.received # m /\ MadeBy(c) /\ c.received \in Node /\ c.origin \in Node /\ c.seq \in Nat
      BY <1>t, Types, Numbers, Zenon DEF EventInv, ConfirmInv
    <3> QED
      BY <2>0, <3>1 DEF MadeBy
  <2> QED
    BY <1>u, <2>1, <2>2, Zenon DEF ConfirmInv, ConfirmsTrue
<1>19. NoEventSkipped'
  <2> SUFFICES ASSUME NEW m \in Node, NEW x \in Node, m # x, NEW f \in event[x][x],
                      f.seq <= con'[m][x][m]
               PROVE  f \in event'[m][x]
    BY <1>6, <1>8, SMTT(60) DEF NoEventSkipped
  <2>1. f.seq \in Nat
    BY <1>t, Types, Numbers, Zenon
  <2>2. CASE f.seq <= con[m][x][m]
    BY <1>8, <2>2, Zenon DEF EventInv, NoEventSkipped
  <2>3. CASE ~ (f.seq <= con[m][x][m])
    <3>1. m = n /\ x = o
      BY <1>9, <2>3
    <3>2. f.seq <= e.seq /\ con[n][o][n] < f.seq
      BY <1>n, <1>9, <2>1, <2>3, <3>1, NotLeq, Zenon
    <3>3. f.seq <= last[n][o]
      BY <1>n, <2>1, <3>2, Leq, Zenon
    <3>4. Queued(g \o q, f)
      BY <3>1, <3>2, <3>3, Zenon DEF EventInv, QueueInv, Complete, Pipeline
    <3>5. f \in added
      BY <1>3, <1>4, <3>2, <3>4, Zenon
    <3> QED
      BY <1>8, <3>1, <3>5, Zenon
  <2> QED
    BY <2>2, <2>3, Zenon
(* A data provider either has confirmed the last SYNC, or is the node it was
   selected from: it has that one, and hence those before. *)
<1>20. ProvidersFirst'
  <2> SUFFICES ASSUME NEW m \in Node, NEW x \in Node, NEW p \in DataProviders(sub, x, m) \ {x},
                      NEW f \in event'[m][x], f.kind = "SYNC"
               PROVE  f \in event'[p][x]
    BY <1>u, Zenon DEF ProvidersFirst
  <2>1. p \in Node
    BY <1>t, ProvidersAreNodes, Zenon
  <2>2. CASE f \in event[m][x]
    <3> f \in event[p][x]
      BY <2>2, Zenon DEF EventInv, ProvidersFirst
    <3> QED
      BY <1>8, <2>1, Zenon
  <2>3. CASE f \notin event[m][x]
    <3>1. m = n /\ x = o /\ f \in added
      BY <1>8, <2>3
    <3>2. f.seq \in Nat /\ f.seq <= e.seq /\ f \in event[o][o] /\ e.kind = "SYNC"
      BY <1>7, <3>1, Zenon
    <3>3. e.seq <= con[p][o][p]
      <4>1. CASE p = e.from
        <5>1. EventOf(e) \in event[p][o]
          BY <1>5, <1>l, <4>1, Zenon DEF Genuine, e
        <5> QED
          BY <2>1, <3>1, <5>1, SMTT(60) DEF EventInv, StoredInv, EventOf
      <4>2. CASE p # e.from
        <5>1. known[n][o][p] >= e.seq
          BY <1>0, <3>1, <3>2, <4>2, Zenon DEF ProvidersReady
        <5>2. known[n][o][p] <= con[p][o][p] /\ known[n][o][p] \in Nat /\ con[p][o][p] \in Nat
          BY <1>t, <2>1, Types, Zenon DEF EventInv, ConfirmInv, ConfirmsTrue
        <5>3. e.seq <= known[n][o][p]
          BY <1>n, <5>1, <5>2, GeqIsLeq, Zenon
        <5> QED
          BY <1>n, <5>2, <5>3, Leq, Zenon
      <4> QED
        BY <4>1, <4>2, Zenon
    <3>4. f.seq <= con[p][o][p]
      <4> con[p][o][p] \in Nat
        BY <1>t, <2>1, Types, Zenon
      <4> QED
        BY <1>n, <3>2, <3>3, Leq, Zenon
    <3>5. f \in event[p][o]
      BY <2>1, <3>1, <3>2, <3>4, Zenon DEF EventInv, NoEventSkipped
    <3> QED
      BY <1>8, <2>1, <3>1, <3>5, Zenon
  <2> QED
    BY <2>2, <2>3, Zenon
<1> QED
  BY <1>12, <1>13, <1>14, <1>15, <1>16, <1>17, <1>18, <1>19, <1>20 DEF EventInv

-----------------------------------------------------------------------------
(* The delivery of events: whatever is created, selected, queued, grouped and
   processed, in whichever order the threads run, fail and restart. *)
THEOREM EventSafety == Spec => []EventInv
<1>1. EventInv /\ [Next]_vars => EventInv'
  <2> SUFFICES ASSUME EventInv, [Next]_vars PROVE EventInv'
    BY Zenon
  <2>1. ASSUME NEW o \in Node, NEW k \in Kind, CreateEvent(o, k) PROVE EventInv'
    BY <2>1, CreateEventInv, Zenon
  <2>2. ASSUME NEW o \in Node, RollBackEvent(o) PROVE EventInv'
    BY <2>2, RollBackEventInv, Zenon
  <2>3. ASSUME NEW n \in Slon, NEW p \in Node, ListenerNext(n, p) PROVE EventInv'
    BY Zenon, <2>3, SubAssumption, BuildQueryInv, SelectEventsInv, RemoteWorkerEventInv,
       SelectConfirmsInv, RemoteWorkerConfirmInv DEF ListenerNext
  <2>4. ASSUME NEW n \in Slon, NEW p \in Node, Disconnect(n, p) PROVE EventInv'
    BY <2>4, SubAssumption, DisconnectInv, Zenon
  <2>5. ASSUME NEW n \in Slon, NEW p \in Node, WorkerNext(n, p) PROVE EventInv'
    BY <2>5, SubAssumption, StoreConfirmInv, TakeEventInv, GroupSyncsInv, ProcessEventsInv, ZenonT(40)
       DEF WorkerNext
  <2>6. ASSUME NEW n \in Slon, NEW p \in Node, StoreConfirmFails(n, p) PROVE EventInv'
    BY <2>6, SubAssumption, StoreConfirmInv, Zenon
  <2>7. ASSUME NEW n \in Slon, Restart(n) PROVE EventInv'
    BY <2>7, SubAssumption, RestartInv, Zenon
  <2>8. CASE UNCHANGED vars
    <3>1. UNCHANGED <<sub, listen, seq, event, con, last, queue, confirms, known, listener, worker,
                      grouped, faults>>
      BY <2>8, Zenon DEF vars
    <3>2. TypeOK'
      <4>1. \A m, x \in Node : ListenFor(m, x)' \subseteq Node \ {m}
        BY <3>1, ListenForType, Zenon DEF EventInv
      <4> QED
        BY <3>1, <4>1, Zenon DEF EventInv, TypeOK
    <3> QED
      BY <3>1, <3>2, Frame, Zenon DEF EventInv
  <2> QED
    BY <2>1, <2>2, <2>3, <2>4, <2>5, <2>6, <2>7, <2>8, Zenon DEF Next
<1> QED
  BY <1>1, InitEventInv, PTL DEF Spec

(* Every value has its type. *)
THEOREM EventTypes == Spec => []TypeOK
<1>1. EventInv => TypeOK
  BY Zenon DEF EventInv
<1> QED
  BY <1>1, EventSafety, PTL

(* No event is lost on the way to a node that has confirmed a later one. *)
THEOREM EventsComplete == Spec => []NoEventSkipped
<1>1. EventInv => NoEventSkipped
  BY Zenon DEF EventInv
<1> QED
  BY <1>1, EventSafety, PTL

(* Racing listeners queue no event twice or out of order. *)
THEOREM EventsOnceInOrder == Spec => []QueuedOnceInOrder
<1>1. EventInv => QueuedOnceInOrder
  <2> SUFFICES ASSUME EventInv, NEW n \in Node, NEW o \in Node
               PROVE  LET q == Pipeline(n, o)
                      IN  /\ \A i \in 1 .. Len(q) - 1 : q[i].seq < q[i + 1].seq
                          /\ q # <<>> => con[n][o][n] < q[1].seq
                          /\ last[n][o] = IF q = <<>> THEN con[n][o][n] ELSE q[Len(q)].seq
    BY Zenon DEF QueuedOnceInOrder
  <2> DEFINE q == Pipeline(n, o)
  <2>1. q \in Seq(Message) /\ Len(q) \in Nat
    BY PipelineType, Zenon DEF EventInv
  <2>2. InOrder(q, con[n][o][n], last[n][o])
    BY Zenon DEF EventInv, OrderInv
  <2> HIDE DEF q
  <2>3. ASSUME NEW i \in 1 .. Len(q) - 1 PROVE q[i].seq < q[i + 1].seq
    <3> i \in 1 .. Len(q) /\ i + 1 \in 1 .. Len(q) /\ i < i + 1
      BY <2>1
    <3> QED
      BY <2>2, Zenon DEF InOrder
  <2>4. q # <<>> => con[n][o][n] < q[1].seq
    <3> q # <<>> => 1 \in 1 .. Len(q)
      BY <2>1, EmptySeq
    <3> QED
      BY <2>2, Zenon DEF InOrder
  <2>5. last[n][o] = IF q = <<>> THEN con[n][o][n] ELSE q[Len(q)].seq
    BY <2>2, Zenon DEF InOrder
  <2> QED
    BY <2>3, <2>4, <2>5, Zenon DEF q
<1> QED
  BY <1>1, EventSafety, PTL

(* A confirmation that is stored or remembered anywhere has been committed by
   the node that it speaks of. *)
THEOREM ConfirmationsTrue == Spec => []ConfirmsTrue
<1>1. EventInv => ConfirmsTrue
  BY Zenon DEF EventInv, ConfirmInv
<1> QED
  BY <1>1, EventSafety, PTL

(* A subscriber processes a SYNC after its data providers. *)
THEOREM SyncsFollowProviders == Spec => []ProvidersFirst
<1>1. EventInv => ProvidersFirst
  BY Zenon DEF EventInv
<1> QED
  BY <1>1, EventSafety, PTL

-----------------------------------------------------------------------------
(* The abstract delivery of events. *)

(* A step that leaves sl_event and sl_confirm alone is none of it. *)
LEMMA DeliverNothing ==
    ASSUME UNCHANGED <<sub, event, con>>
    PROVE  UNCHANGED Delivered!abstractVars
BY Zenon DEF Delivered!abstractVars

(* Creating an event makes one, newer than those there are. *)
LEMMA CreateEventMakes ==
    ASSUME EventInv, NEW o \in Node, NEW k \in Kind, CreateEvent(o, k)
    PROVE  Delivered!Next
<1> DEFINE e == [seq |-> seq[o] + 1, kind |-> k]
<1>1. /\ event' = [event EXCEPT ![o][o] = @ \cup {e}]
      /\ UNCHANGED <<sub, con>>
  BY Zenon DEF CreateEvent, config
<1>2. e \in Event /\ e.seq = seq[o] + 1
  <2> seq[o] \in 0 .. MaxSeqno /\ seq[o] < MaxSeqno
    BY Zenon DEF EventInv, TypeOK, CreateEvent, WithinBudget
  <2> QED
    BY BoundAssumption DEF Event, Seqno
<1>3. ASSUME NEW f \in event[o][o] PROVE f.seq < e.seq
  <2>1. f.seq <= seq[o] /\ f.seq \in Nat /\ seq[o] \in Nat
    BY Types, Numbers, Zenon DEF EventInv, StoredInv
  <2> QED
    BY <1>2, <2>1
<1> HIDE DEF e
<1>4. event \in [Node -> [Node -> SUBSET Event]]
  BY Zenon DEF EventInv, TypeOK
<1>5. /\ event'[o][o] = event[o][o] \cup {e}
      /\ \A m, x \in Node : m # o \/ x # o => event'[m][x] = event[m][x]
  BY <1>1, <1>4, Zenon
<1>6. [x \in Node |-> event[x][x]]' = [[x \in Node |-> event[x][x]] EXCEPT ![o] = @ \cup {e}]
  BY <1>5, Zenon
<1>7. \A m \in Node : \A x \in Node \ {m} : event'[m][x] = event[m][x]
  <2> SUFFICES ASSUME NEW m \in Node, NEW x \in Node, x # m PROVE event'[m][x] = event[m][x]
    BY Zenon
  <2>1. m # o \/ x # o
    BY Zenon
  <2> QED
    BY <1>5, <2>1, Zenon
<1>8. [m \in Node |-> [x \in Node \ {m} |-> event[m][x]]]' =
      [m \in Node |-> [x \in Node \ {m} |-> event[m][x]]]
  BY <1>7, Zenon
<1>9. \A f \in [x \in Node |-> event[x][x]][o] : f.seq < e.seq
  BY <1>3, Zenon
<1>10. Delivered!Make(o)
  BY <1>1, <1>2, <1>6, <1>8, <1>9, ZenonT(40) DEF Delivered!Make
<1> QED
  BY <1>10, Zenon DEF Delivered!Next

(* Processing a group is to process all events up to its last one. *)
LEMMA ProcessEventsProcesses ==
    ASSUME EventInv, EventInv', NEW n \in Node, NEW o \in Node, ProcessEvents(n, o)
    PROVE  Delivered!Next
<1> DEFINE g == worker[n][o].group
           q == queue[n][o]
           m == g[Len(g)]
           e == EventOf(m)
<1>t. TypeOK
  BY Zenon DEF EventInv
<1>0. /\ UNCHANGED sub
      /\ \E added : event' = [event EXCEPT ![n][o] = @ \cup added]
      /\ con' = [con EXCEPT ![n][o][n] = Larger(@, m.seq)]
      /\ worker[n][o].pc = "apply"
  BY Zenon DEF ProcessEvents, config
<1>1. /\ g \in Seq(Message) /\ q \in Seq(Message) /\ g # <<>>
      /\ con[n][o][n] \in Nat /\ last[n][o] \in Nat
      /\ InOrder(g \o q, con[n][o][n], last[n][o])
  BY <1>t, <1>0, PipelineType, Types, ZenonT(40)
     DEF EventInv, WorkerInv, WellGrouped, OrderInv, Pipeline
<1>2. m \in Message /\ con[n][o][n] < m.seq
  <2> HIDE DEF g, q
  <2> QED
    BY <1>1, GroupDone, SMTT(30)
<1>3. Len(g) \in 1 .. Len(g \o q) /\ (g \o q)[Len(g)] = g[Len(g)]
  <2> HIDE DEF g, q
  <2> QED
    BY <1>1, ConcatProperties, LenProperties, EmptySeq, SMTT(30)
<1>4. n # o /\ e \in event[o][o]
  BY <1>3, Zenon DEF EventInv, QueueInv, Genuine, Pipeline
<1>5. e.seq = m.seq /\ e.kind = m.kind
  BY Zenon DEF EventOf
<1> HIDE DEF g, q, m, e
<1>6. Larger(con[n][o][n], m.seq) = e.seq
  BY <1>2, <1>5, Zenon DEF Larger
<1>7. con' = [con EXCEPT ![n][o][n] = e.seq]
  BY <1>0, <1>6, Zenon
<1>8. con'[n][o][n] = e.seq
  <2> con \in [Node -> [Node -> [Node -> 0 .. MaxSeqno]]]
    BY <1>t, Zenon DEF TypeOK
  <2> QED
    BY <1>7, Zenon
<1>9. \A x, y \in Node : x # n \/ y # o => event'[x][y] = event[x][y]
  <2>1. event \in [Node -> [Node -> SUBSET Event]]
    BY <1>t, Zenon DEF TypeOK
  <2>2. PICK added : event' = [event EXCEPT ![n][o] = @ \cup added]
    BY <1>0, Zenon
  <2> QED
    BY <2>1, <2>2, Zenon
<1>10. event'[n][o] = {f \in event[o][o] : f.seq <= e.seq}
  <2>1. event'[o][o] = event[o][o]
    BY <1>4, <1>9, Zenon
  <2>2. \A f \in event'[n][o] : f \in event[o][o] /\ f.seq <= e.seq
    BY <1>4, <1>8, <2>1, Zenon DEF EventInv, StoredInv
  <2>3. \A f \in event[o][o] : f.seq <= e.seq => f \in event'[n][o]
    BY <1>4, <1>8, <2>1, Zenon DEF EventInv, NoEventSkipped
  <2> QED
    BY <2>2, <2>3, Zenon
<1>11. ASSUME e.kind = "SYNC", NEW p \in DataProviders(sub, o, n) \ {o}
       PROVE  p \in Node /\ e \in event[p][o]
  <2>1. p \in Node
    BY <1>t, ProvidersAreNodes, Zenon
  <2>2. p # n
    BY <1>t, SubAssumption, PathAssumption, Zenon DEF TypeOK, DataProviders
  <2>3. e \in event'[n][o]
    <3> e.seq <= e.seq
      BY <1>2, <1>5, Numbers
    <3> QED
      BY <1>4, <1>10, Zenon
  <2>4. e \in event'[p][o]
    BY <1>0, <1>11, <2>3, Zenon DEF EventInv, ProvidersFirst
  <2> QED
    BY <1>9, <2>1, <2>2, <2>4, Zenon
<1> DEFINE made == [x \in Node |-> event[x][x]]
           got == [x \in Node |-> [y \in Node \ {x} |-> event[x][y]]]
           feeds == [x \in Node |-> [y \in Node |-> DataProviders(sub, y, x) \ {y}]]
<1>12. made' = made /\ feeds' = feeds
  BY <1>0, <1>4, <1>9, Zenon
<1>13. got' = [got EXCEPT ![n][o] = {f \in made[o] : f.seq <= e.seq}]
  <2> DEFINE G == [got EXCEPT ![n][o] = event'[n][o]]
  <2>1. made[o] = event[o][o]
    BY Zenon
  <2>2. got[n] = [y \in Node \ {n} |-> event[n][y]]
    BY Zenon
  <2>3. G = [x \in Node |-> IF x = n THEN [got[n] EXCEPT ![o] = event'[n][o]] ELSE got[x]]
    BY Zenon
  <2>4. [got[n] EXCEPT ![o] = event'[n][o]] = [y \in Node \ {n} |-> event'[n][y]]
    BY <1>4, <1>9, <2>2, Zenon
  <2>5. \A x \in Node : x # n => got[x] = [y \in Node \ {x} |-> event'[x][y]]
    BY <1>9, Zenon
  <2>6. got' = [x \in Node |-> [y \in Node \ {x} |-> event'[x][y]]]
    BY Zenon
  <2>7. \A x \in Node : (IF x = n THEN [got[n] EXCEPT ![o] = event'[n][o]] ELSE got[x]) =
                        [y \in Node \ {x} |-> event'[x][y]]
    BY <2>4, <2>5, Zenon
  <2> HIDE DEF got
  <2>8. G = got'
    BY <2>3, <2>6, <2>7, Zenon
  <2> QED
    BY <1>10, <2>1, <2>8, Zenon
<1>14. e.kind = "SYNC" => \A p \in feeds[n][o] : e \in got[p][o]
  <2> SUFFICES ASSUME e.kind = "SYNC", NEW p \in DataProviders(sub, o, n) \ {o}
               PROVE  e \in got[p][o]
    BY Zenon
  <2>1. p \in Node /\ e \in event[p][o] /\ o \in Node \ {p}
    BY <1>11, Zenon
  <2> QED
    BY <2>1, Zenon
<1>15. e \in made[o] /\ con[n][o][n] < e.seq
  BY <1>2, <1>4, <1>5, Zenon
<1> HIDE DEF made, got, feeds
<1> QED
  BY <1>4, <1>7, <1>12, <1>13, <1>14, <1>15, Zenon
     DEF Delivered!Next, Delivered!Process, made, got, feeds

(* Storing the confirmation of another node is to hear of it. *)
LEMMA StoreConfirmHears ==
    ASSUME EventInv, NEW n \in Node, NEW o \in Node, store_confirm_forward(n, o)
    PROVE  Delivered!Next \/ UNCHANGED Delivered!abstractVars
<1>t. TypeOK
  BY Zenon DEF EventInv
<1>1. PICK c \in confirms[n][o] :
          /\ UNCHANGED <<sub, event>>
          /\ con' = con \/ con' = [con EXCEPT ![n][c.origin][c.received] = Larger(@, c.seq)]
  BY Zenon DEF store_confirm_forward, TakeConfirm, forwardConfirm, config
<1>2. c.origin \in Node /\ c.received \in Node /\ c.seq \in Nat
  BY <1>t, Types, Numbers, Zenon
<1>3. c.received # n /\ c.seq <= con[c.received][c.origin][c.received]
  BY Zenon DEF EventInv, ConfirmInv, MadeBy
<1> DEFINE old == con[n][c.origin][c.received]
<1>4. old \in Nat /\ con[c.received][c.origin][c.received] \in Nat
  BY <1>t, <1>2, Types, Zenon
<1>5. CASE con' = con
  BY <1>1, <1>5, DeliverNothing, Zenon
<1>6. CASE con' = [con EXCEPT ![n][c.origin][c.received] = Larger(@, c.seq)] /\ ~ (old < c.seq)
  <2>1. con' = [con EXCEPT ![n][c.origin][c.received] = @]
    BY <1>6, Zenon DEF Larger
  <2>2. con \in [Node -> [Node -> [Node -> 0 .. MaxSeqno]]]
    BY <1>t, Zenon DEF TypeOK
  <2>3. con' = con
    BY <1>2, <2>1, <2>2, ZenonT(30)
  <2> QED
    BY <1>1, <2>3, DeliverNothing, Zenon
<1>7. CASE con' = [con EXCEPT ![n][c.origin][c.received] = Larger(@, c.seq)] /\ old < c.seq
  <2>1. con' = [con EXCEPT ![n][c.origin][c.received] = c.seq]
    BY <1>7, Zenon DEF Larger
  <2>2. c.seq \in old + 1 .. con[c.received][c.origin][c.received]
    <3> HIDE DEF old
    <3> QED
      BY <1>2, <1>3, <1>4, <1>7
  <2>3. c.received \in Node \ {n}
    BY <1>2, <1>3, Zenon
  <2>4. /\ UNCHANGED [x \in Node |-> [y \in Node |-> DataProviders(sub, y, x) \ {y}]]
        /\ UNCHANGED [x \in Node |-> event[x][x]]
        /\ UNCHANGED [x \in Node |-> [y \in Node \ {x} |-> event[x][y]]]
    BY <1>1, Zenon
  <2> QED
    BY <1>2, <2>1, <2>2, <2>3, <2>4, Zenon DEF Delivered!Next, Delivered!Hear
<1> QED
  BY <1>1, <1>5, <1>6, <1>7, Zenon

(* The delivery of events by the threads of the slon processes implements the
   abstract one: listeners, queues, groups, faults and restarts cannot be
   seen in sl_event and sl_confirm. *)
THEOREM EventQueueImplementsDelivery == Spec => ImplementsDelivery
<1>1. Init => Delivered!Init
  <2> SUFFICES ASSUME Init PROVE Delivered!Init
    BY Zenon
  <2>1. TypeOK
    BY InitEventInv, Zenon DEF EventInv
  <2>2. [n \in Node |-> [o \in Node |-> DataProviders(sub, o, n) \ {o}]]
            \in [Node -> [Node -> SUBSET Node]]
    BY <2>1, ProvidersAreNodes, Zenon
  <2>3. /\ \A n, o \in Node : event[n][o] = {}
        /\ con = [n \in Node |-> [o \in Node |-> [r \in Node |-> 0]]]
    BY Zenon DEF Init, None
  <2>4. /\ [o \in Node |-> event[o][o]] = [o \in Node |-> {}]
        /\ [n \in Node |-> [o \in Node \ {n} |-> event[n][o]]] =
           [n \in Node |-> [o \in Node \ {n} |-> {}]]
    BY <2>3, Zenon
  <2> QED
    BY <2>2, <2>3, <2>4, Zenon DEF Delivered!Init
<1>2. ASSUME EventInv, EventInv', [Next]_vars
      PROVE  Delivered!Next \/ UNCHANGED Delivered!abstractVars
  <2>1. ASSUME NEW o \in Node, NEW k \in Kind, CreateEvent(o, k) PROVE Delivered!Next
    BY <1>2, <2>1, CreateEventMakes, Zenon
  <2>2. ASSUME NEW n \in Slon, NEW o \in Node, ProcessEvents(n, o) PROVE Delivered!Next
    BY <1>2, <2>2, ProcessEventsProcesses, SubAssumption, Zenon
  <2>3. ASSUME NEW n \in Slon, NEW o \in Node, store_confirm_forward(n, o)
        PROVE  Delivered!Next \/ UNCHANGED Delivered!abstractVars
    BY <1>2, <2>3, StoreConfirmHears, SubAssumption, Zenon
  <2>4. ASSUME NEW o \in Node, RollBackEvent(o) PROVE UNCHANGED <<sub, event, con>>
    BY <2>4, Zenon DEF RollBackEvent, config
  <2>5. ASSUME NEW n \in Slon, NEW p \in Node, ListenerNext(n, p) \/ Disconnect(n, p)
        PROVE  UNCHANGED <<sub, event, con>>
    BY <2>5, Zenon DEF ListenerNext, BuildQuery, SelectEvents, remoteWorker_event, SelectConfirms,
       remoteWorker_confirm, Disconnect, dbVars, config
  <2>6. ASSUME NEW n \in Slon, NEW o \in Node,
               TakeEvent(n, o) \/ GroupSyncs(n, o) \/ StoreConfirmFails(n, o)
        PROVE  UNCHANGED <<sub, event, con>>
    BY <2>6, Zenon DEF TakeEvent, GroupSyncs, StoreConfirmFails, TakeConfirm, dbVars, config
  <2>7. ASSUME NEW n \in Slon, Restart(n) PROVE UNCHANGED <<sub, event, con>>
    BY <2>7, Zenon DEF Restart, dbVars, config
  <2>8. CASE UNCHANGED vars
    BY <2>8, DeliverNothing, Zenon DEF vars
  <2> QED
    BY <1>2, <2>1, <2>2, <2>3, <2>4, <2>5, <2>6, <2>7, <2>8, DeliverNothing, Zenon
       DEF Next, WorkerNext
<1>3. EventInv /\ EventInv' /\ [Next]_vars => [Delivered!Next]_Delivered!abstractVars
  BY <1>2, Zenon
<1> QED
  BY <1>1, <1>3, EventSafety, PTL DEF Spec, ImplementsDelivery, Delivered!Spec
=============================================================================
