--------------------------- MODULE SetCopyProofs ---------------------------
(***************************************************************************)
(* The copy of a set meets the stream of its SYNCs: CopyInv is inductive   *)
(* relative to ShapeInv, and implies CopyMeetsStream.                      *)
(***************************************************************************)
EXTENDS ShippingTypeProofs

(* What the origin does keeps what is known of its subscribers: it only adds
   transactions, rows and events. *)

Grows ==
    /\ UNCHANGED <<setup, sub>>
    /\ Len(xact') \in Nat /\ Len(xact) <= Len(xact') /\ DOMAIN xact' = 1 .. Len(xact')
    /\ \A x \in DOMAIN xact : x \in DOMAIN xact' /\ (xact[x] = "done" => xact'[x] = "done")
    /\ \A x \in DOMAIN xact' : x \in DOMAIN xact \/ x = Len(xact) + 1
    /\ \A a \in DOMAIN log : a \in DOMAIN log' /\ log'[a] = log[a]
    /\ \A a \in DOMAIN log' : a \in DOMAIN log \/ log'[a] = Len(xact) + 1
    /\ Len(event') \in Nat /\ Len(event) <= Len(event') /\ DOMAIN event' = 1 .. Len(event')
    /\ \A i \in DOMAIN event : i \in DOMAIN event' /\ event'[i] = event[i]
    /\ \A i \in DOMAIN event' :
           i \in DOMAIN event \/ (i = Len(event) + 1 /\ making # NoEvent /\ event'[i] = making)
    /\ making' # NoEvent =>
           /\ event' = event
           /\ \/ making' = making
              \/ /\ making' \in Event /\ making'.snap = Snapshot
                 /\ making'.type = "ENABLE_SUBSCRIPTION" =>
                        /\ making'.node \in Receiver /\ ~EnabledFor(making'.node)
                        /\ \/ setup.provider[making'.node] = Origin
                           \/ EnabledFor(setup.provider[making'.node])

LEMMA GrowsCreate ==
    ASSUME ShapeInv, NEW type \in {"SYNC", "ENABLE_SUBSCRIPTION"}, NEW node \in Nat,
           createEvent(type, node),
           type = "ENABLE_SUBSCRIPTION" =>
               /\ node \in Receiver /\ ~EnabledFor(node)
               /\ setup.provider[node] = Origin \/ EnabledFor(setup.provider[node])
    PROVE  Grows
<1>1. /\ making' \in Event /\ making'.type = type /\ making'.node = node
      /\ making'.snap = Snapshot /\ xact' = Append(xact, "open")
      /\ UNCHANGED <<setup, log, event, sub>>
    BY CreatedFacts, Zenon
<1>2. xact \in Seq({"open", "done"}) /\ "open" \in {"open", "done"}
    BY Zenon DEF ShapeInv
<1>3. /\ Len(xact') = Len(xact) + 1 /\ Len(xact) \in Nat
      /\ \A i \in DOMAIN xact : i \in DOMAIN xact' /\ xact'[i] = xact[i]
      /\ \A i \in DOMAIN xact' : i \in DOMAIN xact \/ i = Len(xact) + 1
    BY <1>1, <1>2, SeqGrows
<1>4. Len(xact') \in Nat /\ Len(xact) <= Len(xact') /\ DOMAIN xact' = 1 .. Len(xact')
    BY <1>1, <1>2, <1>3
<1>5. Len(event') \in Nat /\ Len(event) <= Len(event') /\ DOMAIN event' = 1 .. Len(event')
    BY <1>1, SeqFacts
<1> QED BY <1>1, <1>3, <1>4, <1>5, Zenon DEF Grows

LEMMA GrowsOrigin ==
    ASSUME ShapeInv, OriginStep
    PROVE  Grows
<1>0. /\ xact \in Seq({"open", "done"}) /\ "open" \in {"open", "done"} /\ log \in Seq(Nat)
      /\ Len(xact) \in Nat /\ DOMAIN xact = 1 .. Len(xact)
      /\ \A a \in DOMAIN log : log[a] \in DOMAIN xact
      /\ Len(event) \in Nat /\ DOMAIN event = 1 .. Len(event) /\ Len(event) <= Len(event)
    BY SeqFacts DEF ShapeInv
<1>1. CASE Insert
    <2>1. xact' = Append(xact, "open") /\ log' = Append(log, Len(xact) + 1)
          /\ UNCHANGED <<setup, event, making, sub>>
        BY <1>1, Zenon DEF Insert
    <2>2. /\ Len(xact') = Len(xact) + 1
          /\ \A i \in DOMAIN xact : i \in DOMAIN xact' /\ xact'[i] = xact[i]
          /\ \A i \in DOMAIN xact' : i \in DOMAIN xact \/ i = Len(xact) + 1
        BY <1>0, <2>1, SeqGrows
    <2>3. Len(xact') \in Nat /\ Len(xact) <= Len(xact') /\ DOMAIN xact' = 1 .. Len(xact')
        BY <1>0, <2>1, <2>2
    <2>4. Len(xact) + 1 \in Nat
        BY <1>0
    <2>5. /\ log'[Len(log) + 1] = Len(xact) + 1
          /\ \A a \in DOMAIN log : a \in DOMAIN log' /\ log'[a] = log[a]
          /\ \A a \in DOMAIN log' : a \in DOMAIN log \/ a = Len(log) + 1
        BY <1>0, <2>1, <2>4, SeqGrows
    <2> QED BY <1>0, <2>1, <2>2, <2>3, <2>5, Zenon DEF Grows
<1>2. CASE CommitInsert
    <2>1. PICK b \in DOMAIN log :
              /\ xact' = [xact EXCEPT ![log[b]] = "done"]
              /\ UNCHANGED <<setup, log, event, making, sub>>
        BY <1>2, Zenon DEF CommitInsert
    <2>2. /\ Len(xact') = Len(xact) /\ DOMAIN xact' = DOMAIN xact
          /\ \A x \in DOMAIN xact : xact[x] = "done" => xact'[x] = "done"
        BY <1>0, <2>1
    <2>3. Len(xact) <= Len(xact') BY <1>0, <2>2
    <2> QED BY <1>0, <2>1, <2>2, <2>3, Zenon DEF Grows
<1>3. CASE CreateSync
    <2>1. createEvent("SYNC", Origin) BY <1>3, Zenon DEF CreateSync
    <2>2. Origin \in Nat BY DEF Origin
    <2>3. "SYNC" # "ENABLE_SUBSCRIPTION" OBVIOUS
    <2> QED BY <2>1, <2>2, <2>3, GrowsCreate, Zenon
<1>4. CASE subscribeSet BY <1>4, SubscribeFacts, GrowsCreate, Zenon
<1>5. CASE CommitEvent
    <2>1. /\ event' \in Seq(Event) /\ Len(event') = Len(event) + 1
          /\ event'[Len(event) + 1] = making /\ making \in Event /\ making' = NoEvent
          /\ \A i \in DOMAIN event : i \in DOMAIN event' /\ event'[i] = event[i]
          /\ \A i \in DOMAIN event' : i \in DOMAIN event \/ i = Len(event) + 1
          /\ UNCHANGED <<setup, log, sub>>
          /\ making.xid \in DOMAIN xact /\ xact' = [xact EXCEPT ![making.xid] = "done"]
        BY <1>5, CommitEventFacts, Zenon
    <2>2. /\ Len(xact') = Len(xact) /\ DOMAIN xact' = DOMAIN xact
          /\ \A x \in DOMAIN xact : xact[x] = "done" => xact'[x] = "done"
        BY <1>0, <2>1
    <2>3. Len(xact) <= Len(xact') BY <1>0, <2>2
    <2>4. making # NoEvent BY <2>1, EventFields, Zenon
    <2>5. Len(event') \in Nat /\ Len(event) <= Len(event') /\ DOMAIN event' = 1 .. Len(event')
        BY <1>0, <2>1
    <2> QED BY <1>0, <2>1, <2>2, <2>3, <2>4, <2>5, Zenon DEF Grows
<1> QED BY <1>1, <1>2, <1>3, <1>4, <1>5, Zenon DEF OriginStep

(* A snapshot of the past sees what it saw. *)
LEMMA SnapKept ==
    ASSUME ShapeInv, Grows, NEW s \in Snap, SnapOK(s)
    PROVE  /\ SnapOK(s)'
           /\ \A x \in DOMAIN xact' : Visible(x, s) => x \in DOMAIN xact
           /\ \A t : Before(s, t) => Before(s, t)'
           /\ \A a : a \in RowsIn(s)' <=> a \in RowsIn(s)
<1>1. /\ s.xmax \in 1 .. Len(xact) + 1 /\ s.xip \subseteq 1 .. s.xmax - 1
      /\ s.xmax > 1 => xact[s.xmax - 1] = "done"
      /\ \A x \in DOMAIN xact : Visible(x, s) => xact[x] = "done"
    BY Zenon DEF SnapOK
<1>2. /\ Len(xact) \in Nat /\ DOMAIN xact = 1 .. Len(xact) /\ Len(xact') \in Nat
      /\ Len(xact) <= Len(xact')
    BY SeqFacts, Zenon DEF Grows
<1>3. s.xmax \in 1 .. Len(xact') + 1
    BY <1>1, <1>2
<1>4. s.xmax > 1 => s.xmax - 1 \in DOMAIN xact
    BY <1>1, <1>2
<1>5. ~Visible(Len(xact) + 1, s)
    BY <1>1, <1>2 DEF Visible
<1>6. \A x \in DOMAIN xact' : Visible(x, s) => x \in DOMAIN xact
    BY <1>5, Zenon DEF Grows
<1>7. SnapOK(s)'
    <2>1. s.xmax > 1 => xact'[s.xmax - 1] = "done"
        BY <1>1, <1>4, Zenon DEF Grows
    <2>2. \A x \in DOMAIN xact' : Visible(x, s) => xact'[x] = "done"
        BY <1>1, <1>6, Zenon DEF Grows
    <2> QED BY <1>1, <1>3, <2>1, <2>2, Zenon DEF SnapOK, Visible
<1>8. \A t : Before(s, t) => Before(s, t)'
    BY <1>6, Zenon DEF Before, Visible
<1>9. \A a : a \in RowsIn(s)' <=> a \in RowsIn(s)
    <2>1. \A a \in DOMAIN log' : Visible(log'[a], s) => a \in DOMAIN log
        BY <1>5, Zenon DEF Grows
    <2>2. \A a \in DOMAIN log : a \in DOMAIN log' /\ log'[a] = log[a]
        BY Zenon DEF Grows
    <2> QED BY <2>1, <2>2, Zenon DEF RowsIn, Visible
<1> QED BY <1>6, <1>7, <1>8, <1>9, Zenon

LEMMA SnapInvKept ==
    ASSUME ShapeInv, SnapInv, Grows
    PROVE  SnapInv'
<1>1. \A i \in DOMAIN event : event[i].snap \in Snap /\ SnapOK(event[i].snap)
    BY SeqFacts, EventFields, Zenon DEF SnapInv
<1>2. making # NoEvent => making.snap \in Snap /\ SnapOK(making.snap)
    BY EventFields, Zenon DEF SnapInv, ShapeInv
<1>3. \A i \in DOMAIN event' : event'[i].snap \in Snap /\ SnapOK(event'[i].snap)
    BY <1>1, <1>2, Zenon DEF Grows
<1>4. ASSUME NEW i \in DOMAIN event'
      PROVE  SnapOK(event[i].snap)'
    <2> DEFINE e == event'[i].snap
    <2>1. e \in Snap /\ SnapOK(e) BY <1>3, Zenon
    <2>2. \A s \in Snap : SnapOK(s) => SnapOK(s)' BY SnapKept, Zenon
    <2>3. PICK s \in Snap : s = e /\ SnapOK(s)' BY <2>1, <2>2, Zenon
    <2> QED BY <2>3, Zenon DEF SnapOK, Visible
<1>5. ASSUME NEW i \in DOMAIN event', NEW j \in DOMAIN event', i <= j
      PROVE  Before(event[i].snap, event[j].snap)'
    <2> DEFINE e == event'[i].snap
               f == event'[j].snap
    <2>1. Before(e, f)
        <3>1. CASE j \in DOMAIN event
            <4>1. i \in DOMAIN event
                BY <1>5, <3>1, SeqFacts DEF Grows
            <4>2. event'[i] = event[i] /\ event'[j] = event[j]
                BY <3>1, <4>1, Zenon DEF Grows
            <4> QED BY <1>5, <3>1, <4>1, <4>2, Zenon DEF SnapInv
        <3>2. CASE j \notin DOMAIN event /\ i \in DOMAIN event
            BY <3>2, Zenon DEF SnapInv, Grows
        <3>3. CASE j \notin DOMAIN event /\ i \notin DOMAIN event
            <4>1. i = j BY <3>3, Zenon DEF Grows
            <4>2. f.xmax \in Nat BY <1>3, SnapFields, Zenon
            <4>3. f.xmax <= f.xmax BY <4>2
            <4> QED BY <4>1, <4>3, Zenon DEF Before
        <3> QED BY <3>1, <3>2, <3>3, Zenon
    <2>2. PICK s \in Snap, t \in Snap : s = e /\ t = f /\ Before(s, t)'
        BY <1>3, <2>1, SnapKept, Zenon
    <2> QED BY <2>2, Zenon DEF Before, Visible
<1>6. ASSUME making' # NoEvent
      PROVE  SnapOK(making.snap)' /\ \A i \in DOMAIN event' : Before(event[i].snap, making.snap)'
    <2> DEFINE m == making'.snap
    <2>1. m \in Snap /\ SnapOK(m) /\ \A i \in DOMAIN event : Before(event[i].snap, m)
        <3>1. CASE making' = making
            BY <1>2, <1>6, <3>1, Zenon DEF SnapInv
        <3>2. CASE m = Snapshot
            BY <1>1, <3>2, SnapshotFacts, Zenon DEF ShapeInv
        <3> QED BY <1>6, <3>1, <3>2, Zenon DEF Grows
    <2>2. SnapOK(making.snap)'
        <3>1. PICK s \in Snap : s = m /\ SnapOK(s)' BY <2>1, SnapKept, Zenon
        <3> QED BY <3>1, Zenon DEF SnapOK, Visible
    <2>3. ASSUME NEW i \in DOMAIN event'
          PROVE  Before(event[i].snap, making.snap)'
        <3> DEFINE e == event'[i].snap
        <3>1. Before(e, m) BY <1>6, <2>1, Zenon DEF Grows
        <3>2. PICK s \in Snap, t \in Snap : s = e /\ t = m /\ Before(s, t)'
            BY <1>3, <2>1, <3>1, SnapKept, Zenon
        <3> QED BY <3>2, Zenon DEF Before, Visible
    <2> QED BY <2>2, <2>3, Zenon
<1> QED BY <1>4, <1>5, <1>6, Zenon DEF SnapInv

LEMMA EnableInvKept ==
    ASSUME ShapeInv, EnableInv, Grows
    PROVE  EnableInv'
<1> DEFINE E == EventsOf("ENABLE_SUBSCRIPTION")
           F == {i \in DOMAIN event' : event'[i].type = "ENABLE_SUBSCRIPTION"}
<1>1. /\ \A i \in F : \/ i \in E /\ event'[i] = event[i]
                      \/ /\ i = Len(event) + 1 /\ making.type = "ENABLE_SUBSCRIPTION"
                         /\ event'[i] = making
      /\ \A i \in E : i \in F /\ event'[i] = event[i]
    BY Zenon DEF Grows, EventsOf
<1>2. making.type = "ENABLE_SUBSCRIPTION" =>
          /\ making.node \in Receiver /\ \A i \in E : event[i].node # making.node
          /\ ProviderFirst(making.node, Len(event) + 1)
    BY Zenon DEF EnableInv, EnabledFor
<1>3. \A i, j \in F : event'[i].node = event'[j].node => i = j
    BY <1>1, <1>2, Zenon DEF EnableInv
<1>4. ASSUME NEW i \in F
      PROVE  event'[i].node \in Receiver' /\ ProviderFirst(event[i].node, i)'
    <2>1. event'[i].node \in Receiver /\ ProviderFirst(event'[i].node, i)
        BY <1>1, <1>2, Zenon DEF EnableInv
    <2>2. setup' = setup BY Zenon DEF Grows
    <2>3. setup.provider[event'[i].node] # Origin =>
              \E j \in F : j < i /\ event'[j].node = setup.provider[event'[i].node]
        BY <1>1, <2>1, Zenon DEF ProviderFirst
    <2> QED BY <2>1, <2>2, <2>3, Zenon DEF ProviderFirst, Receiver, EventsOf
<1>5. ASSUME making'.type = "ENABLE_SUBSCRIPTION"
      PROVE  /\ making'.node \in Receiver' /\ ~EnabledFor(making.node)'
             /\ ProviderFirst(making.node, Len(event) + 1)'
    <2>0. making' # NoEvent BY <1>5 DEF NoEvent
    <2>1. setup' = setup /\ event' = event BY <2>0, Zenon DEF Grows
    <2> DEFINE m == making'.node
    <2>2. m \in Receiver /\ ~EnabledFor(m) /\ ProviderFirst(m, Len(event) + 1)
        <3>1. CASE making' = making
            BY <1>5, <3>1, Zenon DEF EnableInv
        <3>2. CASE making' # making
            <4>1. /\ m \in Receiver /\ ~EnabledFor(m)
                  /\ setup.provider[m] = Origin \/ EnabledFor(setup.provider[m])
                BY <1>5, <2>0, <3>2, Zenon DEF Grows
            <4>2. \A i \in DOMAIN event : i < Len(event) + 1
                BY SeqFacts
            <4> QED BY <4>1, <4>2, Zenon DEF ProviderFirst, EnabledFor, EventsOf
        <3> QED BY <3>1, <3>2, Zenon
    <2> QED BY <2>1, <2>2, Zenon DEF ProviderFirst, EnabledFor, EventsOf, Receiver
<1> QED BY <1>3, <1>4, <1>5, Zenon DEF EnableInv, EventsOf

(* What is known of the state of a subscriber, one thing at a time. *)
LEMMA GoodFacts ==
    ASSUME ShapeInv, SnapInv, NEW n \in Receiver, NEW s \in GoodStates(n)
    PROVE  /\ s \in Subscriber /\ PlaceOK(n, s) /\ RowsOK(s) /\ HasAll(s)
           /\ s.active /\ setup.provider[n] = Origin /\ ~s.early => DirectOK(s)
           /\ s.active /\ setup.provider[n] # Origin => CascadeOK(s, setup.provider[n])
           /\ s.active => /\ s.seqno \in DOMAIN event /\ s.snap = event[s.seqno].snap
                          /\ s.snap \in Snap /\ SnapOK(s.snap)
<1>1. s \in Subscriber /\ SubOK(n, s)
    BY Zenon DEF GoodStates
<1>2. PlaceOK(n, s)
    BY <1>1, Zenon DEF SubOK
<1>3. s.active => s.seqno \in DOMAIN event /\ s.snap = event[s.seqno].snap
    <2>1. s.active => s.seqno \in 0 .. Len(event) /\ s.seqno > 0 /\ s.snap = event[s.seqno].snap
        BY <1>2, Zenon DEF PlaceOK
    <2> QED BY <2>1, SeqFacts
<1>4. \A i \in DOMAIN event : event[i].snap \in Snap /\ SnapOK(event[i].snap)
    BY SeqFacts, EventFields, Zenon DEF SnapInv
<1> QED BY <1>1, <1>2, <1>3, <1>4, Zenon DEF SubOK

LEMMA GoodKept ==
    ASSUME ShapeInv, SnapInv, EnableInv, Grows, NEW n \in Receiver, NEW s \in GoodStates(n)
    PROVE  s \in GoodStates(n)'
<1>1. /\ s \in Subscriber /\ PlaceOK(n, s) /\ RowsOK(s) /\ HasAll(s)
      /\ s.active /\ setup.provider[n] = Origin /\ ~s.early => DirectOK(s)
      /\ s.active /\ setup.provider[n] # Origin => CascadeOK(s, setup.provider[n])
      /\ s.active => s.seqno \in DOMAIN event /\ s.snap \in Snap /\ SnapOK(s.snap)
    BY GoodFacts, Zenon
<1>a. setup' = setup /\ sub' = sub
    BY Zenon DEF Grows
<1>b. s.done \in Nat /\ s.seqno \in Nat /\ s.done <= Len(event)
    BY <1>1, SubFields, SeqFacts DEF PlaceOK
<1>c. \A i \in DOMAIN event' : i <= s.done => i \in DOMAIN event
    BY <1>b, SeqFacts DEF Grows
<1>d. s.active => \A a : a \in RowsIn(s.snap)' <=> a \in RowsIn(s.snap)
    BY <1>1, SnapKept, Zenon
<1>e. ASSUME NEW j \in DOMAIN event
      PROVE  \A a : a \in RowsIn(event[j].snap)' <=> a \in RowsIn(event[j].snap)
    <2>1. event'[j] = event[j] /\ event[j].snap \in Snap /\ SnapOK(event[j].snap)
        BY SeqFacts, EventFields, Zenon DEF Grows, SnapInv
    <2>2. \A e \in Snap : SnapOK(e) => \A a : a \in RowsIn(e)' <=> a \in RowsIn(e)
        BY SnapKept, Zenon
    <2>3. PICK e \in Snap : e = event[j].snap /\ \A a : a \in RowsIn(e)' <=> a \in RowsIn(e)
        BY <2>1, <2>2, Zenon
    <2> QED BY <2>1, <2>3, Zenon DEF RowsIn, Visible
<1>2. PlaceOK(n, s)'
    <2>1. s.done \in 0 .. Len(event') /\ s.seqno \in 0 .. Len(event')
        BY <1>1, <1>b, SeqFacts DEF PlaceOK, Grows
    <2>2. s.active => /\ EnabledFor(n)' /\ s.seqno > 0 /\ s.snap = event'[s.seqno].snap
        BY <1>1, Zenon DEF PlaceOK, EnabledFor, EventsOf, Grows
    <2>3. ASSUME NEW i \in DOMAIN event', event'[i].type = "ENABLE_SUBSCRIPTION", event'[i].node = n
          PROVE  s.active <=> i <= s.done
        <3>1. CASE i \in DOMAIN event
            <4>1. event'[i] = event[i] BY <3>1, Zenon DEF Grows
            <4> QED BY <1>1, <2>3, <3>1, <4>1, Zenon DEF PlaceOK, EventsOf
        <3>2. CASE i \notin DOMAIN event
            <4>1. event'[i] = making BY <3>2, Zenon DEF Grows
            <4>2. ~EnabledFor(n) BY <2>3, <4>1, Zenon DEF EnableInv
            <4>3. ~s.active BY <1>1, <4>2, Zenon DEF PlaceOK
            <4>4. ~(i <= s.done) BY <1>c, <3>2, Zenon
            <4> QED BY <4>3, <4>4, Zenon
        <3> QED BY <3>1, <3>2, Zenon
    <2> QED BY <2>1, <2>2, <2>3, Zenon DEF PlaceOK, EventsOf
<1>3. RowsOK(s)'
    <2>1. \A a \in RowsDone : a \in RowsDone'
        BY SeqFacts, Zenon DEF RowsDone, Grows
    <2>2. ASSUME NEW a \in s.fwd
          PROVE  \E j \in DOMAIN event' : /\ event'[j].type = "SYNC" /\ j <= s.done
                                          /\ a \in RowsIn(event[j].snap)'
        <3>1. PICK j \in EventsOf("SYNC") : j <= s.done /\ a \in RowsIn(event[j].snap)
            BY <1>1, Zenon DEF RowsOK
        <3>2. j \in DOMAIN event /\ event[j].type = "SYNC" BY Zenon DEF EventsOf
        <3>3. j \in DOMAIN event' /\ event'[j] = event[j] BY <3>2, Zenon DEF Grows
        <3>4. a \in RowsIn(event[j].snap)' BY <1>e, <3>1, <3>2, Zenon
        <3> QED BY <3>1, <3>2, <3>3, <3>4, Zenon DEF RowsIn, Visible
    <2> QED BY <1>1, <2>1, <2>2, Zenon DEF RowsOK, EventsOf, RowsIn, Visible
<1>4. HasAll(s)'
    <2>1. ASSUME s.active, ~s.blind
          PROVE  RowsIn(s.snap)' \subseteq s.rows
        BY <1>1, <1>d, <2>1, Zenon DEF HasAll
    <2>2. ASSUME s.active, ~s.blind, NEW k \in DOMAIN event', event'[k].type = "SYNC", k <= s.done
          PROVE  RowsIn(event[k].snap)' \subseteq s.rows
        <3>1. k \in DOMAIN event /\ event'[k] = event[k] BY <1>c, <2>2, Zenon DEF Grows
        <3>2. RowsIn(event[k].snap) \subseteq s.rows
            BY <1>1, <2>2, <3>1, Zenon DEF HasAll, EventsOf
        <3> QED BY <1>e, <3>1, <3>2, Zenon
    <2> QED BY <2>1, <2>2, Zenon DEF HasAll, EventsOf, RowsIn, Visible
<1>5. ASSUME s.active, setup.provider[n] = Origin, ~s.early
      PROVE  DirectOK(s)'
    <2>1. DirectOK(s) BY <1>1, <1>5, Zenon
    <2>2. s.rows \subseteq RowsIn(s.snap)' \cup Range(s.list)
        BY <1>5, <1>d, <2>1, Zenon DEF DirectOK
    <2>3. ASSUME NEW k \in DOMAIN event', event'[k].type = "SYNC", k > s.seqno
          PROVE  \A a \in Range(s.list) : a \in RowsIn(event[k].snap)'
        <3>1. CASE k \in DOMAIN event
            <4>1. event'[k] = event[k] BY <3>1, Zenon DEF Grows
            <4> QED BY <1>e, <2>1, <2>3, <3>1, <4>1, Zenon DEF DirectOK, EventsOf
        <3>2. CASE k \notin DOMAIN event
            <4>1. event'[k] = making /\ making # NoEvent BY <3>2, Zenon DEF Grows
            <4>2. making.snap \in Snap /\ SnapOK(making.snap)
                BY <4>1, EventFields, Zenon DEF SnapInv, ShapeInv
            <4>3. Range(s.list) \subseteq RowsIn(making.snap)
                BY <2>1, <2>3, <4>1, Zenon DEF DirectOK
            <4>4. PICK e \in Snap : e = making.snap /\ \A a : a \in RowsIn(e)' <=> a \in RowsIn(e)
                BY <4>2, SnapKept, Zenon
            <4> QED BY <4>1, <4>3, <4>4, Zenon DEF RowsIn, Visible
        <3> QED BY <3>1, <3>2, Zenon
    <2>4. ASSUME making'.type = "SYNC"
          PROVE  \A a \in Range(s.list) : a \in RowsIn(making.snap)'
        <3>0. making' # NoEvent BY <2>4 DEF NoEvent
        <3> DEFINE m == making'.snap
        <3>1. m \in Snap /\ SnapOK(m) /\ Range(s.list) \subseteq RowsIn(m)
            <4>1. CASE making' = making
                BY <2>1, <2>4, <3>0, <4>1, EventFields, ZenonT(40) DEF DirectOK, SnapInv, ShapeInv
            <4>2. CASE m = Snapshot
                <5>1. /\ Snapshot \in Snap /\ SnapOK(Snapshot)
                      /\ \A x \in DOMAIN xact : Visible(x, Snapshot) <=> xact[x] = "done"
                    BY SnapshotFacts, Zenon DEF ShapeInv
                <5>2. RowsDone \subseteq RowsIn(Snapshot)
                    BY <5>1, SeqFacts, Zenon DEF RowsDone, RowsIn
                <5> QED BY <1>1, <4>2, <5>1, <5>2, Zenon DEF RowsOK
            <4> QED BY <3>0, <4>1, <4>2, Zenon DEF Grows
        <3>2. PICK e \in Snap : e = m /\ \A a : a \in RowsIn(e)' <=> a \in RowsIn(e)
            BY <3>1, SnapKept, Zenon
        <3> QED BY <3>1, <3>2, Zenon DEF RowsIn, Visible
    <2> QED BY <2>2, <2>3, <2>4, Zenon DEF DirectOK, EventsOf, RowsIn, Visible
<1>6. ASSUME s.active, setup.provider[n] # Origin
      PROVE  CascadeOK(s, setup.provider[n])'
    <2>1. CascadeOK(s, setup.provider[n]) BY <1>1, <1>6, Zenon
    <2> QED BY <1>6, <1>a, <1>d, <2>1, Zenon DEF CascadeOK, RowsIn, Visible
<1> QED BY <1>1, <1>2, <1>3, <1>4, <1>5, <1>6, <1>a, Zenon DEF GoodStates, SubOK

LEMMA CopyOrigin ==
    ASSUME ShapeInv, CopyInv, OriginStep, UNCHANGED shipVars
    PROVE  CopyInv'
<1>1. Grows
    BY GrowsOrigin, Zenon
<1>2. SnapInv' /\ EnableInv'
    BY <1>1, SnapInvKept, EnableInvKept, Zenon DEF CopyInv
<1>3. setup' = setup /\ sub' = sub /\ work' = work
    BY <1>1, Zenon DEF Grows, shipVars
<1>4. \A n \in Receiver : \A s \in GoodStates(n) : s \in GoodStates(n)'
    BY <1>1, GoodKept, Zenon DEF CopyInv
<1>5. ASSUME NEW n \in Receiver, NEW k \in Upcoming(n)
      PROVE  k \in Upcoming(n)'
    <2>1. /\ k \in DOMAIN event /\ k > sub[n].done
          /\ k > sub[n].done + 1 => \A i \in sub[n].done + 1 .. k : event[i].type = "SYNC"
        BY Zenon DEF Upcoming
    <2>2. \A i \in sub[n].done + 1 .. k : i \in DOMAIN event
        <3>1. sub[n].done \in Nat BY SubFields, Zenon DEF ShapeInv
        <3> QED BY <2>1, <3>1, SeqFacts
    <2>3. k \in DOMAIN event' /\ \A i \in DOMAIN event : event'[i] = event[i]
        BY <1>1, <2>1, Zenon DEF Grows
    <2> QED BY <1>3, <2>1, <2>2, <2>3, Zenon DEF Upcoming
<1>6. \A n \in Receiver : \A r : Follows(n, r) => Follows(n, r)'
    BY <1>3, Zenon DEF Follows
<1>7. Receiver' = Receiver
    BY <1>3, Zenon DEF Receiver
<1>8. \A n \in Receiver : sub'[n] \in GoodStates(n)'
    BY <1>3, <1>4, Zenon DEF CopyInv
<1>9. ASSUME NEW n \in Receiver
      PROVE  work'[<<n, Origin>>] \in CopierStates(n)'
    <2>1. work[<<n, Origin>>] \in CopierStates(n) /\ work'[<<n, Origin>>] = work[<<n, Origin>>]
        BY <1>3, Zenon DEF CopyInv
    <2> QED BY <1>4, <1>5, <1>6, <2>1, Zenon DEF CopierStates
<1> QED BY <1>2, <1>7, <1>8, <1>9, Zenon DEF CopyInv

-----------------------------------------------------------------------------
(* What a worker is about to commit.                                       *)

LEMMA UpcomingFacts ==
    ASSUME ShapeInv, NEW n \in Receiver, NEW k \in Upcoming(n)
    PROVE  /\ k \in DOMAIN event /\ k > sub[n].done /\ k \in Nat /\ sub[n].done \in Nat
           /\ event[k].type # "SYNC" => k = sub[n].done + 1
           /\ \A i \in DOMAIN event : i > sub[n].done /\ i < k => event[i].type = "SYNC"
<1>1. /\ k \in DOMAIN event /\ k > sub[n].done
      /\ k > sub[n].done + 1 => \A i \in sub[n].done + 1 .. k : event[i].type = "SYNC"
    BY Zenon DEF Upcoming
<1>2. sub[n].done \in Nat BY SubFields, Zenon DEF ShapeInv
<1>3. k \in Nat /\ DOMAIN event \subseteq Nat BY <1>1, SeqFacts
<1>4. event[k].type # "SYNC" => k = sub[n].done + 1
    BY <1>1, <1>2, <1>3
<1>5. ASSUME NEW i \in DOMAIN event, i > sub[n].done, i < k
      PROVE  event[i].type = "SYNC"
    <2>1. i \in sub[n].done + 1 .. k /\ k > sub[n].done + 1
        BY <1>2, <1>3, <1>5
    <2> QED BY <1>1, <2>1, Zenon
<1> QED BY <1>1, <1>2, <1>3, <1>4, <1>5, Zenon

LEMMA SnapsGrow ==
    ASSUME ShapeInv, SnapInv, NEW i \in DOMAIN event, NEW j \in DOMAIN event, i <= j
    PROVE  /\ RowsIn(event[i].snap) \subseteq RowsIn(event[j].snap)
           /\ RowsIn(event[j].snap) \subseteq RowsDone
           /\ event[i].snap.xmax <= event[j].snap.xmax
<1>1. Before(event[i].snap, event[j].snap) /\ SnapOK(event[j].snap)
    BY Zenon DEF SnapInv
<1>2. \A a \in DOMAIN log : log[a] \in DOMAIN xact
    BY SeqFacts, Zenon
<1> QED BY <1>1, <1>2, Zenon DEF Before, SnapOK, RowsIn, RowsDone

(* sync_event() fetches what the SYNC sees, what its setsync does not see and
   what is not in the list. *)
LEMMA SelectedFacts ==
    ASSUME ShapeInv, SnapInv, NEW n \in Receiver, sub[n] \in GoodStates(n),
           NEW k \in DOMAIN event, Takes(n, k), LogOf(setup.provider[n]) \subseteq DOMAIN log
    PROVE  \A a : a \in Selected(n, k) <=>
               /\ a \in LogOf(setup.provider[n]) /\ a \in RowsIn(event[k].snap)
               /\ a \notin RowsIn(sub[n].snap) /\ a \notin Range(sub[n].list)
<1> DEFINE s == sub[n].snap
           e == event[k].snap
           L == LogOf(setup.provider[n])
<1>1. sub[n].active /\ sub[n].seqno < k
    BY Zenon DEF Takes
<1>2. sub[n] \in Subscriber /\ sub[n].seqno \in DOMAIN event /\ s = event[sub[n].seqno].snap
      /\ s \in Snap /\ SnapOK(s)
    BY <1>1, GoodFacts, Zenon
<1>3. e \in Snap
    BY SeqFacts, EventFields, Zenon
<1>4. s.xmax \in Nat /\ e.xmax \in Nat /\ s.xip \subseteq 1 .. s.xmax - 1 /\ s.xmax <= e.xmax
    <2>1. sub[n].seqno <= k BY <1>1, <1>2, SeqFacts
    <2>2. s.xmax <= e.xmax BY <1>2, <2>1, SnapsGrow, Zenon
    <2>3. s.xip \subseteq 1 .. s.xmax - 1 BY <1>2, Zenon DEF SnapOK
    <2> QED BY <1>2, <1>3, <2>2, <2>3, SnapFields, Zenon
<1>5. \A a \in DOMAIN log : a \in Nat /\ log[a] \in Nat
    BY SeqFacts
<1>6. \A a \in Nat : Excluded(sub[n].list, a) <=> a \in Range(sub[n].list)
    <2>1. sub[n].list \in Seq(Nat) BY <1>2, SubFields, Zenon
    <2> QED BY <2>1, CompressIsExact, Zenon
<1> HIDE DEF s, e, L
<1>7. \A x \in Nat : (\/ x >= s.xmax /\ x < e.xmax /\ Visible(x, e)
                      \/ x \in s.xip \ e.xip)
                     <=> Visible(x, e) /\ ~Visible(x, s)
    BY <1>4 DEF Visible
<1>8. Selected(n, k) =
          {a \in L : /\ \/ log[a] >= s.xmax /\ log[a] < e.xmax /\ Visible(log[a], e)
                        \/ log[a] \in s.xip \ e.xip
                     /\ ~Excluded(sub[n].list, a)}
    BY Zenon DEF Selected, s, e, L
<1>9. L \subseteq DOMAIN log BY Zenon DEF L
<1>10. \A a : a \in Selected(n, k) <=>
           /\ a \in L /\ Visible(log[a], e) /\ ~Visible(log[a], s) /\ a \notin Range(sub[n].list)
    BY <1>5, <1>6, <1>7, <1>8, <1>9, Zenon
<1> QED BY <1>9, <1>10, Zenon DEF RowsIn, s, e, L

(* What the provider of an active subscriber has in its log. *)
LEMMA LogOfFacts ==
    ASSUME ShapeInv, CopyInv, NEW n \in Receiver
    PROVE  /\ LogOf(setup.provider[n]) \subseteq DOMAIN log
           /\ setup.provider[n] # Origin => setup.provider[n] \in Receiver
<1>1. setup.provider[n] # Origin => setup.provider[n] \in Receiver
    BY ProviderFacts, Zenon DEF ShapeInv
<1>2. ASSUME NEW p \in Receiver PROVE sub[p].fwd \subseteq DOMAIN log
    <2>1. RowsOK(sub[p]) BY GoodFacts, Zenon DEF CopyInv
    <2> QED BY <2>1, Zenon DEF RowsOK, RowsDone
<1> QED BY <1>1, <1>2, Zenon DEF LogOf

(* A SYNC: the subscriber then has all the rows of the SYNC. *)
LEMMA SyncHasAll ==
    ASSUME ShapeInv, CopyInv, NEW n \in Receiver, NEW k \in EventsOf("SYNC"),
           SyncPossible(n, k), Takes(n, k), ~sub[n].blind
    PROVE  RowsIn(event[k].snap) \subseteq sub[n].rows \cup Selected(n, k)
<1> DEFINE p == setup.provider[n]
<1>0. SnapInv /\ sub[n] \in GoodStates(n) /\ sub[n].active /\ k \in DOMAIN event
      /\ event[k].type = "SYNC"
    BY Zenon DEF CopyInv, Takes, EventsOf
<1>1. /\ PlaceOK(n, sub[n]) /\ RowsOK(sub[n]) /\ HasAll(sub[n])
      /\ p # Origin => CascadeOK(sub[n], p)
    BY <1>0, GoodFacts, Zenon
<1>2. RowsIn(sub[n].snap) \subseteq sub[n].rows /\ Range(sub[n].list) \subseteq sub[n].rows
    BY <1>0, <1>1, Zenon DEF HasAll, RowsOK
<1>3. \A a : a \in Selected(n, k) <=>
          /\ a \in LogOf(p) /\ a \in RowsIn(event[k].snap)
          /\ a \notin RowsIn(sub[n].snap) /\ a \notin Range(sub[n].list)
    BY <1>0, SelectedFacts, LogOfFacts, Zenon
<1>4. RowsIn(event[k].snap) \subseteq sub[n].rows \cup LogOf(p)
    <2>1. CASE p = Origin
        BY <2>1, Zenon DEF LogOf, RowsIn
    <2>2. CASE p # Origin
        <3>1. /\ sub[p].active /\ ~sub[p].blind
              /\ sub[p].rows \subseteq sub[n].rows \cup sub[p].fwd
            BY <1>1, <2>2, Zenon DEF CascadeOK
        <3>2. p \in Receiver /\ sub[p].done >= k
            BY <1>0, <2>2, LogOfFacts, Zenon DEF SyncPossible, Has
        <3>3. HasAll(sub[p]) /\ sub[p].done \in Nat
            BY <3>2, <1>0, GoodFacts, SubFields, Zenon DEF CopyInv
        <3>4. k <= sub[p].done BY <1>0, <3>2, <3>3, SeqFacts, SMTT(30)
        <3>5. RowsIn(event[k].snap) \subseteq sub[p].rows
            BY <3>1, <3>3, <3>4, Zenon DEF HasAll
        <3> QED BY <2>2, <3>1, <3>5, Zenon DEF LogOf
    <2> QED BY <2>1, <2>2, Zenon
<1> QED BY <1>2, <1>3, <1>4, Zenon

LEMMA SyncGood ==
    ASSUME ShapeInv, CopyInv, NEW n \in Receiver, NEW k \in Upcoming(n), event[k].type = "SYNC",
           SyncPossible(n, k), NEW t, t = AfterSync(n, k)
    PROVE  t \in GoodStates(n) /\ Follows(n, t)
<1> DEFINE p == setup.provider[n]
           s == sub[n]
           X == Fetched(n, k)
<1>0. /\ SnapInv /\ s \in GoodStates(n) /\ s \in Subscriber
      /\ k \in DOMAIN event /\ k \in Nat /\ s.done \in Nat /\ k > s.done /\ s.seqno \in Nat
      /\ k \in EventsOf("SYNC")
    <2>1. s \in Subscriber BY Zenon DEF ShapeInv
    <2>2. SnapInv /\ s \in GoodStates(n) BY Zenon DEF CopyInv
    <2>3. k \in DOMAIN event /\ k \in Nat /\ s.done \in Nat /\ k > s.done
        BY UpcomingFacts, Zenon
    <2> QED BY <2>1, <2>2, <2>3, SubFields, Zenon DEF EventsOf
<1>1. /\ PlaceOK(n, s) /\ RowsOK(s) /\ HasAll(s)
      /\ s.active /\ p = Origin /\ ~s.early => DirectOK(s)
      /\ s.active /\ p # Origin => CascadeOK(s, p)
      /\ s.active => s.seqno \in DOMAIN event /\ s.snap = event[s.seqno].snap
    BY <1>0, GoodFacts, Zenon
<1>2. /\ t \in Subscriber /\ t.done = k /\ t.active = s.active
      /\ t.early = s.early /\ t.blind = s.blind /\ t.rows = s.rows \cup X /\ t.fwd = s.fwd \cup X
      /\ Takes(n, k) => t.seqno = k /\ t.snap = event[k].snap /\ t.list = <<>>
      /\ ~Takes(n, k) => t.seqno = s.seqno /\ t.snap = s.snap /\ t.list = s.list
    <2>1. k \in DOMAIN event BY <1>0, Zenon
    <2> QED BY <2>1, AfterSyncFacts
<1>3. Takes(n, k) => s.active /\ s.seqno < k /\ X = Selected(n, k)
    BY Zenon DEF Takes, Fetched
<1>4. ~Takes(n, k) => X = {}
    BY Zenon DEF Fetched
<1>5. Takes(n, k) => \A a : a \in X <=>
          /\ a \in LogOf(p) /\ a \in RowsIn(event[k].snap)
          /\ a \notin RowsIn(s.snap) /\ a \notin Range(s.list)
    <2> SUFFICES ASSUME Takes(n, k)
                 PROVE  \A a : a \in X <=>
                            /\ a \in LogOf(p) /\ a \in RowsIn(event[k].snap)
                            /\ a \notin RowsIn(s.snap) /\ a \notin Range(s.list)
        OBVIOUS
    <2>1. X = Selected(n, k) BY <1>3, Zenon
    <2>2. k \in DOMAIN event /\ SnapInv /\ sub[n] \in GoodStates(n) BY <1>0, Zenon
    <2>3. LogOf(setup.provider[n]) \subseteq DOMAIN log BY LogOfFacts, Zenon
    <2>4. \A a : a \in Selected(n, k) <=>
              /\ a \in LogOf(p) /\ a \in RowsIn(event[k].snap)
              /\ a \notin RowsIn(s.snap) /\ a \notin Range(s.list)
        BY <2>2, <2>3, SelectedFacts, Zenon
    <2> QED BY <2>1, <2>4, Zenon
<1>6. X \cap s.rows = {}
    BY Zenon DEF SyncPossible
<1>7. Range(<<>>) = {}
    BY DEF Range
<1>8. s.active /\ s.seqno < k => RowsIn(s.snap) \subseteq RowsIn(event[k].snap)
    <2> SUFFICES ASSUME s.active, s.seqno < k PROVE RowsIn(s.snap) \subseteq RowsIn(event[k].snap)
        OBVIOUS
    <2>1. s.seqno <= k BY <1>0
    <2> QED BY <1>0, <1>1, <2>1, SnapsGrow, Zenon
<1>9. \A j \in DOMAIN event : j <= k => RowsIn(event[j].snap) \subseteq RowsIn(event[k].snap)
    BY <1>0, SnapsGrow, Zenon
<1>10. RowsIn(event[k].snap) \subseteq RowsDone
    <2>1. k <= k BY <1>0
    <2> QED BY <1>0, <2>1, SnapsGrow, Zenon
<1> HIDE DEF X
<1>11. PlaceOK(n, t)
    <2>1. t.done \in 0 .. Len(event)
        BY <1>0, <1>2, SeqFacts
    <2>2. t.seqno \in 0 .. Len(event)
        <3>1. CASE Takes(n, k) BY <1>0, <1>2, <3>1, SeqFacts, SMTT(30)
        <3>2. CASE ~Takes(n, k) BY <1>1, <1>2, <3>2, Zenon DEF PlaceOK
        <3> QED BY <3>1, <3>2, Zenon
    <2>3. t.active => EnabledFor(n) /\ t.seqno > 0 /\ t.snap = event[t.seqno].snap
        <3>0. k > 0 BY <1>0
        <3>1. CASE Takes(n, k) BY <1>1, <1>2, <3>0, <3>1, Zenon DEF PlaceOK
        <3>2. CASE ~Takes(n, k) BY <1>1, <1>2, <3>2, Zenon DEF PlaceOK
        <3> QED BY <3>1, <3>2, Zenon
    <2>4. ASSUME NEW i \in EventsOf("ENABLE_SUBSCRIPTION"), event[i].node = n
          PROVE  t.active <=> i <= t.done
        <3>1. i \in DOMAIN event /\ event[i].type = "ENABLE_SUBSCRIPTION" /\ i \in Nat
            BY SeqFacts DEF EventsOf
        <3>2. s.active <=> i <= s.done BY <1>1, <2>4, Zenon DEF PlaceOK
        <3>3. event[i].type # "SYNC" BY <3>1
        <3>4. i # k BY <3>3, Zenon
        <3>5. ~(i > s.done /\ i < k) BY <3>1, <3>3, UpcomingFacts, Zenon
        <3>6. i <= s.done <=> i <= k BY <1>0, <3>1, <3>4, <3>5, SMTT(30)
        <3> QED BY <1>2, <3>2, <3>6, Zenon
    <2> QED BY <2>1, <2>2, <2>3, <2>4, Zenon DEF PlaceOK
<1>12. RowsOK(t)
    <2>1. X \subseteq RowsDone /\ \A a \in X : a \in RowsIn(event[k].snap)
        BY <1>4, <1>5, <1>10, Zenon
    <2>2. t.active \/ t.rows = {}
        BY <1>1, <1>2, <1>3, <1>4, Zenon DEF RowsOK
    <2>3. t.rows \subseteq RowsDone /\ t.fwd \subseteq t.rows
        BY <1>1, <1>2, <2>1, Zenon DEF RowsOK
    <2>4. Range(t.list) \subseteq t.rows
        BY <1>1, <1>2, <1>7, Zenon DEF RowsOK
    <2>5. ASSUME NEW a \in t.fwd
          PROVE  \E j \in EventsOf("SYNC") : j <= t.done /\ a \in RowsIn(event[j].snap)
        <3>1. CASE a \in X
            <4>1. k <= t.done BY <1>0, <1>2
            <4> QED BY <1>0, <2>1, <3>1, <4>1, Zenon
        <3>2. CASE a \in s.fwd
            <4>1. PICK j \in EventsOf("SYNC") : j <= s.done /\ a \in RowsIn(event[j].snap)
                BY <1>1, <3>2, Zenon DEF RowsOK
            <4>2. j \in Nat BY SeqFacts DEF EventsOf
            <4>3. j <= t.done BY <1>0, <1>2, <4>1, <4>2, SMTT(30)
            <4> QED BY <4>1, <4>3, Zenon
        <3> QED BY <1>2, <3>1, <3>2, Zenon
    <2> QED BY <2>2, <2>3, <2>4, <2>5, Zenon DEF RowsOK
<1>13. HasAll(t)
    <2> SUFFICES ASSUME t.active, ~t.blind
                 PROVE  /\ RowsIn(t.snap) \subseteq t.rows
                        /\ \A j \in EventsOf("SYNC") : j <= t.done =>
                               RowsIn(event[j].snap) \subseteq t.rows
        BY Zenon DEF HasAll
    <2>1. CASE Takes(n, k)
        <3>1. RowsIn(event[k].snap) \subseteq t.rows
            BY <1>0, <1>2, <1>3, <2>1, SyncHasAll, Zenon
        <3> QED BY <1>2, <1>9, <2>1, <3>1, Zenon DEF EventsOf
    <2>2. CASE ~Takes(n, k)
        <3>1. RowsIn(s.snap) \subseteq s.rows BY <1>1, <1>2, Zenon DEF HasAll
        <3>2. s.seqno \in DOMAIN event /\ s.snap = event[s.seqno].snap BY <1>1, <1>2, Zenon
        <3>3. ~(s.seqno < k) BY <1>2, <2>2, Zenon DEF Takes
        <3>4. ASSUME NEW j \in DOMAIN event, j <= k
              PROVE  RowsIn(event[j].snap) \subseteq s.rows
            <4>1. j <= s.seqno BY <1>0, <3>3, <3>4, SeqFacts, SMTT(30)
            <4> QED BY <1>0, <3>1, <3>2, <4>1, SnapsGrow, ZenonT(40)
        <3> QED BY <1>2, <2>2, <3>1, <3>4, Zenon DEF EventsOf
    <2> QED BY <2>1, <2>2, Zenon
<1>14. ASSUME t.active, p = Origin, ~t.early
       PROVE  DirectOK(t)
    <2>1. DirectOK(s) /\ s.active BY <1>1, <1>2, <1>14, Zenon
    <2>2. CASE Takes(n, k)
        <3>1. k > s.seqno BY <1>0, <1>3, <2>2, SMTT(30)
        <3>2. Range(s.list) \subseteq RowsIn(event[k].snap)
            BY <1>0, <2>1, <3>1, Zenon DEF DirectOK
        <3>3. t.rows \subseteq RowsIn(event[k].snap)
            BY <1>2, <1>3, <1>5, <1>8, <2>1, <2>2, <3>2, ZenonT(40) DEF DirectOK
        <3> QED BY <1>2, <1>7, <2>2, <3>3, Zenon DEF DirectOK
    <2>3. CASE ~Takes(n, k)
        BY <1>2, <1>4, <2>1, <2>3, Zenon DEF DirectOK
    <2> QED BY <2>2, <2>3, Zenon
<1>15. ASSUME t.active, p # Origin
       PROVE  CascadeOK(t, p)
    <2>1. CascadeOK(s, p) /\ s.active BY <1>1, <1>2, <1>15, Zenon
    <2>2. sub[p].fwd \subseteq sub[p].rows
        BY <1>0, <1>15, LogOfFacts, GoodFacts, Zenon DEF CopyInv, RowsOK
    <2>3. CASE Takes(n, k)
        <3>1. \A a \in X : a \in sub[p].fwd /\ a \in RowsIn(event[k].snap)
            BY <1>5, <1>15, <2>3, Zenon DEF LogOf
        <3>2. RowsIn(s.snap) \subseteq RowsIn(event[k].snap) BY <1>3, <1>8, <2>3, Zenon
        <3> QED BY <1>2, <2>1, <2>2, <2>3, <3>1, <3>2, Zenon DEF CascadeOK
    <2>4. CASE ~Takes(n, k)
        BY <1>2, <1>4, <2>1, <2>4, Zenon DEF CascadeOK
    <2> QED BY <2>3, <2>4, Zenon
<1>16. t \in GoodStates(n)
    BY <1>2, <1>11, <1>12, <1>13, <1>14, <1>15, Zenon DEF GoodStates, SubOK
<1>17. Follows(n, t)
    <2>1. t.rows \ s.rows = X BY <1>2, <1>6, Zenon
    <2> QED BY <1>0, <1>2, <2>1, Zenon DEF Follows
<1> QED BY <1>16, <1>17, Zenon

LEMMA EnableOtherGood ==
    ASSUME ShapeInv, CopyInv, NEW n \in Receiver, NEW k \in Upcoming(n),
           event[k].type = "ENABLE_SUBSCRIPTION", event[k].node # n,
           NEW t, t = [sub[n] EXCEPT !.done = k]
    PROVE  t \in GoodStates(n) /\ Follows(n, t)
<1> DEFINE s == sub[n]
<1>0. /\ k \in DOMAIN event /\ k \in Nat /\ s.done \in Nat /\ k > s.done
      /\ event[k].type # "SYNC"
    BY UpcomingFacts
<1>1. SnapInv /\ s \in GoodStates(n) /\ s \in Subscriber
    BY Zenon DEF CopyInv, ShapeInv
<1>2. SubOK(n, s)
    BY <1>1, Zenon DEF GoodStates
<1>3. k = s.done + 1
    BY <1>0, UpcomingFacts, Zenon
<1>4. /\ t \in Subscriber /\ t.done = k
      /\ t.rows = s.rows /\ t.fwd = s.fwd /\ t.active = s.active
      /\ t.seqno = s.seqno /\ t.snap = s.snap /\ t.list = s.list /\ t.early = s.early
      /\ t.blind = s.blind
    BY <1>0, <1>1, DoneFacts
<1> HIDE DEF s
<1>5. \A i \in DOMAIN event : (i <= s.done => i <= k) /\ (i <= k => i <= s.done \/ i = k)
    BY <1>0, <1>3, SeqFacts
<1>6. PlaceOK(n, t)
    <2>0. PlaceOK(n, s) BY <1>2, Zenon DEF SubOK
    <2>1. t.done \in 0 .. Len(event) BY <1>0, <1>4, SeqFacts
    <2>2. ASSUME NEW i \in EventsOf("ENABLE_SUBSCRIPTION"), event[i].node = n
          PROVE  t.active <=> i <= t.done
        <3>1. i # k /\ i \in DOMAIN event BY <2>2, Zenon DEF EventsOf
        <3>2. s.active <=> i <= s.done BY <2>0, <2>2, Zenon DEF PlaceOK
        <3> QED BY <1>4, <1>5, <3>1, <3>2, Zenon
    <2> QED BY <1>4, <2>0, <2>1, <2>2, Zenon DEF PlaceOK
<1>7. RowsOK(t)
    <2>1. RowsOK(s) BY <1>2, Zenon DEF SubOK
    <2> QED BY <1>4, <1>5, <2>1, Zenon DEF RowsOK, EventsOf
<1>8. HasAll(t)
    <2>1. HasAll(s) BY <1>2, Zenon DEF SubOK
    <2> QED BY <1>0, <1>4, <1>5, <2>1, Zenon DEF HasAll, EventsOf
<1>9. t.active /\ setup.provider[n] = Origin /\ ~t.early => DirectOK(t)
    BY <1>2, <1>4, Zenon DEF SubOK, DirectOK
<1>10. t.active /\ setup.provider[n] # Origin => CascadeOK(t, setup.provider[n])
    BY <1>2, <1>4, Zenon DEF SubOK, CascadeOK
<1>11. t \in GoodStates(n)
    BY <1>4, <1>6, <1>7, <1>8, <1>9, <1>10, Zenon DEF GoodStates, SubOK
<1>12. Follows(n, t)
    <2>1. \A R, F : F \cup (R \ R) = F OBVIOUS
    <2> QED BY <1>0, <1>4, <2>1, Zenon DEF Follows, s
<1> QED BY <1>11, <1>12, Zenon

LEMMA EmptyList ==
    ASSUME NEW list \in Seq(Nat), Range(list) = {}
    PROVE  list = <<>>
<1>1. \A i \in 1 .. Len(list) : list[i] \in Range(list)
    BY DEF Range
<1>2. Len(list) \in Nat /\ ~(1 \in 1 .. Len(list))
    BY <1>1
<1>3. Len(list) = 0 BY <1>2
<1> QED BY <1>3

(* What the snapshot of a copy sees is what is committed. *)
LEMMA SnapshotRows ==
    ASSUME ShapeInv
    PROVE  RowsIn(Snapshot) = RowsDone
<1>1. \A x \in DOMAIN xact : Visible(x, Snapshot) <=> xact[x] = "done"
    BY SnapshotFacts, Zenon DEF ShapeInv
<1> QED BY <1>1, SeqFacts, Zenon DEF RowsIn, RowsDone

(* A provider that has the event of the subscription is active, and what it
   forwards is in the last SYNC it has. *)
LEMMA ForwarderFacts ==
    ASSUME ShapeInv, CopyInv, NEW n \in Receiver, NEW k \in EventsOf("ENABLE_SUBSCRIPTION"),
           event[k].node = n, NEW p, p = setup.provider[n], p # Origin, Has(p, k)
    PROVE  /\ p \in Receiver /\ sub[p].active /\ RowsOK(sub[p]) /\ HasAll(sub[p])
           /\ \A i \in SyncsAt(p) : i <= sub[p].done
           /\ k <= sub[p].done
           /\ sub[p].fwd \subseteq RowsIn(SetsyncOf(p, k).snap)
           /\ ActionList(p, k) = {}
<1>1. p \in Receiver /\ SnapInv /\ sub[p] \in GoodStates(p)
    BY LogOfFacts, Zenon DEF CopyInv
<1>2. PlaceOK(p, sub[p]) /\ RowsOK(sub[p]) /\ HasAll(sub[p]) /\ sub[p].done \in Nat
    BY <1>1, GoodFacts, SubFields, Zenon
<1>3. k \in DOMAIN event /\ DOMAIN event \subseteq Nat /\ EventsOf("ENABLE_SUBSCRIPTION") \subseteq Nat
    BY SeqFacts DEF EventsOf
<1>4. sub[p].done >= k
    BY Zenon DEF Has
<1>5. k <= sub[p].done
    BY <1>2, <1>3, <1>4
<1>6. sub[p].active
    <2>1. PICK j \in EventsOf("ENABLE_SUBSCRIPTION") : j < k /\ event[j].node = p
        BY Zenon DEF CopyInv, EnableInv, ProviderFirst
    <2>2. j <= sub[p].done
        BY <1>2, <1>3, <1>5, <2>1, SMTT(30)
    <2> QED BY <1>2, <2>1, <2>2, Zenon DEF PlaceOK
<1>7. \A i \in DOMAIN event : i \in SyncsAt(p) <=> event[i].type = "SYNC" /\ i <= sub[p].done
    <2>1. \A i \in DOMAIN event : i <= sub[p].done <=> sub[p].done >= i
        BY <1>2, <1>3
    <2> QED BY <2>1, Zenon DEF SyncsAt, EventsOf, Has
<1>8. ASSUME NEW a \in sub[p].fwd
      PROVE  SyncsAt(p) # {} /\ a \in RowsIn(SetsyncOf(p, k).snap)
    <2>1. PICK j \in EventsOf("SYNC") : j <= sub[p].done /\ a \in RowsIn(event[j].snap)
        BY <1>2, <1>8, Zenon DEF RowsOK
    <2>2. j \in DOMAIN event /\ j \in SyncsAt(p)
        BY <1>7, <2>1, Zenon DEF EventsOf
    <2> DEFINE i == SetsyncOf(p, k).seqno
    <2>3. i \in DOMAIN event /\ SetsyncOf(p, k).snap = event[i].snap /\ j <= i
        BY <1>3, <2>2, SetsyncFacts, Zenon
    <2>4. RowsIn(event[j].snap) \subseteq RowsIn(event[i].snap)
        BY <1>1, <2>2, <2>3, SnapsGrow, Zenon
    <2> QED BY <2>1, <2>2, <2>3, <2>4, Zenon
<1>9. ActionList(p, k) = {}
    BY <1>8, Zenon DEF ActionList, LogOf, RowsIn
<1>10. \A i \in SyncsAt(p) : i <= sub[p].done
    BY <1>7, Zenon DEF SyncsAt, EventsOf
<1> QED BY <1>1, <1>2, <1>5, <1>6, <1>8, <1>9, <1>10, Zenon

LEMMA CopyGood ==
    ASSUME ShapeInv, CopyInv, NEW n \in Receiver, NEW k \in Upcoming(n),
           event[k].type = "ENABLE_SUBSCRIPTION", event[k].node = n,
           NEW p, p = setup.provider[n], Has(p, k),
           NEW list \in Orders(ActionList(p, k)), NEW t, t = AfterCopy(n, k, list)
    PROVE  t \in GoodStates(n) /\ Follows(n, t)
<1> DEFINE s == sub[n]
           i == SetsyncOf(p, k).seqno
<1>0. /\ k \in DOMAIN event /\ k \in Nat /\ s.done \in Nat /\ k > s.done
    BY UpcomingFacts, Zenon
<1>1. SnapInv /\ EnableInv /\ s \in GoodStates(n) /\ k \in EventsOf("ENABLE_SUBSCRIPTION")
    BY <1>0, Zenon DEF CopyInv, EventsOf
<1>2. PlaceOK(n, s) /\ RowsOK(s)
    BY <1>1, GoodFacts, Zenon
<1>3. ~s.active /\ s.fwd = {}
    <2>1. ~(k <= s.done) BY <1>0
    <2>2. ~s.active BY <1>1, <1>2, <2>1, Zenon DEF PlaceOK
    <2> QED BY <1>2, <2>2, Zenon DEF RowsOK
<1>4. /\ t \in Subscriber /\ t.done = k /\ t.active = TRUE
      /\ t.rows = RowsAt(p) /\ t.fwd = s.fwd
      /\ t.seqno = i /\ t.snap = SetsyncOf(p, k).snap
      /\ t.list = list /\ Range(list) = ActionList(p, k)
      /\ t.early <=> p = Origin /\ SyncMisses(RowsAt(p))
      /\ t.blind <=> p # Origin /\ (SyncsAt(p) = {} \/ sub[p].blind)
    <2>1. k \in DOMAIN event BY <1>0, Zenon
    <2> HIDE DEF s, i
    <2>2. CopyResult(n, p, k, list, t) BY <2>1, AfterCopyFacts, Zenon
    <2> QED BY <2>2, Zenon DEF CopyResult, s, i
<1>5. /\ i \in DOMAIN event /\ SetsyncOf(p, k).snap = event[i].snap
      /\ SyncsAt(p) # {} => i \in SyncsAt(p) /\ \A j \in SyncsAt(p) : j <= i
    BY <1>0, SetsyncFacts, Zenon
<1>6. ASSUME p # Origin
      PROVE  /\ p \in Receiver /\ sub[p].active /\ RowsOK(sub[p]) /\ HasAll(sub[p])
             /\ \A j \in SyncsAt(p) : j <= sub[p].done
             /\ k <= sub[p].done
             /\ sub[p].fwd \subseteq RowsIn(SetsyncOf(p, k).snap)
             /\ ActionList(p, k) = {} /\ RowsAt(p) = sub[p].rows
    BY <1>1, <1>6, ForwarderFacts, Zenon DEF RowsAt
<1>7. p = Origin => RowsAt(p) = RowsDone
    BY SnapshotRows, Zenon DEF RowsAt
<1>8. \A j \in DOMAIN event : RowsIn(event[j].snap) \subseteq RowsDone
    <2> TAKE j \in DOMAIN event
    <2>1. j <= j BY SeqFacts
    <2> QED BY <1>1, <2>1, SnapsGrow, Zenon
<1> HIDE DEF i, s
<1>9. PlaceOK(n, t)
    <2>1. t.done \in 0 .. Len(event) /\ t.seqno \in 0 .. Len(event) /\ t.seqno > 0
        BY <1>0, <1>4, <1>5, SeqFacts, SMTT(30)
    <2>2. EnabledFor(n) BY <1>1, Zenon DEF EnabledFor
    <2>3. k <= t.done BY <1>0, <1>4
    <2>4. \A j \in EventsOf("ENABLE_SUBSCRIPTION") : event[j].node = n => j = k
        BY <1>1, Zenon DEF EnableInv
    <2> QED BY <1>4, <1>5, <2>1, <2>2, <2>3, <2>4, ZenonT(40) DEF PlaceOK
<1>10. RowsOK(t)
    <2>1. t.rows \subseteq RowsDone
        BY <1>4, <1>6, <1>7, ZenonT(40) DEF RowsOK
    <2>2. Range(t.list) \subseteq t.rows
        <3>1. CASE p = Origin
            <4>1. ActionList(p, k) \subseteq RowsIn(Snapshot) BY Zenon DEF ActionList
            <4> QED BY <1>4, <1>7, <3>1, <4>1, SnapshotRows, Zenon
        <3>2. CASE p # Origin BY <1>4, <1>6, <3>2, Zenon
        <3> QED BY <3>1, <3>2, Zenon
    <2> QED BY <1>3, <1>4, <2>1, <2>2, Zenon DEF RowsOK
<1>11. HasAll(t)
    <2> SUFFICES ASSUME ~t.blind
                 PROVE  /\ RowsIn(t.snap) \subseteq t.rows
                        /\ \A j \in EventsOf("SYNC") : j <= t.done =>
                               RowsIn(event[j].snap) \subseteq t.rows
        BY Zenon DEF HasAll
    <2>1. CASE p = Origin
        BY <1>4, <1>5, <1>7, <1>8, <2>1, Zenon DEF EventsOf
    <2>2. CASE p # Origin
        <3>1. SyncsAt(p) # {} /\ ~sub[p].blind /\ HasAll(sub[p]) /\ sub[p].active
            BY <1>4, <1>6, <2>2, Zenon
        <3>2. \A j \in EventsOf("SYNC") : j <= sub[p].done =>
                  RowsIn(event[j].snap) \subseteq sub[p].rows
            BY <3>1, Zenon DEF HasAll
        <3>3. i \in EventsOf("SYNC") /\ i <= sub[p].done
            BY <1>5, <1>6, <2>2, <3>1, ZenonT(40) DEF SyncsAt
        <3>4. ASSUME NEW j \in EventsOf("SYNC"), j <= t.done
              PROVE  j <= sub[p].done
            <4>1. j \in Nat BY SeqFacts DEF EventsOf
            <4>2. sub[p].done \in Nat
                BY <1>6, <2>2, SubFields, Zenon DEF ShapeInv
            <4>3. k <= sub[p].done BY <1>6, <2>2, Zenon
            <4> QED BY <1>0, <1>4, <3>4, <4>1, <4>2, <4>3, SMTT(30)
        <3> QED BY <1>4, <1>5, <1>6, <2>2, <3>2, <3>3, <3>4, Zenon
    <2> QED BY <2>1, <2>2, Zenon
<1>12. ASSUME p = Origin, ~t.early
       PROVE  DirectOK(t)
    <2>1. t.rows \subseteq RowsIn(t.snap) \cup Range(t.list)
        <3>1. \A a \in RowsIn(Snapshot) : a \in DOMAIN log /\ a \in LogOf(p)
            BY <1>12, Zenon DEF LogOf, RowsIn
        <3>2. \A a \in RowsIn(Snapshot) :
                  a \in ActionList(p, k) \/ Visible(log[a], SetsyncOf(p, k).snap)
            BY <3>1, Zenon DEF ActionList
        <3>3. t.rows = RowsIn(Snapshot) BY <1>4, <1>12, Zenon DEF RowsAt
        <3>4. \A a \in t.rows : a \in Range(t.list) \/ a \in RowsIn(SetsyncOf(p, k).snap)
            <4>1. \A a \in DOMAIN log : Visible(log[a], SetsyncOf(p, k).snap) =>
                      a \in RowsIn(SetsyncOf(p, k).snap)
                BY Zenon DEF RowsIn
            <4>2. Range(t.list) = ActionList(p, k) BY <1>4, Zenon
            <4> QED BY <3>1, <3>2, <3>3, <4>1, <4>2, Zenon
        <3>5. t.snap = SetsyncOf(p, k).snap BY <1>4, Zenon
        <3> QED BY <3>4, <3>5, Zenon
    <2>2. ASSUME NEW j \in EventsOf("SYNC"), j > t.seqno
          PROVE  FALSE
        <3>1. j \in SyncsAt(p) BY <1>12, Zenon DEF SyncsAt, Has
        <3>2. j <= i BY <1>5, <3>1, Zenon
        <3>3. i \in Nat /\ j \in Nat BY <1>5, SeqFacts DEF EventsOf
        <3> QED BY <1>4, <2>2, <3>2, <3>3, SMTT(30)
    <2>3. making.type = "SYNC" => Range(t.list) \subseteq RowsIn(making.snap)
        <3> SUFFICES ASSUME making.type = "SYNC" PROVE Range(t.list) \subseteq RowsIn(making.snap)
            OBVIOUS
        <3>1. ~SyncMisses(RowsAt(p)) BY <1>4, <1>12, Zenon
        <3>2. \A a \in RowsAt(p) : Visible(log[a], making.snap) BY <3>1, Zenon DEF SyncMisses
        <3>3. Range(t.list) \subseteq t.rows BY <1>10, Zenon DEF RowsOK
        <3>4. t.rows \subseteq DOMAIN log BY <1>10, Zenon DEF RowsOK, RowsDone
        <3> QED BY <1>4, <3>2, <3>3, <3>4, ZenonT(40) DEF RowsIn
    <2> QED BY <2>1, <2>2, <2>3, Zenon DEF DirectOK
<1>13. ASSUME p # Origin
       PROVE  CascadeOK(t, p)
    <2>1. t.list = <<>>
        BY <1>4, <1>6, <1>13, EmptyList, SubFields, ZenonT(40)
    <2>2. t.rows = sub[p].rows /\ sub[p].active /\ sub[p].fwd \subseteq RowsIn(t.snap)
        BY <1>4, <1>6, <1>13, Zenon
    <2>3. sub[p].blind => t.blind BY <1>4, <1>13, Zenon
    <2> QED BY <2>1, <2>2, <2>3, Zenon DEF CascadeOK
<1>14. t \in GoodStates(n)
    BY <1>4, <1>9, <1>10, <1>11, <1>12, <1>13, Zenon DEF GoodStates, SubOK
<1>15. Follows(n, t)
    BY <1>0, <1>3, <1>4, Zenon DEF Follows, s
<1> QED BY <1>14, <1>15, Zenon

-----------------------------------------------------------------------------
(* The steps of the subscribers keep what is known of the others.          *)

LEMMA OriginStays ==
    ASSUME UNCHANGED <<setup, xact, log, event, making>>
    PROVE  /\ Receiver' = Receiver
           /\ SnapInv => SnapInv'
           /\ EnableInv => EnableInv'
<1>1. Receiver' = Receiver BY Zenon DEF Receiver
<1>2. SnapInv => SnapInv'
    BY ZenonT(40) DEF SnapInv, SnapOK, Before, Visible
<1>3. EnableInv => EnableInv'
    <2> SUFFICES ASSUME EnableInv PROVE EnableInv'
        OBVIOUS
    <2>1. \A i : i \in EventsOf("ENABLE_SUBSCRIPTION")' <=> i \in EventsOf("ENABLE_SUBSCRIPTION")
        BY Zenon DEF EventsOf
    <2>2. ASSUME NEW m, NEW i, ProviderFirst(m, i)
          PROVE  ProviderFirst(m, i)'
        BY <2>1, <2>2, Zenon DEF ProviderFirst
    <2>3. \A m : EnabledFor(m)' => EnabledFor(m)
        BY <2>1, Zenon DEF EnabledFor
    <2>4. ASSUME NEW i \in EventsOf("ENABLE_SUBSCRIPTION")
          PROVE  ProviderFirst(event[i].node, i)'
        <3>1. PICK m : m = event[i].node /\ ProviderFirst(m, i)' BY <2>2, Zenon DEF EnableInv
        <3> QED BY <3>1, Zenon DEF ProviderFirst
    <2>5. ASSUME making.type = "ENABLE_SUBSCRIPTION"
          PROVE  ~EnabledFor(making.node)' /\ ProviderFirst(making.node, Len(event) + 1)'
        <3>1. PICK m : m = making.node /\ ~EnabledFor(m)' /\ ProviderFirst(m, Len(event) + 1)
            BY <2>3, <2>5, Zenon DEF EnableInv
        <3>2. PICK i : i = Len(event) + 1 /\ ProviderFirst(m, i)' BY <2>2, <3>1, Zenon
        <3> QED BY <3>1, <3>2, Zenon DEF ProviderFirst, EnabledFor
    <2> QED BY <1>1, <2>1, <2>4, <2>5, Zenon DEF EnableInv
<1> QED BY <1>1, <1>2, <1>3, Zenon

(* Node u only gets rows it has not got, and forwards them all. *)
LEMMA GoodAfter ==
    ASSUME ShapeInv, CopyInv, UNCHANGED <<setup, xact, log, event, making>>,
           NEW u \in Receiver,
           sub[u].active =>
               /\ sub'[u].active /\ sub'[u].blind = sub[u].blind
               /\ sub[u].rows \subseteq sub'[u].rows
               /\ sub'[u].fwd = sub[u].fwd \cup (sub'[u].rows \ sub[u].rows),
           \A m \in Receiver : m # u => sub'[m] = sub[m],
           NEW n \in Receiver, NEW s \in GoodStates(n)
    PROVE  s \in GoodStates(n)'
<1> DEFINE p == setup.provider[n]
<1>1. /\ s \in Subscriber /\ PlaceOK(n, s) /\ RowsOK(s) /\ HasAll(s)
      /\ s.active /\ p = Origin /\ ~s.early => DirectOK(s)
      /\ s.active /\ p # Origin => CascadeOK(s, p)
    BY Zenon DEF GoodStates, SubOK
<1>2. PlaceOK(n, s)'
    BY <1>1, Zenon DEF PlaceOK, EnabledFor, EventsOf
<1>3. RowsOK(s)'
    BY <1>1, Zenon DEF RowsOK, RowsDone, EventsOf, RowsIn, Visible
<1>4. HasAll(s)'
    BY <1>1, Zenon DEF HasAll, EventsOf, RowsIn, Visible
<1>5. ASSUME s.active, p = Origin, ~s.early
      PROVE  DirectOK(s)'
    <2>1. DirectOK(s) BY <1>1, <1>5, Zenon
    <2> QED BY <2>1, Zenon DEF DirectOK, EventsOf, RowsIn, Visible
<1>6. ASSUME s.active, p # Origin
      PROVE  CascadeOK(s, setup.provider[n])'
    <2>0. setup' = setup /\ p \in Receiver BY <1>6, LogOfFacts, Zenon
    <2>1. /\ sub[p].active /\ (sub[p].blind => s.blind)
          /\ sub[p].rows \subseteq s.rows \cup sub[p].fwd
          /\ s.rows \subseteq sub[p].rows
          /\ sub[p].fwd \cap s.rows \subseteq RowsIn(s.snap)
          /\ s.list = <<>>
        BY <1>1, <1>6, Zenon DEF CascadeOK
    <2>2. /\ sub'[p].active /\ (sub'[p].blind => s.blind)
          /\ sub'[p].rows \subseteq s.rows \cup sub'[p].fwd
          /\ s.rows \subseteq sub'[p].rows
          /\ sub'[p].fwd \cap s.rows \subseteq RowsIn(s.snap)
        <3>1. CASE p # u BY <2>0, <2>1, <3>1, Zenon
        <3>2. CASE p = u BY <2>1, <3>2, Zenon
        <3> QED BY <3>1, <3>2, Zenon
    <2> QED BY <2>0, <2>1, <2>2, Zenon DEF CascadeOK, RowsIn, Visible
<1> QED BY <1>1, <1>2, <1>3, <1>4, <1>5, <1>6, ZenonT(40) DEF GoodStates, SubOK

(* A step of the workers before they commit. *)
LEMMA CopyWork ==
    ASSUME ShapeInv, CopyInv, UNCHANGED copyVars,
           \A n \in Receiver : work'[<<n, Origin>>] \in CopierStates(n)
    PROVE  CopyInv'
<1>0. UNCHANGED <<setup, xact, log, event, making>> /\ sub' = sub
    BY Zenon DEF copyVars
<1>1. SnapInv' /\ EnableInv' /\ Receiver' = Receiver
    BY <1>0, OriginStays, Zenon DEF CopyInv
<1>2. ASSUME NEW n \in Receiver
      PROVE  \A s \in GoodStates(n) : s \in GoodStates(n)'
    <2>1. \A R, F : F \cup (R \ R) = F OBVIOUS
    <2> QED BY <1>0, <2>1, GoodAfter, Zenon
<1>3. ASSUME NEW n \in Receiver
      PROVE  \A v \in CopierStates(n) : v \in CopierStates(n)'
    BY <1>0, <1>2, Zenon DEF CopierStates, Upcoming, Follows
<1> QED BY <1>0, <1>1, <1>2, <1>3, Zenon DEF CopyInv

LEMMA CopierFacts ==
    ASSUME ShapeInv, CopyInv, NEW w \in Worker, w[2] = Origin
    PROVE  /\ w = <<w[1], Origin>> /\ w[1] \in Receiver /\ work[w] \in CopierStates(w[1])
           /\ work[w].pc = "work" => work[w].seq \in Upcoming(w[1])
           /\ work[w].pc \in {"worked", "closed"} =>
                  work[w].res \in GoodStates(w[1]) /\ Follows(w[1], work[w].res)
<1>1. w = <<w[1], Origin>> /\ w[1] \in Receiver
    BY WorkerFacts, Zenon DEF ShapeInv
<1>2. work[w] \in CopierStates(w[1])
    <2>1. work[<<w[1], Origin>>] \in CopierStates(w[1]) BY <1>1, Zenon DEF CopyInv
    <2> QED BY <1>1, <2>1, Zenon
<1> QED BY <1>1, <1>2, Zenon DEF CopierStates

LEMMA CopierOne ==
    ASSUME ShapeInv, CopyInv, UNCHANGED copyVars, NEW w \in Worker,
           \A v \in Worker : v # w => work'[v] = work[v],
           w[2] = Origin => work'[w] \in CopierStates(w[1])
    PROVE  CopyInv'
<1>1. ASSUME NEW n \in Receiver
      PROVE  work'[<<n, Origin>>] \in CopierStates(n)
    <2> DEFINE u == <<n, Origin>>
    <2>1. u \in Worker /\ u[1] = n /\ u[2] = Origin
        <3>1. u \in Worker BY WorkerFacts, Zenon DEF ShapeInv
        <3> QED BY <3>1
    <2>2. work[u] \in CopierStates(n) BY Zenon DEF CopyInv
    <2> HIDE DEF u
    <2>3. work'[u] \in CopierStates(n) BY <2>1, <2>2, Zenon
    <2> QED BY <2>3, Zenon DEF u
<1> QED BY <1>1, CopyWork, Zenon

LEMMA CopyBegin ==
    ASSUME ShapeInv, CopyInv, NEW w \in Worker, Begin(w)
    PROVE  CopyInv'
<1>1. UNCHANGED copyVars
    BY Zenon DEF Begin
<1>2. PICK k \in Nat \ {0} : NextOf(w, k) /\ work'[w] = Opened(w, k)
    BY ShapeBegin, Zenon
<1>3. \A v \in Worker : v # w => work'[v] = work[v]
    BY ShapeBegin, Zenon
<1>4. counter \in Nat BY Zenon DEF ShapeInv
<1>5. Opened(w, k) \in WorkerState /\ Opened(w, k).pc = "work" /\ Opened(w, k).seq = k
    BY <1>4, OpenedFacts, Zenon
<1>6. ASSUME w[2] = Origin
      PROVE  k \in Upcoming(w[1])
    <2>1. /\ k > sub[w[1]].done /\ k <= Len(event)
          /\ k > sub[w[1]].done + 1 => \A i \in sub[w[1]].done + 1 .. k : event[i].type = "SYNC"
        BY <1>2, <1>6, Zenon DEF NextOf
    <2>2. k \in DOMAIN event BY <2>1, SeqFacts
    <2> QED BY <2>1, <2>2, Zenon DEF Upcoming
<1>7. w[2] = Origin => work'[w] \in CopierStates(w[1])
    <2>1. "work" \notin {"worked", "closed"} OBVIOUS
    <2> QED BY <1>2, <1>5, <1>6, <2>1, Zenon DEF CopierStates
<1> QED BY <1>1, <1>3, <1>7, CopierOne, Zenon

LEMMA CopyWorked ==
    ASSUME ShapeInv, CopyInv, NEW w \in Worker, NEW t \in Subscriber, NEW f \in File,
           work[w].pc = "work", Worked(w, t, f),
           w[2] = Origin => t \in GoodStates(w[1]) /\ Follows(w[1], t)
    PROVE  CopyInv'
<1>1. UNCHANGED copyVars
    BY Zenon DEF Worked
<1>2. /\ ShapeInv' /\ work'[w].pc = "worked" /\ work'[w].res = t
      /\ \A v \in Worker : v # w => work'[v] = work[v]
    BY ShapeWorked, Zenon
<1>3. work'[w] \in WorkerState
    <2>1. w \in Worker' BY <1>1, Zenon DEF copyVars, Worker, Receiver
    <2> QED BY <1>2, <2>1, ZenonT(40) DEF ShapeInv
<1>4. w[2] = Origin => work'[w] \in CopierStates(w[1])
    <2>1. "worked" # "work" OBVIOUS
    <2> QED BY <1>2, <1>3, <2>1, Zenon DEF CopierStates
<1> QED BY <1>1, <1>2, <1>4, CopierOne, Zenon

LEMMA CopyDoSync ==
    ASSUME ShapeInv, CopyInv, NEW w \in Worker, DoSync(w)
    PROVE  CopyInv'
<1> DEFINE n == w[1]
           k == work[w].seq
           t == AfterSync(n, k)
           f == [kind |-> "sync", rows |-> Fetched(n, k)]
<1>1. t \in Subscriber /\ f \in File /\ work[w].pc = "work" /\ Worked(w, t, f)
    BY DoSyncFacts, Zenon
<1>2. At(w, "SYNC") /\ SyncPossible(n, k)
    BY Zenon DEF DoSync
<1>3. w[2] = Origin /\ event[k].type = "SYNC"
    BY <1>2, AtFacts
<1>4. n \in Receiver /\ k \in Upcoming(n)
    BY <1>1, <1>3, CopierFacts, Zenon
<1>5. t \in GoodStates(n) /\ Follows(n, t)
    BY <1>2, <1>3, <1>4, SyncGood, Zenon
<1> HIDE DEF t, f
<1> QED BY <1>1, <1>5, CopyWorked, Zenon

LEMMA CopyDoEnableOther ==
    ASSUME ShapeInv, CopyInv, NEW w \in Worker, DoEnableOther(w)
    PROVE  CopyInv'
<1> DEFINE n == w[1]
           k == work[w].seq
           t == [sub[n] EXCEPT !.done = k]
           f == [kind |-> "sync", rows |-> {}]
<1>1. t \in Subscriber /\ f \in File /\ work[w].pc = "work" /\ Worked(w, t, f)
    BY DoEnableOtherFacts, Zenon
<1>2. At(w, "ENABLE_SUBSCRIPTION") /\ event[k].node # n
    BY Zenon DEF DoEnableOther
<1>3. w[2] = Origin /\ event[k].type = "ENABLE_SUBSCRIPTION"
    BY <1>2, AtFacts
<1>4. n \in Receiver /\ k \in Upcoming(n)
    BY <1>1, <1>3, CopierFacts, Zenon
<1>5. t \in GoodStates(n) /\ Follows(n, t)
    BY <1>2, <1>3, <1>4, EnableOtherGood, Zenon
<1> HIDE DEF t, f
<1> QED BY <1>1, <1>5, CopyWorked, Zenon

LEMMA CopyDoCopy ==
    ASSUME ShapeInv, CopyInv, NEW w \in Worker, DoCopy(w)
    PROVE  CopyInv'
<1> DEFINE n == w[1]
           k == work[w].seq
           p == setup.provider[n]
<1>1. At(w, "ENABLE_SUBSCRIPTION") /\ event[k].node = n /\ Has(p, k) /\ work[w].pc = "work"
    BY DoCopyFacts, Zenon
<1>2. PICK list \in Orders(ActionList(p, k)) :
              /\ AfterCopy(n, k, list) \in Subscriber
              /\ [kind |-> "copy", rows |-> RowsAt(p)] \in File
              /\ Worked(w, AfterCopy(n, k, list), [kind |-> "copy", rows |-> RowsAt(p)])
    BY DoCopyFacts, Zenon
<1>3. w[2] = Origin /\ event[k].type = "ENABLE_SUBSCRIPTION"
    BY <1>1, AtFacts
<1>4. n \in Receiver /\ k \in Upcoming(n)
    BY <1>1, <1>3, CopierFacts, Zenon
<1>5. AfterCopy(n, k, list) \in GoodStates(n) /\ Follows(n, AfterCopy(n, k, list))
    BY <1>1, <1>3, <1>4, CopyGood, Zenon
<1> QED BY <1>1, <1>2, <1>5, CopyWorked, Zenon

LEMMA CopyDoOther ==
    ASSUME ShapeInv, CopyInv, NEW w \in Worker, DoOther(w)
    PROVE  CopyInv'
<1> DEFINE t == [sub[2] EXCEPT !.other = @ \cup {work[w].seq}]
           f == [kind |-> "other", row |-> work[w].seq]
<1>1. t \in Subscriber /\ f \in File /\ work[w].pc = "work" /\ Worked(w, t, f) /\ w[2] = 3
    BY DoOtherFacts, Zenon
<1>2. w[2] # Origin BY <1>1 DEF Origin
<1> HIDE DEF t, f
<1> QED BY <1>1, <1>2, CopyWorked, Zenon

(* A worker whose transaction is rolled back, or whose file is closed. *)
LEMMA IdleCopier ==
    ASSUME NEW n, NEW v \in WorkerState, v.pc = "idle"
    PROVE  v \in CopierStates(n)
<1>1. "idle" # "work" /\ "idle" \notin {"worked", "closed"} OBVIOUS
<1> QED BY <1>1, Zenon DEF CopierStates

LEMMA CopyStopped ==
    ASSUME ShapeInv, CopyInv, UNCHANGED copyVars, NEW n, StoppedAt(n)
    PROVE  CopyInv'
<1>1. ASSUME NEW m \in Receiver
      PROVE  work'[<<m, Origin>>] \in CopierStates(m)
    <2>1. <<m, Origin>> \in Worker BY WorkerFacts, Zenon DEF ShapeInv
    <2>2. Idle \in CopierStates(m) BY IdleFacts, IdleCopier, Zenon
    <2>3. work[<<m, Origin>>] \in CopierStates(m) BY Zenon DEF CopyInv
    <2> QED BY <2>1, <2>2, <2>3, Zenon DEF StoppedAt
<1> QED BY <1>1, CopyWork, Zenon

LEMMA CopySyncFails ==
    ASSUME ShapeInv, CopyInv, NEW w \in Worker, SyncFails(w)
    PROVE  CopyInv'
<1>1. UNCHANGED copyVars BY Zenon DEF SyncFails
<1>2. ShapeInv' /\ work'[w].pc = "idle" /\ \A v \in Worker : v # w => work'[v] = work[v]
    BY ShapeSyncFails, Zenon
<1>3. w \in Worker' BY <1>1, Zenon DEF copyVars, Worker, Receiver
<1>4. work'[w] \in WorkerState BY <1>2, <1>3, Zenon DEF ShapeInv
<1> QED BY <1>1, <1>2, <1>4, IdleCopier, CopierOne, ZenonT(40)

LEMMA CopyRollback ==
    ASSUME ShapeInv, CopyInv, NEW w \in Worker, NEW keep \in BOOLEAN, CopyRolledBack(w, keep)
    PROVE  CopyInv'
<1>1. UNCHANGED copyVars BY Zenon DEF CopyRolledBack
<1>2. /\ ShapeInv' /\ work'[w].pc = work[w].pc /\ work'[w].seq = work[w].seq
      /\ work'[w].res = work[w].res /\ \A v \in Worker : v # w => work'[v] = work[v]
    BY ShapeRolledBack, Zenon
<1>3. w \in Worker' BY <1>1, Zenon DEF copyVars, Worker, Receiver
<1>4. work'[w] \in WorkerState BY <1>2, <1>3, Zenon DEF ShapeInv
<1>5. w[2] = Origin => work'[w] \in CopierStates(w[1])
    BY <1>2, <1>4, CopierFacts, Zenon DEF CopierStates
<1> QED BY <1>1, <1>2, <1>5, CopierOne, Zenon

LEMMA CopyClose ==
    ASSUME ShapeInv, CopyInv, NEW w \in Worker, archive_close(w)
    PROVE  CopyInv'
<1>1. UNCHANGED copyVars BY Zenon DEF archive_close
<1>2. CASE w \in tmp
    <2>1. /\ ShapeInv' /\ work[w].pc = "worked" /\ work'[w].pc = "closed"
          /\ work'[w].res = work[w].res /\ \A v \in Worker : v # w => work'[v] = work[v]
        BY <1>2, ShapeClose, Zenon
    <2>2. w \in Worker' BY <1>1, Zenon DEF copyVars, Worker, Receiver
    <2>3. work'[w] \in WorkerState BY <2>1, <2>2, Zenon DEF ShapeInv
    <2>4. "closed" # "work" OBVIOUS
    <2>5. w[2] = Origin => work'[w] \in CopierStates(w[1])
        BY <2>1, <2>3, <2>4, CopierFacts, Zenon DEF CopierStates
    <2> QED BY <1>1, <2>1, <2>5, CopierOne, Zenon
<1>3. CASE w \notin tmp
    BY <1>1, <1>3, ShapeClose, CopyStopped, Zenon
<1> QED BY <1>2, <1>3, Zenon

(* What the subscriber makes of another origin's rows changes nothing here. *)
LEMMA OtherGood ==
    ASSUME NEW n, NEW s \in GoodStates(n), NEW t, AllButOther(s, t)
    PROVE  t \in GoodStates(n)
<1>0. /\ t \in Subscriber
      /\ t.rows = s.rows /\ t.fwd = s.fwd /\ t.active = s.active /\ t.done = s.done
      /\ t.seqno = s.seqno /\ t.snap = s.snap /\ t.list = s.list
      /\ t.early = s.early /\ t.blind = s.blind
    BY Zenon DEF AllButOther
<1>1. SubOK(n, s) BY Zenon DEF GoodStates
<1>2. PlaceOK(n, t) /\ RowsOK(t) /\ HasAll(t)
    BY <1>0, <1>1, Zenon DEF SubOK, PlaceOK, RowsOK, HasAll
<1>3. t.active /\ setup.provider[n] = Origin /\ ~t.early => DirectOK(t)
    BY <1>0, <1>1, Zenon DEF SubOK, DirectOK
<1>4. t.active /\ setup.provider[n] # Origin => CascadeOK(t, setup.provider[n])
    BY <1>0, <1>1, Zenon DEF SubOK, CascadeOK
<1> QED BY <1>0, <1>2, <1>3, <1>4, Zenon DEF GoodStates, SubOK

LEMMA CopyCommit ==
    ASSUME ShapeInv, CopyInv, NEW w \in Worker, Commit(w)
    PROVE  CopyInv'
<1> DEFINE n == w[1]
           t == Result(w)
           s == IF w[2] = Origin THEN work[w].res ELSE sub[n]
<1>1. /\ work[w].pc \in {"worked", "closed"} /\ sub'[n] = t
      /\ \A m \in Receiver : m # n => sub'[m] = sub[m]
      /\ work'[w] = Idle /\ \A v \in Worker : v # w => work'[v] = work[v]
      /\ UNCHANGED <<setup, xact, log, event, making>>
    BY CommittedFacts, Zenon
<1>a. AllButOther(s, t)
    BY <1>1, ResultFacts, Zenon
<1>2. /\ t.rows = s.rows /\ t.fwd = s.fwd /\ t.active = s.active /\ t.done = s.done
      /\ t.blind = s.blind
    BY <1>a, Zenon DEF AllButOther
<1>3. n \in Receiver
    BY WorkFacts, Zenon
<1>4. s \in GoodStates(n)
    BY <1>1, <1>3, CopierFacts, Zenon DEF CopyInv
<1>5. sub[n].active =>
          /\ s.active /\ s.blind = sub[n].blind /\ sub[n].rows \subseteq s.rows
          /\ s.fwd = sub[n].fwd \cup (s.rows \ sub[n].rows)
    <2>1. CASE w[2] = Origin
        BY <1>1, <2>1, CopierFacts, Zenon DEF Follows
    <2>2. CASE w[2] # Origin
        <3>1. \A R, F : F \cup (R \ R) = F OBVIOUS
        <3> QED BY <2>2, <3>1, Zenon
    <2> QED BY <2>1, <2>2, Zenon
<1>6. w[2] # Origin => s = sub[n]
    BY Zenon
<1> HIDE DEF n, t, s
<1>7. t \in GoodStates(n)
    BY <1>4, <1>a, OtherGood, Zenon
<1>8. \A m \in Receiver : \A r \in GoodStates(m) : r \in GoodStates(m)'
    <2>1. sub[n].active =>
              /\ sub'[n].active /\ sub'[n].blind = sub[n].blind
              /\ sub[n].rows \subseteq sub'[n].rows
              /\ sub'[n].fwd = sub[n].fwd \cup (sub'[n].rows \ sub[n].rows)
        BY <1>1, <1>2, <1>5, Zenon
    <2> QED BY <1>1, <1>3, <2>1, GoodAfter, Zenon
<1>9. \A m \in Receiver : sub'[m] \in GoodStates(m)'
    BY <1>1, <1>7, <1>8, Zenon DEF CopyInv
<1>10. ASSUME NEW m \in Receiver
       PROVE  work'[<<m, Origin>>] \in CopierStates(m)'
    <2> DEFINE u == <<m, Origin>>
    <2>0. u \in Worker BY WorkerFacts, Zenon DEF ShapeInv
    <2>1. u[1] = m /\ u[2] = Origin OBVIOUS
    <2>2. work[u] \in CopierStates(m) BY Zenon DEF CopyInv
    <2> HIDE DEF u
    <2>3. CASE u = w
        <3>1. Idle \in WorkerState /\ Idle.pc = "idle" BY IdleFacts, Zenon
        <3>2. "idle" # "work" /\ "idle" \notin {"worked", "closed"} OBVIOUS
        <3>3. Idle \in CopierStates(m)' BY <3>1, <3>2, Zenon DEF CopierStates
        <3> QED BY <1>1, <2>3, <3>3, Zenon DEF u
    <2>4. CASE u # w
        <3>1. m = n => w[2] # Origin
            BY <2>1, <2>4, WorkerFacts, Zenon DEF ShapeInv, n, u
        <3>2. /\ sub'[m].rows = sub[m].rows /\ sub'[m].fwd = sub[m].fwd
              /\ sub'[m].active = sub[m].active /\ sub'[m].done = sub[m].done
              /\ sub'[m].blind = sub[m].blind
            BY <1>1, <1>2, <1>6, <3>1, Zenon
        <3>3. work'[u] = work[u] BY <1>1, <2>0, <2>4, Zenon
        <3>4. \A k \in Upcoming(m) : k \in Upcoming(m)'
            BY <1>1, <3>2, Zenon DEF Upcoming
        <3>5. \A r : Follows(m, r) => Follows(m, r)'
            BY <3>2, Zenon DEF Follows
        <3>6. work[u] \in CopierStates(m)'
            BY <1>8, <2>2, <3>4, <3>5, Zenon DEF CopierStates
        <3> QED BY <3>3, <3>6, Zenon DEF u
    <2> QED BY <2>3, <2>4, Zenon
<1>11. SnapInv' /\ EnableInv' /\ Receiver' = Receiver
    BY <1>1, OriginStays, Zenon DEF CopyInv
<1> QED BY <1>9, <1>10, <1>11, Zenon DEF CopyInv

LEMMA CopyInit == AnyInit => CopyInv
<1> SUFFICES ASSUME AnyInit PROVE CopyInv
    OBVIOUS
<1>0. ShapeInv
    BY ShapeInit, Zenon
<1>1. PICK syncs \in Nat : InitWith(setup, syncs)
    BY Zenon DEF AnyInit
<1>2. /\ xact = [i \in 1 .. syncs |-> "done"] /\ log = <<>> /\ making = NoEvent
      /\ event = [i \in 1 .. syncs |->
                    [type |-> "SYNC", node |-> Origin, xid |-> i,
                     snap |-> [xmin |-> i, xmax |-> i, xip |-> {}]]]
      /\ sub = [n \in Receiver |-> NewSubscriber(syncs)]
      /\ work = [w \in Worker |-> Idle]
    BY <1>1, Zenon DEF InitWith, Receiver
<1>3. /\ DOMAIN event = 1 .. syncs /\ Len(event) = syncs
      /\ \A i \in 1 .. syncs : /\ event[i].type = "SYNC" /\ event[i].snap.xmax = i
                               /\ event[i].snap.xip = {}
    BY <1>2
<1>4. DOMAIN xact = 1 .. syncs /\ Len(xact) = syncs /\ \A x \in DOMAIN xact : xact[x] = "done"
    BY <1>2
<1>5. EventsOf("ENABLE_SUBSCRIPTION") = {}
    BY <1>3 DEF EventsOf
<1>6. making.type = "none" BY <1>2 DEF NoEvent
<1>7. SnapInv
    <2>1. ASSUME NEW i \in DOMAIN event PROVE SnapOK(event[i].snap)
        <3>1. i \in 1 .. Len(xact) + 1 BY <1>3, <1>4
        <3>2. i > 1 => i - 1 \in DOMAIN xact BY <1>3, <1>4
        <3>3. event[i].snap.xmax = i /\ event[i].snap.xip = {} BY <1>3, Zenon
        <3> QED BY <1>4, <3>1, <3>2, <3>3, Zenon DEF SnapOK
    <2>2. ASSUME NEW i \in DOMAIN event, NEW j \in DOMAIN event, i <= j
          PROVE  Before(event[i].snap, event[j].snap)
        <3>1. event[i].snap.xmax = i /\ event[j].snap.xmax = j /\ event[j].snap.xip = {}
            BY <1>3, Zenon
        <3>2. \A x \in DOMAIN xact : x < i => x < j BY <1>3, <1>4, <2>2, SMTT(30)
        <3> QED BY <2>2, <3>1, <3>2, Zenon DEF Before, Visible
    <2> QED BY <1>2, <2>1, <2>2, Zenon DEF SnapInv
<1>8. EnableInv
    <2>1. making.type # "ENABLE_SUBSCRIPTION" BY <1>6
    <2> QED BY <1>5, <2>1, Zenon DEF EnableInv
<1>9. ASSUME NEW n \in Receiver
      PROVE  sub[n] \in GoodStates(n) /\ work[<<n, Origin>>] \in CopierStates(n)
    <2>1. sub[n] = NewSubscriber(syncs) BY <1>2, Zenon
    <2>2. /\ sub[n].rows = {} /\ sub[n].fwd = {} /\ sub[n].active = FALSE
          /\ sub[n].done = syncs /\ sub[n].seqno = 0 /\ sub[n].list = <<>>
        BY <2>1 DEF NewSubscriber
    <2>3. sub[n] \in Subscriber BY <1>0, Zenon DEF ShapeInv
    <2>4. sub[n].done \in 0 .. Len(event) /\ sub[n].seqno \in 0 .. Len(event)
        BY <1>3, <2>2
    <2>5. Range(<<>>) = {} BY DEF Range
    <2>6. PlaceOK(n, sub[n]) BY <1>5, <2>2, <2>4, Zenon DEF PlaceOK
    <2>7. RowsOK(sub[n]) BY <2>2, <2>5, Zenon DEF RowsOK
    <2>8. sub[n] \in GoodStates(n)
        BY <2>2, <2>3, <2>6, <2>7, ZenonT(40) DEF GoodStates, SubOK, HasAll
    <2>9. work[<<n, Origin>>] = Idle
        BY <1>0, <1>2, WorkerFacts, ZenonT(40) DEF ShapeInv
    <2> QED BY <2>8, <2>9, IdleFacts, IdleCopier, Zenon
<1> QED BY <1>7, <1>8, <1>9, Zenon DEF CopyInv

LEMMA CopyStays ==
    ASSUME ShapeInv, CopyInv, UNCHANGED <<copyVars, work>>
    PROVE  CopyInv'
<1>1. \A n \in Receiver : work'[<<n, Origin>>] \in CopierStates(n)
    BY Zenon DEF CopyInv
<1> QED BY <1>1, CopyWork, Zenon

LEMMA CopyWorkerStep ==
    ASSUME ShapeInv, CopyInv, NEW w \in Worker, WorkerStep(w) \/ WorkerFault(w)
    PROVE  CopyInv'
<1>1. CASE Begin(w) BY <1>1, CopyBegin, Zenon
<1>2. CASE DoSync(w) BY <1>2, CopyDoSync, ZenonT(40)
<1>3. CASE DoOther(w) BY <1>3, CopyDoOther, Zenon
<1>4. CASE DoEnableOther(w) BY <1>4, CopyDoEnableOther, Zenon
<1>5. CASE DoCopy(w) BY <1>5, CopyDoCopy, Zenon
<1>6. CASE CopyTooEarly(w) \/ CopyWaits(w) \/ CopyFails(w)
    BY <1>6, CopyRollback, ZenonT(40) DEF CopyTooEarly, CopyWaits, CopyFails
<1>7. CASE archive_close(w) BY <1>7, CopyClose, Zenon
<1>8. CASE Commit(w) BY <1>8, CopyCommit, Zenon
<1>9. CASE SyncFails(w) BY <1>9, CopySyncFails, Zenon
<1> QED BY <1>1, <1>2, <1>3, <1>4, <1>5, <1>6, <1>7, <1>8, <1>9, ZenonT(40) DEF WorkerStep, WorkerFault

LEMMA CopyNext == ShapeInv /\ CopyInv /\ [Next]_vars => CopyInv'
<1> SUFFICES ASSUME ShapeInv, CopyInv, [Next]_vars PROVE CopyInv'
    OBVIOUS
<1>1. CASE OriginStep /\ UNCHANGED shipVars BY <1>1, CopyOrigin, Zenon
<1>2. CASE \E w \in Worker : WorkerStep(w) \/ WorkerFault(w) BY <1>2, CopyWorkerStep, Zenon
<1>3. CASE \E n \in Receiver : RestartSlon(n)
    <2>1. PICK n \in Receiver : Stopped(n) /\ UNCHANGED <<copyVars, counter>>
        BY <1>3, Zenon DEF RestartSlon
    <2>2. StoppedAt(n) BY <2>1, ShapeStopped, Zenon
    <2> QED BY <2>1, <2>2, CopyStopped, Zenon
<1>4. CASE ShipperStep \/ ipc_finish \/ KillShipper
    BY <1>4, ShipperFacts, CopyStays, Zenon DEF ShipperStays
<1>5. CASE UNCHANGED vars
    BY <1>5, CopyStays, Zenon DEF vars, shipVars
<1> QED BY <1>1, <1>2, <1>3, <1>4, <1>5, ZenonT(40) DEF Next

(* In every situation, the inductive invariant of the copy: the snapshots of
   the origin are ordered, nodes are enabled after their providers, and every
   subscriber is in a state - and its worker about to commit one - in which
   its rows, its setsync and its action list agree. *)
THEOREM CopyInvariant == ShippingSpec => [](ShapeInv /\ CopyInv)
<1>1. AnyInit => ShapeInv /\ CopyInv BY ShapeInit, CopyInit, Zenon
<1>2. ShapeInv /\ CopyInv /\ [Next]_vars => ShapeInv' /\ CopyInv' BY ShapeNext, CopyNext, Zenon
<1> QED BY <1>1, <1>2, PTL DEF ShippingSpec

LEMMA CopyEnough == ShapeInv /\ CopyInv => CopyMeetsStream
<1> SUFFICES ASSUME ShapeInv, CopyInv, NEW n \in Receiver, sub[n].active
             PROVE  /\ ~sub[n].blind => RowsIn(sub[n].snap) \subseteq sub[n].rows
                    /\ ~sub[n].early => NothingTwice(n)
    BY Zenon DEF CopyMeetsStream
<1> DEFINE p == setup.provider[n]
<1>1. SnapInv /\ sub[n] \in GoodStates(n) BY Zenon DEF CopyInv
<1>2. /\ HasAll(sub[n])
      /\ p = Origin /\ ~sub[n].early => DirectOK(sub[n])
      /\ p # Origin => CascadeOK(sub[n], p)
    BY <1>1, GoodFacts, Zenon
<1>3. ~sub[n].blind => RowsIn(sub[n].snap) \subseteq sub[n].rows
    BY <1>2, Zenon DEF HasAll
<1>4. ASSUME ~sub[n].early, NEW k \in EventsOf("SYNC")
      PROVE  Fetched(n, k) \cap sub[n].rows = {}
    <2>1. CASE ~Takes(n, k) BY <2>1, Zenon DEF Fetched
    <2>2. CASE Takes(n, k)
        <3>1. k \in DOMAIN event /\ LogOf(p) \subseteq DOMAIN log
            BY LogOfFacts, Zenon DEF EventsOf
        <3>2. \A a : a \in Selected(n, k) <=>
                  /\ a \in LogOf(p) /\ a \in RowsIn(event[k].snap)
                  /\ a \notin RowsIn(sub[n].snap) /\ a \notin Range(sub[n].list)
            BY <1>1, <2>2, <3>1, SelectedFacts, ZenonT(40)
        <3>3. CASE p = Origin
            BY <1>2, <1>4, <2>2, <3>2, <3>3, ZenonT(40) DEF Fetched, DirectOK
        <3>4. CASE p # Origin
            BY <1>2, <2>2, <3>2, <3>4, ZenonT(40) DEF Fetched, CascadeOK, LogOf
        <3> QED BY <3>3, <3>4, Zenon
    <2> QED BY <2>1, <2>2, Zenon
<1> QED BY <1>3, <1>4, Zenon DEF NothingTwice

(* In every situation, with any number of subscribers in any cascade, rows,
   SYNCs, faults and restarts: a subscriber has every row its sl_setsync says
   it has, and no SYNC after the copy repeats a row - but for the copies from a
   forwarder without a SYNC and the copies that overlap a SYNC. *)
THEOREM CopyCorrect == ShippingSpec => []CopyMeetsStream
<1>1. ShapeInv /\ CopyInv => CopyMeetsStream BY CopyEnough
<1> QED BY <1>1, CopyInvariant, PTL
=============================================================================
