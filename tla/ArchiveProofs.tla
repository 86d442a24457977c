---------------------------- MODULE ArchiveProofs ----------------------------
(***************************************************************************)
(* The numbers and the directory of the archives of log shipping:          *)
(* NumberInv and ShipperInv are inductive relative to ShapeInv.  No        *)
(* archive up to the counter is missing.                                   *)
(***************************************************************************)
EXTENDS ShippingTypeProofs

LEMMA ArchiverFacts ==
    ASSUME SetupOK
    PROVE  \A w \in Worker : Archives(w) => w[1] = 2 /\ 2 \in Receiver /\ setup.archives # {}
<1> SUFFICES ASSUME NEW w \in Worker, Archives(w)
             PROVE  w[1] = 2 /\ 2 \in Receiver /\ setup.archives # {}
    OBVIOUS
<1>1. setup.archives \in {{}, {2}} /\ w[1] \in setup.archives /\ w[1] \in Receiver
    BY WorkerFacts, Zenon DEF SetupOK, Archives
<1> QED BY <1>1

(* The numbers of the archives.  A step that leaves the counter alone, and
   all workers but u. *)
LEMMA NumberOne ==
    ASSUME NumberInv, UNCHANGED <<setup, counter>>, NEW u \in Worker,
           \A w \in Worker : w # u => work'[w] = work[w],
           tmp' \subseteq Worker, \A w \in Worker : w # u /\ w \in tmp' => w \in tmp,
           Files \subseteq Files', Files' \subseteq 1 .. counter + 1,
           NumberOK(u)',
           work'[u].counted => work[u].counted \/ CounterFree
    PROVE  NumberInv'
<1>1. Worker' = Worker BY Zenon DEF Worker, Receiver
<1>2. ASSUME NEW w \in Worker PROVE NumberOK(w)'
    <2>1. CASE w = u BY <2>1, Zenon
    <2>2. CASE w # u
        <3>1. NumberOK(w) /\ work'[w] = work[w] /\ (w \in tmp' => w \in tmp)
            BY <2>2, Zenon DEF NumberInv
        <3> QED BY <3>1, Zenon DEF NumberOK, Active, Archives
    <2> QED BY <2>1, <2>2, Zenon
<1>3. ASSUME NEW v \in Worker, NEW w \in Worker, work'[v].counted, work'[w].counted
      PROVE  v = w
    <2>1. CASE v = u /\ w # u
        <3>1. work[w].counted BY <1>3, <2>1, Zenon
        <3>2. work'[u].counted /\ ~CounterFree BY <1>3, <2>1, <3>1 DEF CounterFree
        <3> QED BY <2>1, <3>1, <3>2, Zenon DEF NumberInv
    <2>2. CASE v # u /\ w = u
        <3>1. work[v].counted BY <1>3, <2>2, Zenon
        <3>2. work'[u].counted /\ ~CounterFree BY <1>3, <2>2, <3>1 DEF CounterFree
        <3> QED BY <2>2, <3>1, <3>2, Zenon DEF NumberInv
    <2>3. CASE v # u /\ w # u BY <1>3, <2>3, Zenon DEF NumberInv
    <2> QED BY <2>1, <2>2, <2>3, Zenon
<1>4. 1 .. counter' \subseteq Files' /\ Files' \subseteq 1 .. counter' + 1
    BY Zenon DEF NumberInv
<1> QED BY <1>1, <1>2, <1>3, <1>4, Zenon DEF NumberInv

LEMMA NumberBegin ==
    ASSUME ShapeInv, NumberInv, NEW w \in Worker, Begin(w)
    PROVE  NumberInv'
<1>1. PICK k \in Nat \ {0} : work'[w] = Opened(w, k)
    BY ShapeBegin, Zenon
<1>2. /\ UNCHANGED <<setup, counter, dir>> /\ work[w].pc = "idle" /\ archive_open(w)
      /\ \A v \in Worker : v # w => work'[v] = work[v]
    <2>1. \A v \in Worker : v # w => work'[v] = work[v]
        BY ShapeBegin, Zenon
    <2> QED BY <2>1, Zenon DEF Begin, copyVars
<1>3. counter \in Nat /\ k \in Nat BY Zenon DEF ShapeInv
<1>4. counter + 1 \in 1 .. counter + 1 BY <1>3
<1>5. /\ work'[w].pc = "work"
      /\ Archives(w) => work'[w].n = counter + 1 /\ work'[w].counted = TRUE
      /\ ~Archives(w) => work'[w].counted = FALSE
    <2>1. /\ Opened(w, k).pc = "work"
          /\ Archives(w) => Opened(w, k).n = counter + 1 /\ Opened(w, k).counted = TRUE
          /\ ~Archives(w) => Opened(w, k).counted = FALSE
        BY <1>3, OpenedFacts, Zenon
    <2> QED BY <1>1, <2>1
<1>6. NumberOK(w)
    BY Zenon DEF NumberInv
<1>7. CASE Archives(w)
    <2>1. CounterFree /\ tmp' = tmp \cup {w}
        BY <1>2, <1>7, Zenon DEF archive_open
    <2>2. NumberOK(w)'
        BY <1>2, <1>4, <1>5, <1>7, Zenon DEF NumberOK, Active, Archives
    <2> QED BY <1>2, <2>1, <2>2, NumberOne, Zenon DEF NumberInv, Files
<1>8. CASE ~Archives(w)
    <2>1. tmp' = tmp
        BY <1>2, <1>8, Zenon DEF archive_open
    <2>2. NumberOK(w)'
        BY <1>2, <1>5, <1>6, <1>8, <2>1, Zenon DEF NumberOK, Active, Archives
    <2> QED BY <1>2, <1>5, <1>8, <2>1, <2>2, NumberOne, Zenon DEF NumberInv, Files
<1> QED BY <1>7, <1>8, Zenon

LEMMA NumberWorked ==
    ASSUME ShapeInv, NumberInv, NEW w \in Worker, NEW res \in Subscriber, NEW out \in File,
           work[w].pc = "work", Worked(w, res, out)
    PROVE  NumberInv'
<1>1. /\ work'[w].pc = "worked" /\ work'[w].n = work[w].n /\ work'[w].counted = work[w].counted
      /\ \A v \in Worker : v # w => work'[v] = work[v]
    BY ShapeWorked, Zenon
<1>2. UNCHANGED <<setup, counter, tmp, dir>>
    BY Zenon DEF Worked, copyVars
<1>3. NumberOK(w) BY Zenon DEF NumberInv
<1>4. NumberOK(w)'
    BY <1>1, <1>2, <1>3, Zenon DEF NumberOK, Active, Archives, Files
<1> QED BY <1>1, <1>2, <1>4, NumberOne, Zenon DEF NumberInv, Files

LEMMA NumberSyncFails ==
    ASSUME ShapeInv, NumberInv, NEW w \in Worker, SyncFails(w)
    PROVE  NumberInv'
<1>1. /\ work'[w].pc = "idle" /\ work'[w].counted = FALSE
      /\ \A v \in Worker : v # w => work'[v] = work[v]
    BY ShapeSyncFails, Zenon
<1>2. UNCHANGED <<setup, counter, dir>> /\ tmp' = tmp \ {w}
    BY Zenon DEF SyncFails, archive_terminate, copyVars
<1>3. NumberOK(w)'
    BY <1>1, <1>2, Zenon DEF NumberOK, Active
<1> QED BY <1>1, <1>2, <1>3, NumberOne, Zenon DEF NumberInv, Files

LEMMA NumberRolledBack ==
    ASSUME ShapeInv, NumberInv, NEW w \in Worker, NEW keep \in BOOLEAN, CopyRolledBack(w, keep)
    PROVE  NumberInv'
<1>1. /\ work'[w].pc = work[w].pc /\ work'[w].n = work[w].n /\ work'[w].counted = FALSE
      /\ \A v \in Worker : v # w => work'[v] = work[v]
    BY ShapeRolledBack, Zenon
<1>2. UNCHANGED <<setup, counter, dir>> /\ tmp' \subseteq tmp
    BY Zenon DEF CopyRolledBack, archive_terminate, copyVars
<1>3. NumberOK(w) BY Zenon DEF NumberInv
<1>4. NumberOK(w)'
    BY <1>1, <1>2, <1>3, Zenon DEF NumberOK, Active, Archives, Files
<1> QED BY <1>1, <1>2, <1>4, NumberOne, Zenon DEF NumberInv, Files

LEMMA NumberStopped ==
    ASSUME ShapeInv, NumberInv, NEW n, Stopped(n), UNCHANGED <<copyVars, counter, dir>>
    PROVE  NumberInv'
<1>1. StoppedAt(n)
    BY ShapeStopped, Zenon
<1>2. UNCHANGED <<setup, counter, dir>> /\ tmp' = tmp \ {w \in Worker : w[1] = n}
    BY Zenon DEF Stopped, archive_terminate, copyVars
<1>3. Worker' = Worker BY <1>2, Zenon DEF Worker, Receiver
<1>4. ASSUME NEW w \in Worker
      PROVE  \/ w[1] = n /\ work'[w].pc = "idle" /\ work'[w].counted = FALSE /\ w \notin tmp'
             \/ w[1] # n /\ work'[w] = work[w] /\ (w \in tmp' => w \in tmp)
    <2>1. CASE w[1] = n
        <3>1. work'[w] = Idle BY <1>1, <2>1, Zenon DEF StoppedAt
        <3>2. work'[w].pc = "idle" /\ work'[w].counted = FALSE BY <3>1, IdleFacts
        <3> QED BY <1>2, <2>1, <3>2, Zenon
    <2>2. CASE w[1] # n BY <1>1, <1>2, <2>2, Zenon DEF StoppedAt
    <2> QED BY <2>1, <2>2, Zenon
<1>5. ASSUME NEW w \in Worker PROVE NumberOK(w)'
    <2>1. NumberOK(w) BY Zenon DEF NumberInv
    <2>2. CASE work'[w].pc = "idle" /\ work'[w].counted = FALSE /\ w \notin tmp'
        BY <2>2, Zenon DEF NumberOK, Active
    <2>3. CASE work'[w] = work[w] /\ (w \in tmp' => w \in tmp)
        BY <1>2, <2>1, <2>3, Zenon DEF NumberOK, Active, Archives, Files
    <2> QED BY <1>4, <2>2, <2>3, Zenon
<1>6. \A w \in Worker : work'[w].counted => work[w].counted
    BY <1>4, Zenon
<1> QED BY <1>2, <1>3, <1>5, <1>6, Zenon DEF NumberInv, Files

LEMMA NumberStays ==
    ASSUME NumberInv, UNCHANGED <<setup, work, counter, tmp, dir>>
    PROVE  NumberInv'
BY ZenonT(40) DEF NumberInv, NumberOK, Active, Archives, Files, Worker, Receiver

LEMMA NumberClose ==
    ASSUME ShapeInv, NumberInv, NEW w \in Worker, archive_close(w)
    PROVE  NumberInv'
<1>1. CASE w \notin tmp
    <2>1. Stopped(w[1]) /\ UNCHANGED <<copyVars, counter, dir>>
        BY <1>1, Zenon DEF archive_close
    <2> QED BY <2>1, NumberStopped, Zenon
<1>2. CASE w \in tmp
    <2>1. /\ work'[w].pc = "closed" /\ work'[w].n = work[w].n /\ work'[w].counted = work[w].counted
          /\ Archives(w) /\ work[w].pc = "worked"
          /\ \A v \in Worker : v # w => work'[v] = work[v]
        BY <1>2, ShapeClose, Zenon
    <2>2. NumberOK(w) BY Zenon DEF NumberInv
    <2>3. work[w].n \in 1 .. counter + 1
        BY <2>1, <2>2, Zenon DEF NumberOK, Active
    <2>4. Files' = Files \cup {work[w].n}
        <3>1. PICK f : dir' = [m \in Files \cup {work[w].n} |-> IF m = work[w].n THEN f ELSE dir[m]]
            BY <1>2, Zenon DEF archive_close
        <3> QED BY <3>1, Zenon DEF Files
    <2>5. UNCHANGED <<setup, counter>> /\ tmp' = tmp \ Writing(work[w].n)
        BY <1>2, Zenon DEF archive_close, copyVars
    <2>6. w \notin tmp'
        BY <1>2, <2>5, Zenon DEF Writing
    <2>7. NumberOK(w)'
        BY <2>1, <2>2, <2>3, <2>4, <2>5, <2>6, Zenon DEF NumberOK, Active, Archives
    <2> QED BY <2>1, <2>3, <2>4, <2>5, <2>7, NumberOne, Zenon DEF NumberInv
<1> QED BY <1>1, <1>2, Zenon

LEMMA NumberCommit ==
    ASSUME ShapeInv, NumberInv, NEW w \in Worker, Commit(w)
    PROVE  NumberInv'
<1>1. /\ work'[w] = Idle /\ \A v \in Worker : v # w => work'[v] = work[v]
      /\ Archives(w) => work[w].pc = "closed"
    BY CommittedFacts, Zenon
<1>2. /\ UNCHANGED <<setup, tmp, dir>>
      /\ counter' = IF work[w].counted THEN work[w].n ELSE counter
    BY CommittedFacts, Zenon DEF Committed
<1>3. NumberOK(w) BY Zenon DEF NumberInv
<1>4. work'[w].pc = "idle" /\ work'[w].counted = FALSE
    BY <1>1, IdleFacts
<1>5. w \notin tmp
    BY <1>1, <1>3, Zenon DEF NumberOK, Active
<1>6. NumberOK(w)'
    BY <1>2, <1>4, <1>5, Zenon DEF NumberOK, Active
<1>7. CASE ~work[w].counted
    <2>1. UNCHANGED <<setup, counter, tmp, dir>>
        BY <1>2, <1>7, Zenon
    <2> QED BY <1>1, <1>4, <1>6, <2>1, NumberOne, Zenon DEF NumberInv, Files
<1>8. CASE work[w].counted
    <2>1. counter' = counter + 1 /\ work[w].n = counter + 1 /\ counter + 1 \in Files
        BY <1>1, <1>2, <1>3, <1>8, Zenon DEF NumberOK, Active
    <2>2. counter \in Nat BY Zenon DEF ShapeInv
    <2>3. \A v \in Worker : ~work'[v].counted
        BY <1>1, <1>4, <1>8, Zenon DEF NumberInv
    <2>4. ASSUME NEW v \in Worker, v # w PROVE NumberOK(v)'
        <3>1. NumberOK(v) /\ work'[v] = work[v] /\ ~work'[v].counted
            BY <1>1, <2>3, <2>4, Zenon DEF NumberInv
        <3>2. 1 .. counter + 1 \subseteq 1 .. counter' + 1
            BY <2>1, <2>2
        <3> QED BY <1>2, <3>1, <3>2, Zenon DEF NumberOK, Active, Archives, Files
    <2>5. Worker' = Worker BY <1>2, Zenon DEF Worker, Receiver
    <2>6. 1 .. counter' \subseteq Files' /\ Files' \subseteq 1 .. counter' + 1
        <3>1. 1 .. counter \subseteq Files /\ Files \subseteq 1 .. counter + 1 /\ Files' = Files
            BY <1>2, Zenon DEF NumberInv, Files
        <3> QED BY <2>1, <2>2, <3>1
    <2>7. tmp' \subseteq Worker' BY <1>2, <2>5, Zenon DEF NumberInv
    <2> QED BY <1>6, <2>3, <2>4, <2>5, <2>6, <2>7, Zenon DEF NumberInv
<1> QED BY <1>7, <1>8, Zenon

LEMMA NumberInit == AnyInit => NumberInv
<1> SUFFICES ASSUME AnyInit PROVE NumberInv
    OBVIOUS
<1>1. work = [w \in Worker |-> Idle] /\ counter = 0 /\ tmp = {} /\ dir = <<>>
    BY Zenon DEF AnyInit, InitWith
<1>2. \A w \in Worker : work[w].pc = "idle" /\ work[w].counted = FALSE
    BY <1>1, IdleFacts
<1>3. \A w \in Worker : NumberOK(w)
    BY <1>1, <1>2, Zenon DEF NumberOK, Active
<1>4. Files = {} /\ 1 .. counter = {}
    BY <1>1 DEF Files
<1> QED BY <1>1, <1>2, <1>3, <1>4, Zenon DEF NumberInv

LEMMA NumberWorkerStep ==
    ASSUME ShapeInv, NumberInv, NEW w \in Worker, WorkerStep(w) \/ WorkerFault(w)
    PROVE  NumberInv'
<1>1. CASE Begin(w) BY <1>1, NumberBegin, Zenon
<1>2. CASE DoSync(w) BY <1>2, DoSyncFacts, NumberWorked, Zenon
<1>3. CASE DoOther(w) BY <1>3, DoOtherFacts, NumberWorked, Zenon
<1>4. CASE DoEnableOther(w) BY <1>4, DoEnableOtherFacts, NumberWorked, Zenon
<1>5. CASE DoCopy(w)
    <2> DEFINE p == setup.provider[w[1]]
               k == work[w].seq
    <2>1. work[w].pc = "work"
        BY <1>5, DoCopyFacts, Zenon
    <2>2. PICK list \in Orders(ActionList(p, k)) :
              /\ AfterCopy(w[1], k, list) \in Subscriber
              /\ [kind |-> "copy", rows |-> RowsAt(p)] \in File
              /\ Worked(w, AfterCopy(w[1], k, list), [kind |-> "copy", rows |-> RowsAt(p)])
        BY <1>5, DoCopyFacts, Zenon
    <2>3. \E t \in Subscriber, f \in File : Worked(w, t, f)
        BY <2>2, Zenon
    <2> QED BY <2>1, <2>3, NumberWorked, Zenon
<1>6. CASE CopyTooEarly(w) \/ CopyWaits(w) \/ CopyFails(w)
    BY <1>6, NumberRolledBack, ZenonT(40) DEF CopyTooEarly, CopyWaits, CopyFails
<1>7. CASE archive_close(w) BY <1>7, NumberClose, Zenon
<1>8. CASE Commit(w) BY <1>8, NumberCommit, Zenon
<1>9. CASE SyncFails(w) BY <1>9, NumberSyncFails, Zenon
<1> QED BY <1>1, <1>2, <1>3, <1>4, <1>5, <1>6, <1>7, <1>8, <1>9, ZenonT(40) DEF WorkerStep, WorkerFault

LEMMA OriginKeeps ==
    ASSUME OriginStep
    PROVE  UNCHANGED <<setup, sub>>
BY Zenon DEF OriginStep, Insert, CommitInsert, CreateSync, subscribeSet, createEvent, CommitEvent

LEMMA NumberNext == ShapeInv /\ NumberInv /\ [Next]_vars => NumberInv'
<1> SUFFICES ASSUME ShapeInv, NumberInv, [Next]_vars PROVE NumberInv'
    OBVIOUS
<1>1. CASE OriginStep /\ UNCHANGED shipVars
    <2>1. UNCHANGED <<setup, work, counter, tmp, dir>>
        BY <1>1, OriginKeeps, Zenon DEF shipVars
    <2> QED BY <2>1, NumberStays, Zenon
<1>2. CASE \E w \in Worker : WorkerStep(w) \/ WorkerFault(w) BY <1>2, NumberWorkerStep, Zenon
<1>3. CASE \E n \in Receiver : RestartSlon(n)
    BY <1>3, NumberStopped, Zenon DEF RestartSlon
<1>4. CASE ShipperStep \/ ipc_finish \/ KillShipper
    BY <1>4, ShipperFacts, NumberStays, Zenon DEF ShipperStays, copyVars
<1>5. CASE UNCHANGED vars
    BY <1>5, NumberStays, Zenon DEF vars, shipVars, copyVars
<1> QED BY <1>1, <1>2, <1>3, <1>4, <1>5, Zenon DEF Next

-----------------------------------------------------------------------------
(* The types of the archive directory, of the daemon and of the offline
   database. *)

ShipStates == [pc : {"none", "run", "resume", "dead"}, q : SUBSET Files]

LEMMA ShipFields ==
    ASSUME ShipperInv
    PROVE  /\ ship \in ShipStates
           /\ ship.pc \in {"none", "run", "resume", "dead"} /\ ship.q \in SUBSET Files
           /\ offline.rows \in SUBSET Nat /\ offline.other \in SUBSET Nat
           /\ offline.at \in 0 .. counter + 1
<1>1. ship \in ShipStates BY Zenon DEF ShipperInv, ShipStates
<1>2. ship.pc \in {"none", "run", "resume", "dead"} /\ ship.q \in SUBSET Files
    BY <1>1 DEF ShipStates
<1>3. offline.rows \in SUBSET Nat /\ offline.other \in SUBSET Nat /\ offline.at \in 0 .. counter + 1
    BY Zenon DEF ShipperInv
<1> QED BY <1>1, <1>2, <1>3, Zenon

LEMMA IntervalGrows ==
    ASSUME NEW a \in Nat, NEW b \in Nat, a <= b
    PROVE  0 .. a + 1 \subseteq 0 .. b + 1
OBVIOUS

LEMMA ShipperKept ==
    ASSUME ShapeInv, ShipperInv, dir' \in [Files' -> File \cup {Garbled}], Files \subseteq Files',
           counter' \in Nat, counter <= counter', UNCHANGED offline,
           bent' \subseteq {"lost", "retried", "unheard"}, ship' \in ShipStates'
    PROVE  ShipperInv'
<1>1. counter \in Nat BY Zenon DEF ShapeInv
<1>2. 0 .. counter + 1 \subseteq 0 .. counter' + 1 BY <1>1, IntervalGrows, Zenon
<1>3. offline \in [rows : SUBSET Nat, other : SUBSET Nat, at : 0 .. counter + 1]
    BY Zenon DEF ShipperInv
<1> DEFINE C == 0 .. counter + 1
           D == 0 .. counter' + 1
<1>4. offline \in [rows : SUBSET Nat, other : SUBSET Nat, at : D]
    <2>1. offline \in [rows : SUBSET Nat, other : SUBSET Nat, at : C] /\ C \subseteq D
        BY <1>2, <1>3, Zenon
    <2> HIDE DEF C, D
    <2> QED BY <2>1
<1> QED BY <1>4, Zenon DEF ShipperInv, ShipStates

LEMMA ShipStays ==
    ASSUME ShipperInv, Files \subseteq Files', UNCHANGED ship
    PROVE  ship' \in ShipStates'
<1>1. ship.pc \in {"none", "run", "resume", "dead"} /\ ship.q \in SUBSET Files'
      /\ ship = [pc |-> ship.pc, q |-> ship.q]
    <2>1. ship \in ShipStates /\ ship.q \in SUBSET Files /\ ship.pc \in {"none", "run", "resume", "dead"}
        BY ShipFields, Zenon
    <2>2. ship = [pc |-> ship.pc, q |-> ship.q]
        BY <2>1 DEF ShipStates
    <2> QED BY <2>1, <2>2, Zenon
<1> QED BY <1>1, Zenon DEF ShipStates

LEMMA ShipMade ==
    ASSUME NEW p \in {"none", "run", "resume", "dead"}, NEW q \in SUBSET Files'
    PROVE  [pc |-> p, q |-> q] \in ShipStates'
BY Zenon DEF ShipStates

LEMMA ShipSet ==
    ASSUME ShipperInv, NEW q \in SUBSET Files', NEW p \in {"none", "run", "resume", "dead"},
           Files \subseteq Files'
    PROVE  [ship EXCEPT !.q = q] \in ShipStates' /\ [ship EXCEPT !.pc = p] \in ShipStates'
<1>1. ship \in ShipStates /\ ship.q \in SUBSET Files'
      /\ ship.pc \in {"none", "run", "resume", "dead"}
    BY ShipFields, Zenon
<1>2. [ship EXCEPT !.q = q] = [pc |-> ship.pc, q |-> q]
      /\ [ship EXCEPT !.pc = p] = [pc |-> p, q |-> ship.q]
    BY <1>1 DEF ShipStates
<1>3. [pc |-> ship.pc, q |-> q] \in ShipStates'
    BY <1>1, ShipMade, Zenon
<1>4. [pc |-> p, q |-> ship.q] \in ShipStates'
    BY <1>1, ShipMade, Zenon
<1> QED BY <1>2, <1>3, <1>4, Zenon

LEMMA CalledType ==
    ASSUME ShipperInv, NEW n \in Files', Files \subseteq Files'
    PROVE  Called(n) \in ShipStates'
<1>1. archscan({m \in Files : m < n}) \cup {n} \in SUBSET Files'
    <2>1. archscan({m \in Files : m < n}) \subseteq Files
        BY Zenon DEF archscan
    <2> QED BY <2>1, Zenon
<1>2. ship.q \cup {n} \in SUBSET Files'
    BY ShipFields, Zenon
<1>3. CASE ship.pc = "none"
    <2>1. Called(n) = [pc |-> "run", q |-> archscan({m \in Files : m < n}) \cup {n}]
        BY <1>3, Zenon DEF Called, ipc_add_path
    <2> QED BY <1>1, <2>1, ShipMade, Zenon
<1>4. CASE ship.pc # "none"
    <2>1. Called(n) = [ship EXCEPT !.q = ship.q \cup {n}]
        BY <1>4, Zenon DEF Called, ipc_add_path
    <2> QED BY <1>2, <2>1, ShipSet, Zenon
<1> QED BY <1>3, <1>4, Zenon

(* What archive_close leaves in the directory. *)
LEMMA CloseFacts ==
    ASSUME ShapeInv, ShipperInv, NEW w \in Worker, archive_close(w), w \in tmp
    PROVE  /\ Files' = Files \cup {work[w].n}
           /\ dir'[work[w].n] \in Written(w)
           /\ \A m \in Files : m # work[w].n => dir'[m] = dir[m]
           /\ dir' \in [Files' -> File \cup {Garbled}]
           /\ ship' \in ShipStates'
           /\ bent \subseteq bent' /\ bent' \subseteq bent \cup {"unheard"}
<1> DEFINE n == work[w].n
           F == Files \cup {n}
<1>1. PICK f \in Written(w) : dir' = [m \in Files \cup {n} |-> IF m = n THEN f ELSE dir[m]]
    BY Zenon DEF archive_close
<1>2. work[w].out \in File
    BY ShapeClose, WorkFacts, Zenon DEF WorkerStates
<1>3. f \in File \cup {Garbled}
    BY <1>1, <1>2, Zenon DEF Written
<1>4. Files' = F /\ dir'[n] = f /\ \A m \in Files : m # n => dir'[m] = dir[m]
    BY <1>1, Zenon DEF Files
<1>5. \A m \in Files : dir[m] \in File \cup {Garbled}
    BY Zenon DEF ShipperInv
<1> HIDE DEF n
<1>6. dir' \in [F -> File \cup {Garbled}]
    BY <1>1, <1>3, <1>5, Zenon
<1>7. CallShipper(n)
    BY Zenon DEF archive_close, n
<1>8. ship' \in ShipStates'
    <2>1. ship' = Called(n) \/ UNCHANGED ship
        BY <1>7, Zenon DEF CallShipper
    <2>2. n \in Files' /\ Files \subseteq Files'
        BY <1>4, Zenon
    <2> QED BY <2>1, <2>2, CalledType, ShipStays, Zenon
<1>9. bent \subseteq bent' /\ bent' \subseteq bent \cup {"unheard"}
    BY <1>7, Zenon DEF CallShipper
<1> QED BY <1>1, <1>4, <1>6, <1>8, <1>9, Zenon DEF n

LEMMA ShipperStill ==
    ASSUME ShapeInv, ShipperInv, counter' \in Nat, counter <= counter', UNCHANGED <<dir, ship, offline>>,
           bent' \subseteq {"lost", "retried", "unheard"}
    PROVE  ShipperInv'
<1>1. Files' = Files BY Zenon DEF Files
<1>2. dir' \in [Files' -> File \cup {Garbled}] BY <1>1, Zenon DEF ShipperInv
<1>3. ship' \in ShipStates' BY <1>1, ShipStays, Zenon
<1> QED BY <1>1, <1>2, <1>3, ShipperKept, Zenon

LEMMA ShipperClose ==
    ASSUME ShapeInv, ShipperInv, NEW w \in Worker, archive_close(w)
    PROVE  ShipperInv'
<1>1. counter' \in Nat /\ counter <= counter' /\ UNCHANGED <<counter, offline>>
    <2>1. counter \in Nat /\ UNCHANGED <<counter, offline>>
        BY Zenon DEF ShapeInv, archive_close
    <2> QED BY <2>1
<1>2. bent \subseteq {"lost", "retried", "unheard"}
    BY Zenon DEF ShipperInv
<1>3. CASE w \in tmp
    <2>1. bent' \subseteq {"lost", "retried", "unheard"} /\ Files \subseteq Files'
        BY <1>2, <1>3, CloseFacts, Zenon
    <2> QED BY <1>1, <1>3, <2>1, CloseFacts, ShipperKept, Zenon
<1>4. CASE w \notin tmp
    <2>1. Stopped(w[1]) /\ UNCHANGED <<dir, ship>>
        BY <1>4, Zenon DEF archive_close
    <2>2. bent' \subseteq {"lost", "retried", "unheard"}
        BY <1>2, <2>1, Zenon DEF Stopped
    <2> QED BY <1>1, <2>1, <2>2, ShipperStill, Zenon
<1> QED BY <1>3, <1>4, Zenon

(* The daemon takes the least archive of its queue. *)
LEMMA HeadFacts ==
    ASSUME ShapeInv, NumberInv, ShipperInv, ship.q # {}
    PROVE  ipc_recv_path(ship.q) \in ship.q /\ ipc_recv_path(ship.q) \in Files
<1>1. ship.q \in SUBSET Files /\ Files \subseteq 1 .. counter + 1
    BY ShipFields, Zenon DEF NumberInv
<1>2. counter \in Nat BY Zenon DEF ShapeInv
<1>3. 1 .. counter + 1 \subseteq Nat BY <1>2
<1>4. ship.q \in SUBSET Nat BY <1>1, <1>3, Zenon
<1>5. Min(ship.q) \in ship.q BY <1>4, MinOf, Zenon
<1> QED BY <1>1, <1>5, Zenon DEF ipc_recv_path

LEMMA AppliedFacts ==
    ASSUME ShapeInv, ShipperInv, NEW f \in File
    PROVE  /\ Applied(f).at = offline.at + 1
           /\ Applied(f).rows \in SUBSET Nat /\ Applied(f).other \in SUBSET Nat
           /\ Applied(f) = [rows |-> Applied(f).rows, other |-> Applied(f).other,
                            at |-> offline.at + 1]
           /\ Data(Applied(f)) = AppliedTo(Data(offline), f)
<1>1. offline.rows \in SUBSET Nat /\ offline.other \in SUBSET Nat
    BY ShipFields, Zenon
<1>2. offline = [rows |-> offline.rows, other |-> offline.other, at |-> offline.at]
    <2>1. offline \in [rows : SUBSET Nat, other : SUBSET Nat, at : 0 .. counter + 1]
        BY Zenon DEF ShipperInv
    <2> DEFINE C == 0 .. counter + 1
    <2> HIDE DEF C
    <2>2. offline \in [rows : SUBSET Nat, other : SUBSET Nat, at : C]
        BY <2>1, Zenon DEF C
    <2> QED BY <2>2
<1> DEFINE r == offline.rows
           o == offline.other
           a == offline.at + 1
<1>3. \/ f.kind = "sync" /\ f.rows \in SUBSET Nat
      \/ f.kind = "copy" /\ f.rows \in SUBSET Nat
      \/ f.kind = "other" /\ f.row \in Nat
    BY DEF File
<1>4. CASE f.kind = "sync" /\ f.rows \in SUBSET Nat
    <2>1. Applied(f) = [rows |-> r \cup f.rows, other |-> o, at |-> a]
        BY <1>2, <1>4, Zenon DEF Applied
    <2>2. AppliedTo(Data(offline), f) = [rows |-> r \cup f.rows, other |-> o]
        BY <1>4 DEF AppliedTo, Data
    <2> HIDE DEF r, o, a
    <2>3. Data(Applied(f)) = [rows |-> r \cup f.rows, other |-> o]
        BY <2>1 DEF Data
    <2> QED BY <1>1, <1>4, <2>1, <2>2, <2>3, SMTT(30) DEF r, o, a
<1>5. CASE f.kind = "copy" /\ f.rows \in SUBSET Nat
    <2>1. Applied(f) = [rows |-> f.rows, other |-> o, at |-> a]
        BY <1>2, <1>5, Zenon DEF Applied
    <2>2. AppliedTo(Data(offline), f) = [rows |-> f.rows, other |-> o]
        BY <1>5 DEF AppliedTo, Data
    <2> HIDE DEF r, o, a
    <2>3. Data(Applied(f)) = [rows |-> f.rows, other |-> o]
        BY <2>1 DEF Data
    <2> QED BY <1>1, <1>5, <2>1, <2>2, <2>3, SMTT(30) DEF r, o, a
<1>6. CASE f.kind = "other" /\ f.row \in Nat
    <2>1. Applied(f) = [rows |-> r, other |-> o \cup {f.row}, at |-> a]
        BY <1>2, <1>6, Zenon DEF Applied
    <2>2. AppliedTo(Data(offline), f) = [rows |-> r, other |-> o \cup {f.row}]
        BY <1>6 DEF AppliedTo, Data
    <2> HIDE DEF r, o, a
    <2>3. Data(Applied(f)) = [rows |-> r, other |-> o \cup {f.row}]
        BY <2>1 DEF Data
    <2> QED BY <1>1, <1>6, <2>1, <2>2, <2>3, SMTT(30) DEF r, o, a
<1> QED BY <1>3, <1>4, <1>5, <1>6, Zenon

(* process_archive: what it does with the head of the queue. *)
LEMMA ProcessFacts ==
    ASSUME ShapeInv, NumberInv, ShipperInv, process_archive
    PROVE  /\ UNCHANGED <<copyVars, work, counter, tmp, dir, past, bent>>
           /\ ship' \in ShipStates'
           /\ \/ UNCHANGED offline
              \/ /\ offline.at + 1 \in Files /\ dir[offline.at + 1] \in File
                 /\ offline' = Applied(dir[offline.at + 1])
<1> DEFINE n == ipc_recv_path(ship.q)
<1>1. UNCHANGED <<copyVars, work, counter, tmp, dir, past, bent>> /\ ship.q # {}
    BY Zenon DEF process_archive
<1>2. n \in ship.q /\ n \in Files
    BY <1>1, HeadFacts, Zenon
<1>3. \/ UNCHANGED offline
      \/ n = offline.at + 1 /\ dir[n] # Garbled /\ offline' = Applied(dir[n])
    BY Zenon DEF process_archive
<1>4. ship' = [ship EXCEPT !.q = ship.q \ {n}] \/ ship' = [ship EXCEPT !.pc = "resume"]
    BY Zenon DEF process_archive, Requeued
<1>5. Files' = Files BY <1>1, Zenon DEF Files
<1> HIDE DEF n
<1>6. dir[n] # Garbled => dir[n] \in File
    BY <1>2, Zenon DEF ShipperInv
<1>7. ship' \in ShipStates'
    <2>1. ship.q \ {n} \in SUBSET Files' /\ Files \subseteq Files'
        BY <1>5, ShipFields, Zenon
    <2> QED BY <1>4, <2>1, ShipSet, Zenon
<1>8. CASE UNCHANGED offline BY <1>1, <1>7, <1>8, Zenon
<1>9. CASE n = offline.at + 1 /\ dir[n] # Garbled /\ offline' = Applied(dir[n])
    BY <1>1, <1>2, <1>6, <1>7, <1>9, Zenon
<1> QED BY <1>3, <1>8, <1>9, Zenon

LEMMA ShipperProcess ==
    ASSUME ShapeInv, NumberInv, ShipperInv, process_archive
    PROVE  ShipperInv'
<1>1. UNCHANGED <<counter, dir, bent>> /\ Files' = Files /\ ship' \in ShipStates'
    BY ProcessFacts, Zenon DEF Files
<1>2. counter \in Nat BY Zenon DEF ShapeInv
<1>3. CASE UNCHANGED offline
    <2>1. /\ dir' \in [Files' -> File \cup {Garbled}] /\ Files \subseteq Files'
          /\ bent' \subseteq {"lost", "retried", "unheard"}
        BY <1>1, Zenon DEF ShipperInv
    <2>2. counter' \in Nat /\ counter <= counter' BY <1>1, <1>2
    <2> QED BY <1>1, <1>3, <2>1, <2>2, ShipperKept, Zenon
<1>4. CASE /\ offline.at + 1 \in Files /\ dir[offline.at + 1] \in File
           /\ offline' = Applied(dir[offline.at + 1])
    <2> DEFINE f == dir[offline.at + 1]
               b == offline.at + 1
               C == 0 .. counter + 1
    <2>1. b \in C
        <3>1. b \in 1 .. counter + 1 BY <1>4, Zenon DEF NumberInv
        <3> HIDE DEF b
        <3> QED BY <1>2, <3>1
    <2>2. /\ Applied(f).rows \in SUBSET Nat /\ Applied(f).other \in SUBSET Nat
          /\ Applied(f) = [rows |-> Applied(f).rows, other |-> Applied(f).other, at |-> b]
        BY <1>4, AppliedFacts, Zenon
    <2>3. offline' = Applied(f) BY <1>4, Zenon
    <2> HIDE DEF b, C, f
    <2>4. Applied(f) \in [rows : SUBSET Nat, other : SUBSET Nat, at : C]
        <3> DEFINE x == Applied(f).rows
                   y == Applied(f).other
        <3>1. x \in SUBSET Nat /\ y \in SUBSET Nat /\ Applied(f) = [rows |-> x, other |-> y, at |-> b]
            BY <2>2, Zenon
        <3> HIDE DEF x, y
        <3>2. [rows |-> x, other |-> y, at |-> b] \in [rows : SUBSET Nat, other : SUBSET Nat, at : C]
            BY <2>1, <3>1, Zenon
        <3> QED BY <3>1, <3>2, Zenon
    <2>5. offline' \in [rows : SUBSET Nat, other : SUBSET Nat, at : 0 .. counter' + 1]
        BY <1>1, <2>3, <2>4, Zenon DEF C
    <2>6. /\ dir' \in [Files' -> File \cup {Garbled}]
          /\ bent' \subseteq {"lost", "retried", "unheard"}
        BY <1>1, Zenon DEF ShipperInv
    <2> QED BY <1>1, <2>5, <2>6, Zenon DEF ShipperInv, ShipStates
<1> QED BY <1>3, <1>4, ProcessFacts, Zenon

(* The other steps of the daemon leave the offline database alone. *)
LEMMA DaemonFacts ==
    ASSUME ShapeInv, ShipperInv,
           \/ StartShipper \/ Rescan \/ ResumeShipper \/ ipc_cleanup \/ ipc_finish \/ KillShipper
    PROVE  /\ UNCHANGED <<copyVars, work, counter, tmp, dir, offline, past, bent>>
           /\ ship' \in ShipStates'
<1>1. UNCHANGED <<copyVars, work, counter, tmp, dir, offline, past, bent>>
    BY Zenon DEF StartShipper, Rescan, ResumeShipper, ipc_cleanup, ipc_finish, KillShipper
<1>2. Files' = Files /\ Files \subseteq Files' BY <1>1, Zenon DEF Files
<1>3. archscan(Files) \in SUBSET Files' /\ {} \in SUBSET Files'
    BY <1>2, Zenon DEF archscan
<1>4. CASE StartShipper
    BY <1>3, <1>4, ShipMade, Zenon DEF StartShipper
<1>5. CASE Rescan
    BY <1>2, <1>3, <1>5, ShipSet, Zenon DEF Rescan
<1>6. CASE ResumeShipper
    BY <1>2, <1>3, <1>6, ShipSet, Zenon DEF ResumeShipper
<1>7. CASE KillShipper
    BY <1>2, <1>3, <1>7, ShipSet, Zenon DEF KillShipper
<1>8. CASE ipc_cleanup \/ ipc_finish
    BY <1>3, <1>8, ShipMade, Zenon DEF ipc_cleanup, ipc_finish
<1> QED BY <1>1, <1>4, <1>5, <1>6, <1>7, <1>8, ZenonT(40)

LEMMA ShipperDaemon ==
    ASSUME ShapeInv, ShipperInv,
           \/ StartShipper \/ Rescan \/ ResumeShipper \/ ipc_cleanup \/ ipc_finish \/ KillShipper
    PROVE  ShipperInv'
<1>1. UNCHANGED <<counter, dir, offline, bent>> /\ ship' \in ShipStates'
    BY DaemonFacts, Zenon
<1>2. counter' \in Nat /\ counter <= counter'
    <2>1. counter \in Nat BY Zenon DEF ShapeInv
    <2> QED BY <1>1, <2>1, SMTT(30)
<1>3. /\ dir' \in [Files' -> File \cup {Garbled}] /\ Files \subseteq Files'
      /\ bent' \subseteq {"lost", "retried", "unheard"}
    BY <1>1, Zenon DEF ShipperInv, Files
<1> QED BY <1>1, <1>2, <1>3, ShipperKept, Zenon

LEMMA ShipperInit == AnyInit => ShipperInv
<1> SUFFICES ASSUME AnyInit PROVE ShipperInv
    OBVIOUS
<1>1. /\ counter = 0 /\ dir = <<>> /\ ship = [pc |-> "none", q |-> {}] /\ bent = {}
      /\ offline = [rows |-> {}, other |-> {}, at |-> 0]
    BY Zenon DEF AnyInit, InitWith
<1>2. Files = {} BY <1>1 DEF Files
<1>3. dir \in [Files -> File \cup {Garbled}]
    BY <1>1, <1>2, SMTT(30)
<1>4. offline \in [rows : SUBSET Nat, other : SUBSET Nat, at : 0 .. counter + 1]
    BY <1>1
<1> QED BY <1>1, <1>3, <1>4, Zenon DEF ShipperInv

(* A worker that neither closes a file nor commits. *)
LEMMA ShipperWorkerStill ==
    ASSUME ShapeInv, ShipperInv, UNCHANGED <<counter, dir, ship, offline>>,
           bent' \subseteq bent \cup {"lost", "retried", "unheard"}
    PROVE  ShipperInv'
<1>1. counter' \in Nat /\ counter <= counter'
    <2>1. counter \in Nat BY Zenon DEF ShapeInv
    <2> QED BY <2>1
<1>2. bent' \subseteq {"lost", "retried", "unheard"}
    BY Zenon DEF ShipperInv
<1> QED BY <1>1, <1>2, ShipperStill, Zenon

LEMMA ShipperWorkerStep ==
    ASSUME ShapeInv, NumberInv, ShipperInv, NEW w \in Worker, WorkerStep(w) \/ WorkerFault(w)
    PROVE  ShipperInv'
<1>1. CASE Begin(w)
    BY <1>1, ShipperWorkerStill, Zenon DEF Begin
<1>2. CASE DoSync(w) \/ DoOther(w) \/ DoEnableOther(w) \/ DoCopy(w)
    <2>1. \E t, f : Worked(w, t, f)
        BY <1>2, Zenon DEF DoSync, DoOther, DoEnableOther, DoCopy
    <2> QED BY <2>1, ShipperWorkerStill, Zenon DEF Worked
<1>3. CASE CopyTooEarly(w) \/ CopyWaits(w) \/ CopyFails(w)
    <2>1. \E keep : CopyRolledBack(w, keep)
        BY <1>3, Zenon DEF CopyTooEarly, CopyWaits, CopyFails
    <2>2. UNCHANGED <<counter, dir, ship, offline>> /\ bent' \subseteq bent \cup {"retried"}
        BY <2>1, Zenon DEF CopyRolledBack
    <2> QED BY <2>2, ShipperWorkerStill, Zenon
<1>4. CASE archive_close(w) BY <1>4, ShipperClose, Zenon
<1>5. CASE Commit(w)
    <2>1. /\ counter' = IF work[w].counted THEN work[w].n ELSE counter
          /\ UNCHANGED <<dir, ship, offline, bent>>
        BY <1>5, CommittedFacts, Zenon DEF Committed
    <2>2. counter \in Nat BY Zenon DEF ShapeInv
    <2>3. counter' = counter \/ counter' = counter + 1
        <3>1. NumberOK(w) BY Zenon DEF NumberInv
        <3> QED BY <2>1, <3>1, Zenon DEF NumberOK
    <2>4. counter' \in Nat /\ counter <= counter' BY <2>2, <2>3, SMTT(30)
    <2>5. bent' \subseteq {"lost", "retried", "unheard"}
        BY <2>1, Zenon DEF ShipperInv
    <2> QED BY <2>1, <2>4, <2>5, ShipperStill, Zenon
<1>6. CASE SyncFails(w)
    BY <1>6, ShipperWorkerStill, Zenon DEF SyncFails
<1> QED BY <1>1, <1>2, <1>3, <1>4, <1>5, <1>6, ZenonT(40) DEF WorkerStep, WorkerFault

LEMMA ShipperNext == ShapeInv /\ NumberInv /\ ShipperInv /\ [Next]_vars => ShipperInv'
<1> SUFFICES ASSUME ShapeInv, NumberInv, ShipperInv, [Next]_vars PROVE ShipperInv'
    OBVIOUS
<1>1. CASE OriginStep /\ UNCHANGED shipVars
    BY <1>1, ShipperWorkerStill, Zenon DEF shipVars
<1>2. CASE \E w \in Worker : WorkerStep(w) \/ WorkerFault(w) BY <1>2, ShipperWorkerStep, Zenon
<1>3. CASE \E n \in Receiver : RestartSlon(n)
    <2>1. UNCHANGED <<counter, dir, ship, offline>> /\ bent' \subseteq bent \cup {"lost"}
        BY <1>3, Zenon DEF RestartSlon, Stopped
    <2> QED BY <2>1, ShipperWorkerStill, Zenon
<1>4. CASE ShipperStep \/ ipc_finish \/ KillShipper
    BY <1>4, ShipperProcess, ShipperDaemon, Zenon DEF ShipperStep
<1>5. CASE UNCHANGED vars
    BY <1>5, ShipperWorkerStill, Zenon DEF vars, shipVars
<1> QED BY <1>1, <1>2, <1>3, <1>4, <1>5, ZenonT(40) DEF Next

(* The numbers of the archives, whatever the cluster and whatever faults
   happen: they are given out under the row lock of sl_archive_counter, a file
   has its name before its number is used up, and the daemon knows only files
   that are there. *)
THEOREM NumberInvariant == ShippingSpec => [](ShapeInv /\ NumberInv /\ ShipperInv)
<1>1. AnyInit => ShapeInv /\ NumberInv /\ ShipperInv
    BY ShapeInit, NumberInit, ShipperInit, Zenon
<1>2. (ShapeInv /\ NumberInv /\ ShipperInv) /\ [Next]_vars => (ShapeInv /\ NumberInv /\ ShipperInv)'
    BY ShapeNext, NumberNext, ShipperNext, Zenon
<1> QED BY <1>1, <1>2, PTL DEF ShippingSpec

(* archive_close() comes before the commit: no archive up to the counter of
   the Archiver is ever missing, whatever crashes, retries and lost calls
   there were. *)
THEOREM ArchivesComplete == ShippingSpec => []NoArchiveMissing
<1>1. NumberInv => NoArchiveMissing
    BY Zenon DEF NumberInv, NoArchiveMissing
<1> QED BY <1>1, NumberInvariant, PTL
=============================================================================
