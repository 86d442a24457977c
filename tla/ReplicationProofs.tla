-------------------------- MODULE ReplicationProofs --------------------------
(***************************************************************************)
(* The data path.  Facts about its operators; every variable keeps its     *)
(* type under Spec.  Then the inductive invariant: what keeps its          *)
(* conjuncts, the steps of application transactions and of the sync        *)
(* thread, the steps of the remote worker, and why the batch it selects    *)
(* takes the subscriber to the SYNC; the steps of confirmations and of the *)
(* cleanup thread; the theorems that follow from the invariant.  At last   *)
(* what the steps of the data path may do: what a node knows of the others *)
(* never goes back, and every step is one of the abstract replica.         *)
(***************************************************************************)
EXTENDS ReplicationInv, TLAPS
LOCAL INSTANCE WellFoundedInduction

-----------------------------------------------------------------------------
(* Sets of natural numbers and sequences.                                  *)

(* A set of naturals has a least element: the oldest SYNC a node keeps. *)
LEMMA LeastExists ==
    ASSUME NEW T \in SUBSET Nat, T # {}
    PROVE  \E m \in T : \A t \in T : m <= t
<1>1. \E m \in T : \A t \in T : ~(t < m)
    <2> DEFINE R == OpToRel(<, Nat)
    <2>1. PICK m \in T : \A t \in T : ~(<<t, m>> \in R)
        BY NatLessThanWellFounded, WFMin, Zenon
    <2>2. \A t \in T : ~(t < m)
        BY <2>1, Zenon DEF OpToRel
    <2> HIDE DEF R
    <2> QED BY <2>2, Zenon
<1> QED BY <1>1

(* A bounded set of naturals has a greatest element: the last action on a
   table row, the last SYNC that everyone has confirmed. *)
LEMMA GreatestExists ==
    ASSUME NEW N \in Nat, NEW T \in SUBSET (0 .. N), T # {}
    PROVE  \E m \in T : \A t \in T : t <= m
<1> DEFINE U == {u \in Nat : N - u \in T}
<1>1. U \in SUBSET Nat /\ U # {}
    <2>1. PICK t \in T : TRUE BY Zenon
    <2>2. N - t \in Nat /\ N - (N - t) = t OBVIOUS
    <2> QED BY <2>1, <2>2, Zenon
<1>2. PICK u \in U : \A v \in U : u <= v BY <1>1, LeastExists, Zenon
<1>3. \A t \in T : t <= N - u
    <2> TAKE t \in T
    <2>1. N - t \in Nat /\ N - (N - t) = t OBVIOUS
    <2>2. u <= N - t BY <1>2, <2>1, Zenon
    <2> QED BY <1>2, <2>2
<1> QED BY <1>2, <1>3, Zenon

(* A new SYNC leaves the earlier ones as they are. *)
LEMMA AppendFacts ==
    ASSUME NEW S, NEW s \in Seq(S), NEW v \in S
    PROVE  /\ Append(s, v) \in Seq(S)
           /\ Len(Append(s, v)) = Len(s) + 1
           /\ Append(s, v)[Len(s) + 1] = v
           /\ \A e \in 1 .. Len(s) : Append(s, v)[e] = s[e]
OBVIOUS

-----------------------------------------------------------------------------
(* The operators of the model.                                             *)

(* LastAction is the action with the highest log_actionseq on the row. *)
LEMMA LastActionIsLast ==
    ASSUME NEW B \in SUBSET Row, NEW k \in Key, \E r \in B : r.key = k
    PROVE  \E r \in B : /\ r.key = k /\ r.seq = LastAction(B, k)
                        /\ \A s \in B : s.key = k => s.seq <= r.seq
<1> DEFINE T == {s \in 0 .. MaxSeq : \E r \in B : r.key = k /\ r.seq = s}
<1>1. T \in SUBSET (0 .. MaxSeq) /\ T # {}
    BY BoundAssumption DEF Row
<1>2. PICK m \in T : \A t \in T : t <= m
    BY <1>1, GreatestExists, BoundAssumption, Zenon
<1>3. \E r \in B : r.key = k /\ \A s \in B : s.key = k => s.seq <= r.seq
    <2>1. PICK r \in B : r.key = k /\ r.seq = m BY <1>2, Zenon
    <2>2. ASSUME NEW s \in B, s.key = k PROVE s.seq <= r.seq
        <3>1. s.seq \in T BY <2>2, BoundAssumption DEF Row
        <3> QED BY <3>1, <1>2, <2>1, Zenon
    <2> QED BY <2>1, <2>2, Zenon
<1> HIDE DEF T
<1> QED BY <1>3, Zenon DEF LastAction

(* Apply leaves in every table row the last action of the batch on it. *)
LEMMA ApplyType ==
    ASSUME NEW B \in SUBSET Row, NEW t \in [Key -> 0 .. MaxSeq]
    PROVE  Apply(t, B) \in [Key -> 0 .. MaxSeq]
<1> SUFFICES ASSUME NEW k \in Key, \E r \in B : r.key = k
             PROVE  LastAction(B, k) \in 0 .. MaxSeq
    BY Zenon DEF Apply
<1> QED BY LastActionIsLast, BoundAssumption DEF Row

(* The tables a log status names are log tables. *)
LEMMA LogTypes ==
    ASSUME NEW s \in 0 .. 3
    PROVE  /\ ActiveLog(s) \in LogNo
           /\ OldLog(s) \in LogNo
           /\ LogsToQuery(s) \subseteq LogNo
           /\ ActiveLog(s) \in LogsToQuery(s)
           /\ StartedStatus(s) \in 0 .. 3
           /\ FinishedStatus(s) \in 0 .. 3
BY DEF ActiveLog, OldLog, LogsToQuery, StartedStatus, FinishedStatus, LogNo

-----------------------------------------------------------------------------
(* Types.                                                                  *)

Snap == [xmax : 1 .. MaxXid + 1, xip : SUBSET Xid]
Busy(N) == [ev : 1 .. N, group : SUBSET (1 .. N), query : SUBSET LogNo,
            into : LogNo]

(* logTrigger() writes a well-formed row to one of the two logs. *)
LEMMA TypeTrigger ==
    ASSUME TypeOK, NEW x \in Xid, NEW k \in Key, LogTrigger(x, k)
    PROVE  TypeOK'
<1> USE ConfigAssumption, BoundAssumption
<1>1. CachedLog(x) \in LogNo
    BY LogTypes, Zenon DEF TypeOK, CachedLog
<1>2. [xid |-> x, seq |-> actSeq + 1, key |-> k] \in Row
    BY DEF LogTrigger, TypeOK, Row
<1>3. log' \in [Node -> [LogNo -> SUBSET Row]]
    BY <1>1, <1>2 DEF LogTrigger, TypeOK
<1>4. plan' \in [Xid -> {0} \cup LogNo]
    BY <1>1, Zenon DEF LogTrigger, TypeOK
<1>5. nextXid' \in 1 .. MaxXid + 1 /\ actSeq' \in 0 .. MaxSeq /\ running' \subseteq Xid
    BY DEF LogTrigger, TypeOK, Xid
<1> QED BY <1>3, <1>4, <1>5, Zenon DEF LogTrigger, TypeOK, syncVars, dataVars

(* A rollback to a savepoint only removes rows. *)
LEMMA TypeSavepoint ==
    ASSUME TypeOK, NEW x \in Xid, NEW s \in 0 .. MaxSeq, RollbackToSavepoint(x, s)
    PROVE  TypeOK'
<1> USE ConfigAssumption, BoundAssumption
<1>1. log' \in [Node -> [LogNo -> SUBSET Row]]
    BY Zenon DEF RollbackToSavepoint, TypeOK
<1> QED BY <1>1, Zenon DEF RollbackToSavepoint, TypeOK, xactVars, syncVars, dataVars

(* The bookkeeping of transaction ids stays within its bounds when a
   transaction ends. *)
LEMMA TypeComplete ==
    ASSUME TypeOK, NEW x \in Xid, Complete(x)
    PROVE  /\ nextXid' \in 1 .. MaxXid + 1 /\ xmax' \in 1 .. MaxXid + 1
           /\ running' \subseteq Xid
           /\ plan' \in [Xid -> {0} \cup LogNo]
           /\ actSeq' \in 0 .. MaxSeq
BY BoundAssumption DEF Complete, TypeOK, Xid

(* What a transaction has logged are log rows. *)
LEMMA RowsOfType == ASSUME TypeOK, NEW x PROVE RowsOf(x) \in SUBSET Row
BY ConfigAssumption DEF TypeOK, RowsOf, LogNo

(* A commit leaves values of log_actionseq in the tables. *)
LEMMA TypeCommit ==
    ASSUME TypeOK, NEW x \in Xid, Commit(x)
    PROVE  TypeOK'
<1> USE ConfigAssumption, BoundAssumption
<1>1. applied' \in [Node -> SUBSET Row]
    BY RowsOfType, Zenon DEF Commit, TypeOK
<1>2. tab[Origin] \in [Key -> 0 .. MaxSeq]
    BY Zenon DEF TypeOK
<1>3. Apply(tab[Origin], RowsOf(x)) \in [Key -> 0 .. MaxSeq]
    BY <1>2, RowsOfType, ApplyType, Zenon
<1>4. tab' \in [Node -> [Key -> 0 .. MaxSeq]]
    BY <1>3, Zenon DEF Commit, TypeOK
<1> QED BY <1>1, <1>4, TypeComplete, Zenon DEF Commit, TypeOK, syncVars, logVars

(* An abort only removes rows. *)
LEMMA TypeAbort ==
    ASSUME TypeOK, NEW x \in Xid, Abort(x)
    PROVE  TypeOK'
<1> USE ConfigAssumption, BoundAssumption
<1>1. log' \in [Node -> [LogNo -> SUBSET Row]]
    BY ZenonT(60) DEF Abort, TypeOK
<1> QED BY <1>1, TypeComplete, Zenon DEF Abort, TypeOK, syncVars, dataVars

(* More SYNCs only widen the ranges of event numbers. *)
LEMMA TypeSync ==
    ASSUME TypeOK, CreateSync
    PROVE  TypeOK'
<1> USE ConfigAssumption, BoundAssumption
<1>1. Snapshot \in Snap
    BY Zenon DEF TypeOK, Snapshot, Snap, Xid
<1>2. snap' \in Seq(Snap) /\ Len(snap') = Len(snap) + 1
    BY <1>1, AppendFacts DEF CreateSync, TypeOK, Snap
<1>3. tab[Origin] \in [Key -> 0 .. MaxSeq]
    BY Zenon DEF TypeOK
<1>4. image' \in Seq([Key -> 0 .. MaxSeq]) /\ Len(image') = Len(image) + 1
    BY <1>3, AppendFacts DEF CreateSync, TypeOK
<1>5. Len(snap) \in Nat
    BY DEF TypeOK
<1>6. event' \in [Node -> SUBSET (1 .. Len(snap'))]
    BY <1>2, <1>5 DEF CreateSync, TypeOK
<1>7. con' \in [Node -> [Receiver -> SUBSET (1 .. Len(snap'))]]
    BY <1>2, <1>5 DEF CreateSync, TypeOK
<1>8. setsync' \in [Receiver -> 1 .. Len(snap')]
    BY <1>2, <1>5 DEF CreateSync, TypeOK
<1>9. \A n \in Receiver : worker'[n] = Idle \/ worker'[n] \in Busy(Len(snap'))
    <2> TAKE n \in Receiver
    <2>1. worker[n] = Idle \/ worker[n] \in Busy(Len(snap))
        BY Zenon DEF TypeOK, Busy
    <2>2. Busy(Len(snap)) \subseteq Busy(Len(snap'))
        BY <1>2, <1>5 DEF Busy
    <2> QED BY <2>1, <2>2, Zenon DEF CreateSync
<1>10. Len(snap') >= 1 /\ Len(image') = Len(snap')
    <2>1. Len(snap) >= 1 /\ Len(image) = Len(snap)
        BY Zenon DEF TypeOK
    <2> QED BY <2>1, <1>2, <1>4, <1>5
<1>11. lastAct' \in 0 .. MaxSeq
    BY Zenon DEF CreateSync, TypeOK
<1> QED
    BY <1>2, <1>4, <1>6, <1>7, <1>8, <1>9, <1>10, <1>11, Zenon
       DEF CreateSync, TypeOK, Snap, Busy, xactVars, logVars, dataVars

(* The SYNC group and the log tables that sync_event() chooses are SYNCs and
   log tables that exist. *)
LEMMA TypeBegin ==
    ASSUME TypeOK, NEW n \in Receiver, NEW q \in Node, NEW e \in event[q],
           SyncBegin(n, q, e)
    PROVE  TypeOK'
<1> USE ConfigAssumption, BoundAssumption
<1> DEFINE w == worker'[n]
<1>1. Provider[n] \in Node /\ n \in Node
    BY Zenon DEF Receiver
<1>2. logStatus[Provider[n]] \in 0 .. 3 /\ logStatus[n] \in 0 .. 3
    BY <1>1, Zenon DEF TypeOK
<1>3. e \in 1 .. Len(snap) /\ event[q] \subseteq 1 .. Len(snap)
    BY Zenon DEF TypeOK
<1>4. worker' = [worker EXCEPT ![n] =
                    [ev |-> e,
                     group |-> {f \in event[q] : Unconfirmed(n, f) /\ f <= e},
                     query |-> LogsToQuery(logStatus[Provider[n]]),
                     into |-> ActiveLog(logStatus[n])]]
    BY Zenon DEF SyncBegin
<1>5. w \in Busy(Len(snap))
    BY <1>2, <1>3, <1>4, LogTypes, Zenon DEF TypeOK, Busy
<1>6. \A m \in Receiver \ {n} : worker'[m] = worker[m]
    BY <1>4, Zenon DEF TypeOK
<1>7. DOMAIN worker' = Receiver
    BY <1>4, Zenon DEF TypeOK
<1> HIDE DEF w
<1>8. \A m \in Receiver : worker'[m] = Idle \/ worker'[m] \in Busy(Len(snap))
    BY <1>5, <1>6, Zenon DEF w, TypeOK, Busy
<1>9. UNCHANGED <<xactVars, syncVars, logVars, event, con, setsync, dataVars>>
    BY Zenon DEF SyncBegin
<1> QED
    BY <1>7, <1>8, <1>9, Zenon
       DEF TypeOK, Busy, xactVars, syncVars, logVars, dataVars

(* The log selection of sync_event() returns log rows. *)
LEMMA SelectType ==
    ASSUME TypeOK, NEW p \in Node, NEW query \in SUBSET LogNo, NEW s, NEW t
    PROVE  SelectRows(p, query, s, t) \in SUBSET Row
BY DEF TypeOK, SelectRows

(* The end of sync_event(): replaying a batch leaves values of log_actionseq in
   the tables, and the new position is an existing SYNC. *)
LEMMA TypeCommitSync ==
    ASSUME TypeOK, NEW n \in Receiver, SyncCommit(n)
    PROVE  TypeOK'
<1> USE ConfigAssumption, BoundAssumption
<1> DEFINE w == worker[n]
           B == SelectRows(Provider[n], w.query, snap[setsync[n]], snap[w.ev])
<1>1. Provider[n] \in Node /\ n \in Node
    BY Zenon DEF Receiver
<1>2. w \in Busy(Len(snap))
    BY Zenon DEF SyncCommit, TypeOK, Busy
<1>3. B \in SUBSET Row
    BY <1>1, <1>2, SelectType, Zenon DEF Busy
<1>4. /\ w.ev \in 1 .. Len(snap) /\ w.group \subseteq 1 .. Len(snap)
      /\ w.into \in LogNo
    BY <1>2, Zenon DEF Busy
<1>5. tab[n] \in [Key -> 0 .. MaxSeq]
    BY <1>1, Zenon DEF TypeOK
<1>6. Apply(tab[n], B) \in [Key -> 0 .. MaxSeq]
    BY <1>3, <1>5, ApplyType, Zenon
<1>7. /\ tab' = [tab EXCEPT ![n] = Apply(@, B)]
      /\ applied' = [applied EXCEPT ![n] = @ \cup B]
      /\ log' = IF n \in Forwarder
                THEN [log EXCEPT ![n][w.into] = @ \cup B] ELSE log
      /\ setsync' = [setsync EXCEPT ![n] = w.ev]
      /\ event' = [event EXCEPT ![n] = @ \cup w.group]
      /\ con' = [con EXCEPT ![n][n] = @ \cup w.group]
      /\ worker' = [worker EXCEPT ![n] = Idle]
      /\ UNCHANGED <<xactVars, syncVars, logStatus>>
    BY Zenon DEF SyncCommit, StoreBatch, AppendEvents
<1> HIDE DEF w, B
<1>8. tab' \in [Node -> [Key -> 0 .. MaxSeq]]
    BY <1>1, <1>6, <1>7, Zenon DEF TypeOK
<1>9. applied' \in [Node -> SUBSET Row] /\ log' \in [Node -> [LogNo -> SUBSET Row]]
    BY <1>1, <1>3, <1>4, <1>7, SMTT(30) DEF TypeOK
<1>10. /\ setsync' \in [Receiver -> 1 .. Len(snap)]
       /\ event' \in [Node -> SUBSET (1 .. Len(snap))]
       /\ con' \in [Node -> [Receiver -> SUBSET (1 .. Len(snap))]]
    BY <1>1, <1>4, <1>7 DEF TypeOK
<1>11. /\ DOMAIN worker' = Receiver
       /\ \A m \in Receiver : worker'[m] = Idle \/ worker'[m] \in Busy(Len(snap))
    BY <1>7, Zenon DEF TypeOK, Busy
<1> QED
    BY <1>7, <1>8, <1>9, <1>10, <1>11, Zenon DEF TypeOK, Busy, xactVars, syncVars

(* A worker that gives up an attempt is idle. *)
LEMMA TypeRetry ==
    ASSUME TypeOK, NEW n \in Receiver, SyncRetry(n)
    PROVE  TypeOK'
BY Zenon DEF SyncRetry, TypeOK, xactVars, syncVars, logVars, dataVars

(* forwardConfirm() stores the number of an existing SYNC. *)
LEMMA TypeForward ==
    ASSUME TypeOK, NEW n \in Node, NEW q \in Node, NEW r \in Receiver,
           NEW c \in con[q][r], ForwardConfirm(n, q, r, c)
    PROVE  TypeOK'
<1>1. c \in 1 .. Len(snap)
    BY DEF TypeOK
<1>2. con' \in [Node -> [Receiver -> SUBSET (1 .. Len(snap))]]
    BY <1>1, SMTT(30) DEF ForwardConfirm, TypeOK
<1> QED
    BY <1>2, Zenon DEF ForwardConfirm, TypeOK, xactVars, syncVars, logVars, dataVars

(* cleanupEvent() deletes events and confirmations, and moves sl_log_status
   within 0 .. 3. *)
LEMMA TypeCleanup ==
    ASSUME TypeOK, NEW n \in Node, NEW cut \in Cut(n), CleanupEvent(n, cut)
    PROVE  TypeOK'
<1> USE ConfigAssumption, BoundAssumption
<1>1. con' \in [Node -> [Receiver -> SUBSET (1 .. Len(snap))]]
    BY DEF CleanupEvent, KeptConfirms, TypeOK
<1>2. event' \in [Node -> SUBSET (1 .. Len(snap))]
    BY Zenon DEF CleanupEvent, KeptEvents, TypeOK
<1>3. /\ OldLog(logStatus[n]) \in LogNo
      /\ StartedStatus(logStatus[n]) \in 0 .. 3
      /\ FinishedStatus(logStatus[n]) \in 0 .. 3
    BY LogTypes, Zenon DEF TypeOK
<1>4. LogswitchStart(n) \/ LogswitchFinish(n, event'[n]) \/ LogswitchBlocked(n)
    BY Zenon DEF CleanupEvent, TypeOK
<1>5. CASE LogswitchStart(n)
    <2>1. logStatus' = [logStatus EXCEPT ![n] = StartedStatus(@)] /\ log' = log
        BY <1>5, Zenon DEF LogswitchStart
    <2> QED
        BY <1>1, <1>2, <1>3, <2>1, Zenon
           DEF CleanupEvent, TypeOK, xactVars, syncVars, dataVars
<1>6. CASE LogswitchFinish(n, event'[n])
    <2>1. /\ logStatus' = [logStatus EXCEPT ![n] = FinishedStatus(@)]
          /\ log' = [log EXCEPT ![n][OldLog(logStatus[n])] = {}]
        BY <1>6, Zenon DEF LogswitchFinish
    <2>2. log' \in [Node -> [LogNo -> SUBSET Row]]
        BY <1>3, <2>1, Zenon DEF TypeOK
    <2> QED
        BY <1>1, <1>2, <1>3, <2>1, <2>2, Zenon
           DEF CleanupEvent, TypeOK, xactVars, syncVars, dataVars
<1>7. CASE LogswitchBlocked(n)
    BY <1>1, <1>2, <1>7, Zenon
       DEF LogswitchBlocked, CleanupEvent, TypeOK, xactVars, syncVars, logVars,
           dataVars
<1> QED BY <1>4, <1>5, <1>6, <1>7, Zenon

(* So does the setval() that outlives a failed cleanup transaction. *)
LEMMA TypeCrash ==
    ASSUME TypeOK, NEW n \in Node, NEW cut \in Cut(n), CleanupCrash(n, cut)
    PROVE  TypeOK'
<1>1. /\ StartedStatus(logStatus[n]) \in 0 .. 3
      /\ FinishedStatus(logStatus[n]) \in 0 .. 3
    BY LogTypes, Zenon DEF TypeOK
<1>2. logStatus' \in [Node -> 0 .. 3]
    BY <1>1, Zenon DEF CleanupCrash, TypeOK
<1> QED
    BY <1>2, Zenon DEF CleanupCrash, TypeOK, xactVars, syncVars, dataVars

(* The initial cluster is well typed. *)
LEMMA TypeInit == ASSUME Init PROVE TypeOK
<1> USE ConfigAssumption, BoundAssumption
<1>1. [xmax |-> 1, xip |-> {}] \in Snap
    BY DEF Snap
<1>2. snap \in Seq(Snap) /\ Len(snap) = 1
    BY <1>1 DEF Init
<1>3. [k \in Key |-> 0] \in [Key -> 0 .. MaxSeq]
    OBVIOUS
<1>4. image \in Seq([Key -> 0 .. MaxSeq]) /\ Len(image) = 1
    BY <1>3 DEF Init
<1> QED BY <1>2, <1>4 DEF Init, TypeOK, Snap, Xid, Idle

(* Every step keeps every variable in its type. *)
LEMMA TypeStep ==
    ASSUME TypeOK, [Next]_vars
    PROVE  TypeOK'
<1>1. CASE Application
    BY <1>1, TypeTrigger, TypeSavepoint, TypeCommit, TypeAbort, Zenon DEF Application
<1>2. CASE SyncThread
    BY <1>2, TypeSync, Zenon DEF SyncThread, SyncOnActivity, SyncOnTimeout
<1>3. CASE \E n \in Receiver : RemoteWorker(n)
    BY <1>3, TypeBegin, TypeCommitSync, TypeRetry, Zenon DEF RemoteWorker
<1>4. CASE \E n \in Node : ConfirmForwarding(n)
    BY <1>4, TypeForward, Zenon DEF ConfirmForwarding
<1>5. CASE \E n \in Cleaner : CleanupThread(n)
    BY <1>5, TypeCleanup, TypeCrash, ConfigAssumption, Zenon DEF CleanupThread
<1>6. CASE UNCHANGED vars
    BY <1>6, Zenon DEF vars, TypeOK, xactVars, syncVars, logVars, dataVars
<1> QED BY <1>1, <1>2, <1>3, <1>4, <1>5, <1>6, Zenon DEF Next

(* Every variable keeps its type, whatever the timing of cleanup. *)
THEOREM TypeCorrect == Spec => []TypeOK
<1>1. Init => TypeOK BY TypeInit, Zenon
<1>2. TypeOK /\ [Next]_vars => TypeOK' BY TypeStep, Zenon
<1> QED BY <1>1, <1>2, PTL DEF Spec

(* What the types say of numbers: arithmetic on them is meaningful. *)
LEMMA NumberTypes ==
    ASSUME TypeOK
    PROVE  /\ nextXid \in Int /\ xmax \in Int /\ actSeq \in Int
           /\ Len(snap) \in Nat /\ Len(image) = Len(snap)
           /\ \A n \in Receiver : setsync[n] \in 1 .. Len(snap) /\ setsync[n] \in Int
           /\ \A n \in Node : \A e \in event[n] : e \in 1 .. Len(snap) /\ e \in Int
           /\ \A n \in Node, r \in Receiver : \A c \in con[n][r] :
                c \in 1 .. Len(snap) /\ c \in Int
<1>1. nextXid \in Int /\ xmax \in Int /\ actSeq \in Int
    BY BoundAssumption DEF TypeOK
<1>2. Len(snap) \in Nat /\ Len(image) = Len(snap)
    BY DEF TypeOK
<1>3. \A n \in Receiver : setsync[n] \in 1 .. Len(snap)
    BY Zenon DEF TypeOK
<1>4. \A n \in Node : \A e \in event[n] : e \in 1 .. Len(snap)
    BY Zenon DEF TypeOK
<1>5. \A n \in Node, r \in Receiver : \A c \in con[n][r] : c \in 1 .. Len(snap)
    BY DEF TypeOK
<1> QED BY <1>1, <1>2, <1>3, <1>4, <1>5

(* What the types say of log rows and log status. *)
LEMMA RowTypes ==
    ASSUME TypeOK
    PROVE  /\ \A n \in Node : applied[n] \subseteq Row /\ logStatus[n] \in 0 .. 3
           /\ \A n \in Node, i \in LogNo : log[n][i] \subseteq Row
           /\ \A r \in Row : /\ r.xid \in Xid /\ r.xid \in Int /\ r.seq \in Int
                             /\ r.key \in Key
<1>1. \A n \in Node : applied[n] \subseteq Row /\ logStatus[n] \in 0 .. 3
    BY Zenon DEF TypeOK
<1>2. \A n \in Node, i \in LogNo : log[n][i] \subseteq Row
    BY DEF TypeOK
<1>3. \A r \in Row : r.xid \in Xid /\ r.xid \in Int /\ r.seq \in Int /\ r.key \in Key
    BY BoundAssumption DEF Row, Xid
<1> QED BY <1>1, <1>2, <1>3, Zenon

(* What the types say of a busy worker. *)
LEMMA WorkerTypes ==
    ASSUME TypeOK, NEW n \in Receiver, worker[n] # Idle
    PROVE  /\ worker[n].ev \in 1 .. Len(snap) /\ worker[n].ev \in Int
           /\ worker[n].group \subseteq 1 .. Len(snap)
           /\ worker[n].query \subseteq LogNo /\ worker[n].into \in LogNo
<1>1. worker[n] \in Busy(Len(snap))
    BY Zenon DEF TypeOK, Busy
<1> QED BY <1>1 DEF Busy

-----------------------------------------------------------------------------
(* What a step has to leave alone for a conjunct to be kept.               *)

(* XactInv is about the transactions, the logs and the applied rows of the
   origin only. *)
LEMMA KeepXact ==
    ASSUME XactInv, UNCHANGED xactVars, log'[Origin] = log[Origin],
           logStatus'[Origin] = logStatus[Origin],
           applied'[Origin] = applied[Origin]
    PROVE  XactInv'
BY Zenon DEF XactInv, xactVars

(* SnapInv is about snapshots and running transactions. *)
LEMMA KeepSnap ==
    ASSUME SnapInv, UNCHANGED <<snap, xmax, running>>
    PROVE  SnapInv'
BY Zenon DEF SnapInv, Syncs

(* ConflictInv survives any loss of log rows that are not committed. *)
LEMMA KeepConflict ==
    ASSUME ConflictInv, UNCHANGED snap, AllRows' \subseteq AllRows,
           applied'[Origin] = applied[Origin]
    PROVE  ConflictInv'
BY Zenon DEF ConflictInv, Syncs

(* ImageInv is about the tables of the origin and what SYNCs show of it. *)
LEMMA KeepImage ==
    ASSUME ImageInv, UNCHANGED <<snap, image>>,
           tab'[Origin] = tab[Origin], applied'[Origin] = applied[Origin]
    PROVE  ImageInv'
BY DEF ImageInv, Syncs, SeenAt, IsLast

(* ConfirmInv is about events, confirmations and positions. *)
LEMMA KeepConfirm ==
    ASSUME ConfirmInv, UNCHANGED <<con, setsync, event>>
    PROVE  ConfirmInv'
BY Zenon DEF ConfirmInv, ConfirmSound

(* WorkerInv is about workers, positions and log status. *)
LEMMA KeepWorker ==
    ASSUME WorkerInv, UNCHANGED <<worker, setsync, logStatus>>
    PROVE  WorkerInv'
BY Zenon DEF WorkerInv, NeverAheadOfProvider

(* AppliedExactly is about applied rows and positions. *)
LEMMA KeepApplied ==
    ASSUME AppliedExactly, UNCHANGED <<applied, snap, setsync>>
    PROVE  AppliedExactly'
BY Zenon DEF AppliedExactly

(* ReplicaConsistent is about the tables of the subscribers. *)
LEMMA KeepReplica ==
    ASSUME ReplicaConsistent, UNCHANGED <<image, setsync>>,
           \A n \in Receiver : tab'[n] = tab[n]
    PROVE  ReplicaConsistent'
BY Zenon DEF ReplicaConsistent

(* What is said of the rows of the logs is about logs, applied rows, workers
   and snapshots. *)
LEMMA KeepRows ==
    ASSUME ConflictInv, LogInv, QueriedLogsSuffice,
           UNCHANGED <<snap, log, logStatus, worker, applied, setsync>>
    PROVE  ConflictInv' /\ LogInv' /\ QueriedLogsSuffice'
<1>1. AllRows' = AllRows
    BY Zenon DEF AllRows
<1>2. ConflictInv'
    BY <1>1, KeepConflict, Zenon
<1>3. LogInv'
    BY Zenon DEF LogInv
<1>4. QueriedLogsSuffice'
    BY Zenon DEF QueriedLogsSuffice, Needed
<1> QED BY <1>2, <1>3, <1>4, Zenon

(* Whatever is applied anywhere is committed at the origin. *)
LEMMA AppliedCommitted ==
    ASSUME AppliedExactly, NEW n \in Node
    PROVE  applied[n] \subseteq applied[Origin]
BY Zenon DEF AppliedExactly, Receiver

(* The parts of a snapshot. *)
LEMMA SnapType ==
    ASSUME TypeOK, NEW e \in Syncs
    PROVE  /\ snap[e].xmax \in 1 .. MaxXid + 1 /\ snap[e].xip \subseteq Xid
           /\ e \in 1 .. Len(snap) /\ e \in Int /\ Len(snap) \in Nat
<1>1. snap \in Seq(Snap) /\ e \in 1 .. Len(snap)
    BY Zenon DEF TypeOK, Snap, Syncs
<1>2. snap[e] \in Snap /\ Len(snap) \in Nat
    BY <1>1
<1> QED BY <1>1, <1>2 DEF Snap

(* No SYNC shows a transaction in progress, or one still to come. *)
LEMMA NothingLaterSeen ==
    ASSUME IInv, NEW e \in Syncs
    PROVE  /\ ~Visible(nextXid, snap[e])
           /\ \A x \in running : ~Visible(x, snap[e])
<1>1. snap[e].xmax \in Int /\ snap[e].xmax <= xmax
    BY SnapType, BoundAssumption DEF IInv, SnapInv
<1>2. xmax \in Int /\ nextXid \in Int /\ xmax <= nextXid
    BY BoundAssumption DEF IInv, TypeOK, XactInv
<1>3. ~Visible(nextXid, snap[e])
    BY <1>1, <1>2 DEF Visible
<1> QED BY <1>3, Zenon DEF IInv, SnapInv, TypeOK

(* LogInv and QueriedLogsSuffice hold as long as the logs lose none of the
   committed rows. *)
LEMMA KeepLogs ==
    ASSUME IInv, UNCHANGED <<applied, logStatus, worker, snap>>,
           \A n \in Node, i \in LogNo :
                log[n][i] \cap applied[Origin] \subseteq log'[n][i],
           \A n \in Receiver, i \in LogNo : log'[n][i] \subseteq log[n][i]
    PROVE  LogInv' /\ QueriedLogsSuffice'
<1> USE ConfigAssumption
<1>1. \A n \in Receiver : Provider[n] \in Node
    BY Zenon
<1>2. \A n \in Node : logStatus[n] \in 0 .. 3
    BY Zenon DEF IInv, TypeOK
<1>3. LogInv'
    <2>1. \A n \in Receiver, i \in LogNo : log'[n][i] \subseteq applied[n]
        BY Zenon DEF IInv, LogInv
    <2>2. ASSUME NEW n \in Receiver, NEW r \in applied[Provider[n]] \ applied[n]
          PROVE  \E i \in LogsToQuery(logStatus[Provider[n]]) :
                    r \in log'[Provider[n]][i]
        <3>1. PICK i \in LogsToQuery(logStatus[Provider[n]]) :
                    r \in log[Provider[n]][i]
            BY <2>2, Zenon DEF IInv, LogInv
        <3>2. i \in LogNo /\ r \in applied[Origin]
            BY <1>1, <1>2, <2>2, LogTypes, AppliedCommitted, Zenon DEF IInv
        <3> QED BY <1>1, <3>1, <3>2, Zenon
    <2> QED BY <2>1, <2>2, Zenon DEF LogInv
<1>4. QueriedLogsSuffice'
    <2> SUFFICES ASSUME NEW n \in Receiver, worker[n] # Idle,
                        NEW r \in Needed(n, worker[n].ev)
                 PROVE  \E i \in worker[n].query : r \in log'[Provider[n]][i]
        BY DEF QueriedLogsSuffice, Needed
    <2>1. PICK i \in worker[n].query : r \in log[Provider[n]][i]
        BY DEF IInv, QueriedLogsSuffice
    <2>2. i \in LogNo
        BY <2>1, Zenon DEF IInv, TypeOK
    <2>3. r \in applied[Origin]
        BY Zenon DEF Needed
    <2> QED BY <1>1, <2>1, <2>2, <2>3, Zenon
<1> QED BY <1>3, <1>4, Zenon

-----------------------------------------------------------------------------
(* One lemma per action: application transactions.                         *)

(* logTrigger(): a new log row is the newest of its table row, and everything
   logged on that table row before belongs to the same or to a committed
   transaction. *)
LEMMA StepTrigger ==
    ASSUME IInv, NEW x \in Xid, NEW k \in Key, LogTrigger(x, k)
    PROVE  IInv'
<1> USE ConfigAssumption, BoundAssumption
<1> DEFINE new == [xid |-> x, seq |-> actSeq + 1, key |-> k]
           i == CachedLog(x)
<1>1. TypeOK'
    BY TypeTrigger, Zenon DEF IInv
<1>2. i \in LogNo /\ new \in Row
    <2>1. logStatus[Origin] \in 0 .. 3 /\ plan[x] \in {0} \cup LogNo
        BY Zenon DEF IInv, TypeOK
    <2>2. new \in Row
        <3>1. actSeq \in 0 .. MaxSeq /\ actSeq < MaxSeq
            BY Zenon DEF IInv, TypeOK, LogTrigger
        <3> QED BY <3>1 DEF Row
    <2> QED BY <2>1, <2>2, LogTypes, Zenon DEF CachedLog
<1>3. /\ log'[Origin][i] = log[Origin][i] \cup {new}
      /\ \A j \in LogNo \ {i} : log'[Origin][j] = log[Origin][j]
      /\ \A n \in Node \ {Origin} : log'[n] = log[n]
    BY <1>2, Zenon DEF LogTrigger, IInv, TypeOK
<1>4. /\ running' = running \cup {x}
      /\ nextXid' = IF x = nextXid THEN nextXid + 1 ELSE nextXid
      /\ plan' = [plan EXCEPT ![x] = i]
      /\ actSeq' = actSeq + 1
      /\ x \in running \/ x = nextXid
      /\ UNCHANGED <<xmax, lastAct, snap, image, logStatus, event, con,
                     setsync, worker, applied, tab>>
    BY Zenon DEF LogTrigger, syncVars, dataVars
<1>5. RowLockFree(x, k)
    BY Zenon DEF LogTrigger
<1>6. x < nextXid' /\ nextXid <= nextXid'
    <2>1. x < nextXid \/ x = nextXid
        BY <1>4, Zenon DEF IInv, XactInv
    <2>2. x \in Int /\ nextXid \in Int
        BY NumberTypes DEF IInv, Xid
    <2>3. nextXid' = nextXid + 1 \/ (nextXid' = nextXid /\ x # nextXid)
        BY <1>4, Zenon
    <2> QED BY <2>1, <2>2, <2>3
<1>7. i \in LogsToQuery(logStatus[Origin])
    BY <1>4, LogTypes, Zenon DEF IInv, TypeOK, XactInv, CachedLog, Xid
<1>8. AllRows' = AllRows \cup {new}
    BY <1>2, <1>3, <1>4, Zenon DEF AllRows, LogNo
<1>9. \A r \in AllRows : r \in Row /\ r.seq <= actSeq
    <2> SUFFICES ASSUME NEW r \in AllRows PROVE r \in Row /\ r.seq <= actSeq
        BY Zenon
    <2>1. CASE r \in applied[Origin]
        BY <2>1, RowTypes, Zenon DEF IInv, XactInv
    <2>2. ASSUME NEW j \in LogNo, r \in log[Origin][j] PROVE r \in Row /\ r.seq <= actSeq
        BY <2>2, RowTypes, Zenon DEF IInv, XactInv
    <2> QED BY <2>1, <2>2, Zenon DEF AllRows, LogNo
<1> HIDE DEF new, i
<1>10. XactInv'
    <2>1. ASSUME NEW y \in running'
          PROVE  y < nextXid' /\ plan'[y] \in LogsToQuery(logStatus[Origin])
        <3>1. CASE y = x
            BY <1>4, <1>6, <1>7, <3>1, Zenon DEF IInv, TypeOK
        <3>2. CASE y # x
            <4>1. y \in running /\ y \in Xid
                BY <1>4, <3>2, Zenon DEF IInv, TypeOK
            <4>2. y < nextXid /\ plan[y] \in LogsToQuery(logStatus[Origin])
                BY <4>1, Zenon DEF IInv, XactInv
            <4>3. plan'[y] = plan[y]
                BY <1>4, <3>2, <4>1, ZenonT(40) DEF IInv, TypeOK
            <4>4. y \in Int /\ nextXid \in Int /\ nextXid' \in Int
                <5>1. y \in Int
                    BY <4>1 DEF Xid
                <5>2. nextXid \in Int
                    BY NumberTypes, Zenon DEF IInv
                <5>3. nextXid' = nextXid + 1 \/ nextXid' = nextXid
                    BY <1>4, Zenon
                <5> QED BY <5>1, <5>2, <5>3
            <4> QED BY <1>6, <4>2, <4>3, <4>4
        <3> QED BY <3>1, <3>2, Zenon
    <2>2. xmax <= nextXid' /\ \A y \in Xid \ running' : plan'[y] = 0
        BY <1>4, <1>6 DEF IInv, TypeOK, XactInv
    <2>3. ASSUME NEW j \in LogNo, NEW r \in log'[Origin][j]
          PROVE  /\ r.seq <= actSeq' /\ r.xid < nextXid'
                 /\ r.xid \in running' => j = plan'[r.xid]
                 /\ r.xid \notin running' => r \in applied[Origin]
        <3>1. CASE r = new /\ j = i
            <4>1. r.seq = actSeq' /\ r.xid = x /\ x \in running' /\ actSeq' \in Int
                BY <1>4, <3>1, NumberTypes DEF new, IInv
            <4>2. plan'[x] = i
                BY <1>4, Zenon DEF IInv, TypeOK
            <4> QED BY <1>6, <3>1, <4>1, <4>2, SMTT(30)
        <3>2. CASE r \in log[Origin][j]
            <4>1. /\ r.seq <= actSeq /\ r.xid < nextXid
                  /\ r.xid \in running => j = plan[r.xid]
                  /\ r.xid \notin running => r \in applied[Origin]
                BY <3>2, Zenon DEF IInv, XactInv
            <4>2. r \in Row
                BY <3>2 DEF IInv, TypeOK
            <4>3. r.xid = x => x \in running /\ i = plan[x]
                <5> SUFFICES ASSUME r.xid = x PROVE x \in running /\ i = plan[x]
                    BY Zenon
                <5>1. x < nextXid
                    BY <4>1, Zenon
                <5>2. x \in running
                    BY <1>4, <5>1 DEF IInv, TypeOK, Xid
                <5>3. plan[x] = j
                    BY <4>1, <5>2, Zenon
                <5> QED BY <5>2, <5>3 DEF CachedLog, i, LogNo
            <4>4. r.seq <= actSeq' /\ r.xid < nextXid'
                <5>1. actSeq \in Int /\ nextXid \in Int /\ nextXid' \in Int
                    BY <1>4, NumberTypes DEF IInv
                <5>2. r.seq \in Int /\ r.xid \in Int
                    BY <4>2, RowTypes, Zenon DEF IInv
                <5> QED BY <1>4, <1>6, <4>1, <5>1, <5>2
            <4>5. CASE r.xid = x
                BY <1>4, <4>1, <4>3, <4>4, <4>5, Zenon DEF IInv, TypeOK
            <4>6. CASE r.xid # x
                <5>1. r.xid \in Xid /\ plan'[r.xid] = plan[r.xid]
                    BY <1>4, <4>2, <4>6, ZenonT(40) DEF IInv, TypeOK, Row
                <5> QED BY <1>4, <4>1, <4>4, <4>6, <5>1, Zenon
            <4> QED BY <4>5, <4>6, Zenon
        <3> QED BY <1>3, <3>1, <3>2, Zenon
    <2>4. \A r \in applied[Origin] :
            r.seq <= actSeq' /\ r.xid < xmax /\ r.xid \notin running'
        <3> SUFFICES ASSUME NEW r \in applied[Origin]
                     PROVE  r.seq <= actSeq' /\ r.xid < xmax /\ r.xid \notin running'
            BY Zenon
        <3>1. r.seq <= actSeq /\ r.xid < xmax /\ r.xid \notin running /\ xmax <= nextXid
            BY Zenon DEF IInv, XactInv
        <3>2. actSeq \in Int /\ xmax \in Int /\ nextXid \in Int
            BY NumberTypes, Zenon DEF IInv
        <3>3. r.seq \in Int /\ r.xid \in Int
            BY RowTypes, Zenon DEF IInv
        <3> QED BY <1>4, <3>1, <3>2, <3>3
    <2> QED BY <1>4, <2>1, <2>2, <2>3, <2>4, Zenon DEF XactInv
<1>11. SnapInv'
    <2>1. \A e \in Syncs : ~Visible(nextXid, snap[e])
        BY NothingLaterSeen, Zenon
    <2> QED
        BY <1>4, <2>1, Zenon DEF IInv, SnapInv, Syncs
<1>12. ConflictInv'
    <2>1. ASSUME NEW r \in AllRows, r.key = k, r.xid # x
          PROVE  r \in applied[Origin]
        BY <1>5, <2>1, Zenon DEF RowLockFree, RowsOf, AllRows, IInv, XactInv, LogNo
    <2>2. \A e \in Syncs : ~Visible(x, snap[e])
        BY <1>4, NothingLaterSeen, Zenon
    <2>3. ASSUME NEW r \in AllRows', NEW s \in AllRows'
          PROVE  /\ r.seq = s.seq => r = s
                 /\ (r.key = s.key /\ r.xid # s.xid /\ r.seq < s.seq) =>
                    /\ r \in applied[Origin]
                    /\ \A e \in Syncs :
                        Visible(s.xid, snap[e]) => Visible(r.xid, snap[e])
        <3>1. CASE r \in AllRows /\ s \in AllRows
            BY <3>1, Zenon DEF IInv, ConflictInv
        <3>2. CASE r = new /\ s \in AllRows
            <4>1. s.seq \in Int /\ actSeq \in Int /\ s.seq <= actSeq
                BY <1>9, <3>2, RowTypes, NumberTypes, Zenon DEF IInv
            <4>2. r.seq = actSeq + 1
                BY <3>2 DEF new
            <4> QED BY <4>1, <4>2
        <3>3. CASE r \in AllRows /\ s = new
            <4>1. r.seq \in Int /\ actSeq \in Int /\ r.seq <= actSeq
                BY <1>9, <3>3, RowTypes, NumberTypes, Zenon DEF IInv
            <4>2. s.seq = actSeq + 1 /\ s.xid = x /\ s.key = k
                BY <3>3 DEF new
            <4>3. r.seq # s.seq
                BY <4>1, <4>2
            <4> QED BY <2>1, <2>2, <3>3, <4>2, <4>3, Zenon
        <3>4. CASE r = new /\ s = new
            BY <3>4, Zenon
        <3> QED BY <1>8, <3>1, <3>2, <3>3, <3>4, Zenon
    <2> QED BY <1>4, <2>3, Zenon DEF ConflictInv, Syncs
<1>13. LogInv' /\ QueriedLogsSuffice'
    BY <1>2, <1>3, <1>4, KeepLogs, Zenon DEF Receiver
<1>14. ImageInv' /\ ConfirmInv' /\ WorkerInv' /\ AppliedExactly'
        /\ ReplicaConsistent'
    BY <1>4, KeepImage, KeepConfirm, KeepWorker, KeepApplied, KeepReplica, Zenon
       DEF IInv
<1> QED
    BY <1>1, <1>10, <1>11, <1>12, <1>13, <1>14, Zenon DEF IInv

(* ROLLBACK TO SAVEPOINT takes away rows of a transaction in progress only,
   which no SYNC shows and no subscriber has. *)
LEMMA StepSavepoint ==
    ASSUME IInv, NEW x \in Xid, NEW s \in 0 .. MaxSeq, RollbackToSavepoint(x, s)
    PROVE  IInv'
<1> USE ConfigAssumption
<1>1. TypeOK'
    BY TypeSavepoint, Zenon DEF IInv
<1>2. /\ x \in running
      /\ UNCHANGED <<nextXid, running, xmax, plan, actSeq, lastAct, snap, image,
                     logStatus, event, con, setsync, worker, applied, tab>>
    BY Zenon DEF RollbackToSavepoint, xactVars, syncVars, dataVars
<1>3. /\ \A i \in LogNo : log'[Origin][i] =
                    {r \in log[Origin][i] : r.xid # x \/ r.seq <= s}
      /\ \A n \in Node \ {Origin} : log'[n] = log[n]
    BY Zenon DEF RollbackToSavepoint, IInv, TypeOK
<1>4. \A r \in applied[Origin] : r.xid # x
    BY <1>2, Zenon DEF IInv, XactInv
<1>5. XactInv'
    BY <1>2, <1>3 DEF IInv, XactInv
<1>6. ConflictInv'
    <2>1. AllRows' \subseteq AllRows
        BY <1>2, <1>3, Zenon DEF AllRows, LogNo
    <2> QED BY <1>2, <2>1, KeepConflict, Zenon DEF IInv
<1>7. LogInv' /\ QueriedLogsSuffice'
    BY <1>2, <1>3, <1>4, KeepLogs, Zenon DEF Receiver
<1>8. /\ SnapInv' /\ ImageInv' /\ ConfirmInv' /\ WorkerInv' /\ AppliedExactly'
      /\ ReplicaConsistent'
    BY Zenon, <1>2, KeepSnap, KeepImage, KeepConfirm, KeepWorker, KeepApplied,
       KeepReplica DEF IInv
<1> QED
    BY <1>1, <1>5, <1>6, <1>7, <1>8, Zenon DEF IInv

(* The end of a transaction: nothing visible becomes invisible. *)
LEMMA StepComplete ==
    ASSUME IInv, NEW x \in running, Complete(x), UNCHANGED snap
    PROVE  /\ SnapInv' /\ xmax <= xmax' /\ x < xmax' /\ xmax' <= nextXid
           /\ \A y \in running' : y \in running /\ plan'[y] = plan[y]
           /\ \A y \in Xid \ running' : plan'[y] = 0
<1> USE BoundAssumption
<1>1. x \in Xid /\ x < nextXid /\ xmax <= nextXid
    BY Zenon DEF IInv, TypeOK, XactInv
<1>2. xmax <= xmax' /\ x < xmax' /\ xmax' <= nextXid
    BY <1>1 DEF Complete, IInv, TypeOK, Xid
<1>3. running' = running \ {x} /\ plan' = [plan EXCEPT ![x] = 0]
    BY Zenon DEF Complete
<1>4. SnapInv'
    <2>1. \A e \in Syncs : snap[e].xmax <= xmax'
        <3> TAKE e \in Syncs
        <3>1. snap[e].xmax \in Int /\ snap[e].xmax <= xmax
            BY SnapType DEF IInv, SnapInv
        <3>2. xmax \in Int /\ xmax' \in Int
            <4>1. xmax \in Int
                BY NumberTypes, Zenon DEF IInv
            <4>2. x \in Int
                BY <1>1 DEF Xid
            <4> QED BY <4>1, <4>2 DEF Complete
        <3> QED BY <1>2, <3>1, <3>2
    <2> QED BY <1>3, <2>1, Zenon DEF IInv, SnapInv, Syncs
<1> QED
    BY <1>1, <1>2, <1>3, <1>4, Zenon DEF IInv, TypeOK, XactInv

(* An abort takes its rows with it. *)
LEMMA StepAbort ==
    ASSUME IInv, NEW x \in Xid, Abort(x)
    PROVE  IInv'
<1> USE ConfigAssumption
<1>1. TypeOK'
    BY TypeAbort, Zenon DEF IInv
<1>2. /\ x \in running /\ Complete(x)
      /\ running' = running \ {x} /\ nextXid' = nextXid /\ actSeq' = actSeq
      /\ UNCHANGED <<lastAct, snap, image, logStatus, event, con, setsync,
                     worker, applied, tab>>
    BY Zenon DEF Abort, Complete, syncVars, dataVars
<1>3. /\ \A i \in LogNo :
            log'[Origin][i] = {r \in log[Origin][i] : r.xid # x}
      /\ \A n \in Node \ {Origin} : log'[n] = log[n]
    BY Zenon DEF Abort, IInv, TypeOK
<1>4. /\ SnapInv' /\ xmax <= xmax' /\ x < xmax' /\ xmax' <= nextXid
      /\ \A y \in running' : y \in running /\ plan'[y] = plan[y]
      /\ \A y \in Xid \ running' : plan'[y] = 0
    BY <1>2, StepComplete, Zenon
<1>5. \A r \in applied[Origin] : r.xid # x
    BY <1>2, Zenon DEF IInv, XactInv
<1>6. XactInv'
    <2>1. \A r \in applied[Origin] :
            r.seq <= actSeq /\ r.xid < xmax' /\ r.xid \notin running'
        <3> SUFFICES ASSUME NEW r \in applied[Origin]
                     PROVE  r.seq <= actSeq /\ r.xid < xmax' /\ r.xid \notin running'
            BY Zenon
        <3>1. r.xid \in Int /\ xmax \in Int /\ xmax' \in Int
            <4>1. xmax' \in Int
                <5>1. xmax' \in 1 .. MaxXid + 1
                    BY <1>1, Zenon DEF TypeOK
                <5> QED BY <5>1, BoundAssumption
            <4> QED BY <4>1, ConfigAssumption, NumberTypes, RowTypes, Zenon DEF IInv
        <3> QED BY <1>2, <1>4, <3>1 DEF IInv, XactInv
    <2>2. \A i \in LogNo : \A r \in log'[Origin][i] :
            /\ r.seq <= actSeq /\ r.xid < nextXid
            /\ r.xid \in running' => i = plan'[r.xid]
            /\ r.xid \notin running' => r \in applied[Origin]
        BY <1>2, <1>3, <1>4 DEF IInv, XactInv
    <2>3. /\ \A y \in running' : y < nextXid
          /\ \A y \in running' : plan'[y] \in LogsToQuery(logStatus[Origin])
        BY <1>4, Zenon DEF IInv, XactInv
    <2> QED BY <1>2, <1>4, <2>1, <2>2, <2>3, Zenon DEF XactInv
<1>7. ConflictInv'
    <2>1. AllRows' \subseteq AllRows
        BY <1>2, <1>3, Zenon DEF AllRows, LogNo
    <2> QED BY <1>2, <2>1, KeepConflict, Zenon DEF IInv
<1>8. LogInv' /\ QueriedLogsSuffice'
    BY <1>2, <1>3, <1>5, KeepLogs, Zenon DEF Receiver
<1>9. ImageInv' /\ ConfirmInv' /\ WorkerInv' /\ AppliedExactly'
        /\ ReplicaConsistent'
    BY <1>2, KeepImage, KeepConfirm, KeepWorker, KeepApplied, KeepReplica, Zenon
       DEF IInv
<1> QED
    BY <1>1, <1>4, <1>6, <1>7, <1>8, <1>9, Zenon DEF IInv

(* A commit: the rows of the transaction are the last on the table rows they
   change, lie in a log that is selected from, and no SYNC shows them yet. *)
LEMMA StepCommit ==
    ASSUME IInv, NEW x \in Xid, Commit(x)
    PROVE  IInv'
<1> USE ConfigAssumption
<1> DEFINE R == RowsOf(x)
<1>1. TypeOK'
    BY TypeCommit, Zenon DEF IInv
<1>2. /\ x \in running /\ Complete(x)
      /\ running' = running \ {x} /\ nextXid' = nextXid /\ actSeq' = actSeq
      /\ UNCHANGED <<lastAct, snap, image, log, logStatus, event, con, setsync,
                     worker>>
    BY Zenon DEF Commit, Complete, syncVars, logVars
<1>3. /\ applied'[Origin] = applied[Origin] \cup R
      /\ tab'[Origin] = Apply(tab[Origin], R)
      /\ \A n \in Receiver : applied'[n] = applied[n] /\ tab'[n] = tab[n]
    BY Zenon DEF Commit, IInv, TypeOK, Receiver
<1>4. /\ SnapInv' /\ xmax <= xmax' /\ x < xmax' /\ xmax' <= nextXid
      /\ \A y \in running' : y \in running /\ plan'[y] = plan[y]
      /\ \A y \in Xid \ running' : plan'[y] = 0
    BY <1>2, StepComplete, Zenon
<1>5. R \in SUBSET Row
    BY RowsOfType, Zenon DEF IInv
<1>6. \A r \in R : /\ r.xid = x /\ r \notin applied[Origin] /\ r.seq <= actSeq
                   /\ r \in log[Origin][plan[x]]
    BY <1>2, Zenon DEF IInv, XactInv, RowsOf, LogNo
<1>7. \A r \in R, e \in Syncs : ~Visible(r.xid, snap[e])
    BY <1>2, <1>6, NothingLaterSeen, Zenon
<1>8. \A e \in Syncs : {r \in applied'[Origin] : Visible(r.xid, snap[e])} = SeenAt(e)
    BY <1>3, <1>7, Zenon DEF SeenAt
<1>9. AllRows' = AllRows
    BY <1>2, <1>3, Zenon DEF AllRows, RowsOf
<1>10. \A i \in LogNo : \A r \in log[Origin][i] : r.xid = x => r \in R
    BY Zenon DEF RowsOf, LogNo
<1>11. \A n \in Receiver : setsync[n] \in Syncs
    BY Zenon DEF IInv, TypeOK, Syncs
<1> HIDE DEF R
<1>12. XactInv'
    <2>1. \A r \in applied'[Origin] :
            r.seq <= actSeq /\ r.xid < xmax' /\ r.xid \notin running'
        <3> TAKE r \in applied'[Origin]
        <3>1. xmax \in Int /\ xmax' \in Int
            <4>1. xmax' \in 1 .. MaxXid + 1
                BY <1>1, Zenon DEF TypeOK
            <4> QED BY <4>1, BoundAssumption, NumberTypes DEF IInv
        <3>2. r \in Row
            BY <1>3, <1>5, RowTypes, Zenon DEF IInv
        <3>3. r.xid \in Int
            BY <3>2, RowTypes, Zenon DEF IInv
        <3>4. CASE r \in applied[Origin]
            BY <1>2, <1>4, <3>1, <3>3, <3>4 DEF IInv, XactInv
        <3>5. CASE r \in R
            BY <1>2, <1>4, <1>6, <3>5, Zenon
        <3> QED BY <1>3, <3>4, <3>5, Zenon
    <2>2. \A i \in LogNo : \A r \in log[Origin][i] :
            /\ r.seq <= actSeq /\ r.xid < nextXid
            /\ r.xid \in running' => i = plan'[r.xid]
            /\ r.xid \notin running' => r \in applied'[Origin]
        BY <1>2, <1>3, <1>4, <1>10 DEF IInv, XactInv
    <2>3. /\ \A y \in running' : y < nextXid
          /\ \A y \in running' : plan'[y] \in LogsToQuery(logStatus[Origin])
        BY <1>4, Zenon DEF IInv, XactInv
    <2> QED BY <1>2, <1>4, <2>1, <2>2, <2>3, Zenon DEF XactInv
<1>13. ConflictInv'
    BY <1>2, <1>3, <1>9, Zenon DEF IInv, ConflictInv, Syncs
<1>14. ImageInv'
    <2>1. ASSUME NEW k \in Key
          PROVE  IsLast(tab'[Origin][k], applied'[Origin], k)
        <3>1. CASE \E r \in R : r.key = k
            <4>1. PICK r \in R : /\ r.key = k /\ r.seq = LastAction(R, k)
                                 /\ \A s \in R : s.key = k => s.seq <= r.seq
                BY <1>5, <3>1, LastActionIsLast, Zenon
            <4>2. tab'[Origin][k] = r.seq
                BY <1>3, <3>1, <4>1, Zenon DEF Apply
            <4>3. ASSUME NEW s \in applied[Origin], s.key = k
                  PROVE  s.seq <= r.seq
                <5>1. s.xid # x
                    BY <1>2, Zenon DEF IInv, XactInv
                <5>2. r \in AllRows /\ s \in AllRows
                    BY <1>3, <1>9, Zenon DEF AllRows
                <5>3. ~(r.seq < s.seq)
                    BY <1>6, <4>1, <4>3, <5>1, <5>2, Zenon DEF IInv, ConflictInv
                <5>4. r.seq \in Int /\ s.seq \in Int
                    BY <1>5, RowTypes, Zenon DEF IInv
                <5> QED BY <5>3, <5>4
            <4> QED BY <1>3, <4>1, <4>2, <4>3, Zenon DEF IsLast
        <3>2. CASE ~ \E r \in R : r.key = k
            <4>1. tab'[Origin][k] = tab[Origin][k]
                BY <1>3, <3>2, Zenon DEF Apply
            <4>2. IsLast(tab[Origin][k], applied[Origin], k)
                BY Zenon DEF IInv, ImageInv
            <4> QED BY <1>3, <3>2, <4>1, <4>2, Zenon DEF IsLast
        <3> QED BY <3>1, <3>2, Zenon
    <2>2. \A e \in Syncs : SeenAt(e)' = SeenAt(e)
        BY <1>2, <1>8, Zenon DEF SeenAt
    <2> QED BY <1>2, <2>1, <2>2, Zenon DEF IInv, ImageInv, Syncs
<1>15. LogInv'
    <2>1. \A n \in Receiver, i \in LogNo : log[n][i] \subseteq applied'[n]
        BY <1>3, Zenon DEF IInv, LogInv
    <2>2. ASSUME NEW n \in Receiver,
                 NEW r \in applied'[Provider[n]] \ applied'[n]
          PROVE  \E i \in LogsToQuery(logStatus[Provider[n]]) :
                    r \in log[Provider[n]][i]
        <3>1. CASE Provider[n] = Origin /\ r \in R
            BY <1>2, <1>6, <3>1, Zenon DEF IInv, XactInv
        <3>2. CASE r \in applied[Provider[n]]
            BY <1>3, <2>2, <3>2, Zenon DEF IInv, LogInv
        <3> QED BY <1>3, <2>2, <3>1, <3>2, Zenon DEF Receiver
    <2> QED BY <1>2, <2>1, <2>2, Zenon DEF LogInv
<1>16. AppliedExactly'
    BY <1>2, <1>3, <1>8, <1>11, Zenon DEF IInv, AppliedExactly, SeenAt
<1>17. QueriedLogsSuffice'
    <2> SUFFICES ASSUME NEW n \in Receiver, worker[n] # Idle
                 PROVE  Needed(n, worker[n].ev)' = Needed(n, worker[n].ev)
        BY <1>2, Zenon DEF IInv, QueriedLogsSuffice
    <2>1. worker[n].ev \in Syncs
        BY Zenon DEF IInv, TypeOK, Syncs
    <2> QED BY <1>2, <1>3, <1>8, <2>1, Zenon DEF Needed, SeenAt
<1>18. ConfirmInv' /\ WorkerInv' /\ ReplicaConsistent'
    BY <1>2, <1>3, KeepConfirm, KeepWorker, KeepReplica, Zenon DEF IInv
<1> QED
    BY <1>1, <1>4, <1>12, <1>13, <1>14, <1>15, <1>16, <1>17, <1>18, Zenon DEF IInv

-----------------------------------------------------------------------------
(* The remote worker.                                                      *)

(* The condition sync_event() puts on log_txid selects what the SYNC shows
   and the subscriber's position does not. *)
LEMMA SelectedBetween ==
    ASSUME IInv, NEW e \in Syncs, NEW f \in Syncs, e <= f, NEW x \in Xid
    PROVE  (\/ x >= snap[e].xmax /\ x < snap[f].xmax /\ Visible(x, snap[f])
            \/ x \in snap[e].xip \ snap[f].xip)
           <=> (Visible(x, snap[f]) /\ ~Visible(x, snap[e]))
<1>1. /\ snap[e].xmax \in Int /\ snap[f].xmax \in Int /\ x \in Int
      /\ snap[e].xip \subseteq Xid /\ snap[e].xmax <= snap[f].xmax
      /\ \A y \in snap[e].xip : y < snap[e].xmax
    BY SnapType, BoundAssumption DEF IInv, SnapInv, Xid
<1> QED BY <1>1 DEF Visible

(* The batch of a busy worker is what the subscriber needs, no more and no
   less. *)
LEMMA BatchExact ==
    ASSUME IInv, NEW n \in Receiver, worker[n] # Idle
    PROVE  LET w == worker[n]
               B == SelectRows(Provider[n], w.query, snap[setsync[n]], snap[w.ev])
           IN  /\ B = Needed(n, w.ev)
               /\ B \cap applied[n] = {}
               /\ applied[n] \cup B = SeenAt(w.ev)
               /\ applied[n] = SeenAt(setsync[n])
               /\ B \in SUBSET Row
               /\ w.ev \in Syncs /\ setsync[n] \in Syncs /\ setsync[n] < w.ev
<1> USE ConfigAssumption
<1> DEFINE w == worker[n]
           p == Provider[n]
           e == setsync[n]
           B == SelectRows(p, w.query, snap[e], snap[w.ev])
<1>1. w \in Busy(Len(snap)) /\ p \in Node
    BY Zenon DEF IInv, TypeOK, Busy
<1>2. w.ev \in Syncs /\ w.query \in SUBSET LogNo /\ e \in Syncs /\ e \in Int
    BY <1>1, SMTT(30) DEF Busy, Syncs, IInv, TypeOK
<1>3. e < w.ev /\ w.ev \in Int
    BY <1>2 DEF IInv, WorkerInv, Syncs
<1>4. B \in SUBSET Row
    BY <1>1, <1>2, SelectType, Zenon DEF IInv
<1>5. \A r \in B : /\ \E i \in w.query : r \in log[p][i]
                   /\ \/ r.xid >= snap[e].xmax /\ r.xid < snap[w.ev].xmax
                         /\ Visible(r.xid, snap[w.ev])
                      \/ r.xid \in snap[e].xip \ snap[w.ev].xip
    BY Zenon DEF SelectRows
<1>6. applied[n] = SeenAt(e)
    BY Zenon DEF IInv, AppliedExactly, SeenAt
<1>7. \A r \in Row : Visible(r.xid, snap[e]) => Visible(r.xid, snap[w.ev])
    BY <1>2, <1>3 DEF IInv, SnapInv, Row
<1> HIDE DEF w, p, e
<1>8. ASSUME NEW r \in B PROVE r \in Needed(n, w.ev)
    <2> HIDE DEF B
    <2>1. r.xid \in Xid
        BY <1>4, Zenon DEF Row
    <2>2. Visible(r.xid, snap[w.ev]) /\ ~Visible(r.xid, snap[e])
        BY <1>2, <1>3, <1>5, <2>1, SelectedBetween
    <2>3. PICK i \in w.query : r \in log[p][i]
        BY <1>5, Zenon
    <2>4. r \in applied[Origin]
        <3>1. CASE p = Origin
            <4>1. r.xid \notin running
                BY <1>2, <2>2, NothingLaterSeen, Zenon
            <4> QED BY <1>2, <2>3, <3>1, <4>1, Zenon DEF IInv, XactInv
        <3>2. CASE p # Origin
            <4>1. r \in applied[p]
                BY <1>1, <1>2, <2>3, <3>2, Zenon DEF IInv, LogInv, Receiver
            <4> QED BY <1>1, <4>1, AppliedCommitted, Zenon DEF IInv
        <3> QED BY <3>1, <3>2, Zenon
    <2> QED BY <1>6, <2>2, <2>4, Zenon DEF Needed, SeenAt
<1>9. ASSUME NEW r \in Needed(n, w.ev) PROVE r \in B
    <2>1. r \in applied[Origin] /\ r \notin applied[n] /\ Visible(r.xid, snap[w.ev])
        BY Zenon DEF Needed
    <2>2. r \in Row /\ r.xid \in Xid
        BY <2>1 DEF IInv, TypeOK, Row
    <2>3. ~Visible(r.xid, snap[e])
        BY <1>6, <2>1, Zenon DEF SeenAt
    <2>4. PICK i \in w.query : r \in log[p][i]
        BY Zenon DEF IInv, QueriedLogsSuffice, w, p
    <2>5. \/ r.xid >= snap[e].xmax /\ r.xid < snap[w.ev].xmax
             /\ Visible(r.xid, snap[w.ev])
          \/ r.xid \in snap[e].xip \ snap[w.ev].xip
        BY <1>2, <1>3, <2>1, <2>2, <2>3, SelectedBetween
    <2> QED BY <2>4, <2>5, Zenon DEF SelectRows
<1> HIDE DEF B
<1>10. B = Needed(n, w.ev)
    BY <1>8, <1>9, Zenon
<1>11. B \cap applied[n] = {}
    BY <1>10, Zenon DEF Needed
<1>12. applied[n] \cup B = SeenAt(w.ev)
    <2>1. applied[Origin] \subseteq Row
        BY Zenon DEF IInv, TypeOK
    <2> QED BY <1>6, <1>7, <1>10, <2>1, Zenon DEF Needed, SeenAt
<1> QED
    BY <1>2, <1>3, <1>4, <1>6, <1>10, <1>11, <1>12, Zenon DEF w, p, e, B

(* At most one value is what the rows R leave in table row k. *)
LEMMA LastUnique ==
    ASSUME NEW R \in SUBSET Row, NEW k \in Key, NEW u, NEW v,
           IsLast(u, R, k), IsLast(v, R, k)
    PROVE  u = v
BY DEF IsLast, Row

(* Replaying a batch in the order of log_actionseq leaves the subscriber with
   the tables the origin had at the SYNC, whatever the order of the commits. *)
LEMMA ReplayExact ==
    ASSUME IInv, NEW n \in Receiver, worker[n] # Idle
    PROVE  Apply(tab[n], SelectRows(Provider[n], worker[n].query,
                                    snap[setsync[n]], snap[worker[n].ev]))
                = image[worker[n].ev]
<1> DEFINE f == worker[n].ev
           e == setsync[n]
           B == SelectRows(Provider[n], worker[n].query, snap[e], snap[f])
<1>1. /\ B = Needed(n, f) /\ B \cap applied[n] = {} /\ applied[n] \cup B = SeenAt(f)
      /\ applied[n] = SeenAt(e) /\ B \in SUBSET Row /\ f \in Syncs /\ e \in Syncs
    BY BatchExact, Zenon
<1>2. tab[n] = image[e]
    BY Zenon DEF IInv, ReplicaConsistent
<1>3. image[f] \in [Key -> 0 .. MaxSeq]
    <2>1. image \in Seq([Key -> 0 .. MaxSeq]) /\ Len(image) = Len(snap)
        BY Zenon DEF IInv, TypeOK
    <2> HIDE DEF f
    <2> QED BY <1>1, <2>1 DEF Syncs
<1>4. SeenAt(e) \subseteq AllRows /\ SeenAt(f) \subseteq AllRows /\ SeenAt(f) \in SUBSET Row
    BY ConfigAssumption, RowTypes, Zenon DEF SeenAt, AllRows, IInv
<1> HIDE DEF f, e, B
<1>5. ASSUME NEW k \in Key PROVE Apply(tab[n], B)[k] = image[f][k]
    <2>1. IsLast(image[f][k], SeenAt(f), k) /\ IsLast(image[e][k], SeenAt(e), k)
        BY <1>1, Zenon DEF IInv, ImageInv
    <2>2. IsLast(Apply(tab[n], B)[k], SeenAt(f), k)
        <3>1. CASE \E b \in B : b.key = k
            <4>1. PICK b \in B : /\ b.key = k /\ b.seq = LastAction(B, k)
                                 /\ \A s \in B : s.key = k => s.seq <= b.seq
                BY <1>1, <3>1, LastActionIsLast
            <4>2. Apply(tab[n], B)[k] = b.seq
                BY <3>1, <4>1, Zenon DEF Apply
            <4>3. ASSUME NEW r \in SeenAt(e), r.key = k PROVE r.seq <= b.seq
                <5>1. Visible(r.xid, snap[e]) /\ ~Visible(b.xid, snap[e])
                    BY <1>1, Zenon DEF SeenAt, Needed
                <5>2. b \in AllRows /\ r \in AllRows
                    BY <1>1, <1>4, Zenon
                <5>3. ~(b.seq < r.seq)
                    BY <1>1, <4>1, <4>3, <5>1, <5>2, Zenon DEF IInv, ConflictInv
                <5>4. b.seq \in Int /\ r.seq \in Int
                    BY <1>1, <1>4 DEF Row
                <5> QED BY <5>3, <5>4
            <4> QED BY <1>1, <4>1, <4>2, <4>3, Zenon DEF IsLast
        <3>2. CASE ~ \E b \in B : b.key = k
            <4>1. Apply(tab[n], B)[k] = image[e][k]
                BY <1>2, <3>2, Zenon DEF Apply
            <4> QED BY <1>1, <2>1, <3>2, <4>1, Zenon DEF IsLast
        <3> QED BY <3>1, <3>2, Zenon
    <2> QED BY <1>4, <2>1, <2>2, LastUnique, Zenon
<1>6. Apply(tab[n], B) = [k \in Key |-> Apply(tab[n], B)[k]]
    BY Zenon DEF Apply
<1>7. image[f] = [k \in Key |-> image[f][k]]
    BY <1>3, Zenon
<1> QED BY <1>5, <1>6, <1>7, Zenon DEF f, e, B

(* The commit of a SYNC: the subscriber moves to it, keeps the batch where
   its own subscribers select it, and confirms. *)
LEMMA StepCommitSync ==
    ASSUME IInv, NEW n \in Receiver, SyncCommit(n)
    PROVE  IInv'
<1> USE ConfigAssumption
<1> DEFINE w == worker[n]
           p == Provider[n]
           B == SelectRows(p, w.query, snap[setsync[n]], snap[w.ev])
<1>1. TypeOK'
    BY TypeCommitSync, Zenon DEF IInv
<1>2. n \in Node /\ n # Origin /\ w # Idle
    BY Zenon DEF Receiver, SyncCommit
<1>3. /\ tab' = [tab EXCEPT ![n] = Apply(@, B)]
      /\ applied' = [applied EXCEPT ![n] = @ \cup B]
      /\ log' = IF n \in Forwarder
                THEN [log EXCEPT ![n][w.into] = @ \cup B] ELSE log
      /\ setsync' = [setsync EXCEPT ![n] = w.ev]
      /\ event' = [event EXCEPT ![n] = @ \cup w.group]
      /\ con' = [con EXCEPT ![n][n] = @ \cup w.group]
      /\ worker' = [worker EXCEPT ![n] = Idle]
      /\ UNCHANGED <<nextXid, running, xmax, plan, actSeq, lastAct, snap, image,
                     logStatus>>
    BY Zenon DEF SyncCommit, StoreBatch, AppendEvents, xactVars, syncVars
<1>4. /\ B = Needed(n, w.ev) /\ applied[n] \cup B = SeenAt(w.ev)
      /\ w.ev \in Syncs /\ setsync[n] \in Syncs /\ setsync[n] < w.ev
    BY <1>2, BatchExact, Zenon
<1>5. Apply(tab[n], B) = image[w.ev]
    BY <1>2, ReplayExact, Zenon
<1>6. /\ w.ev \in w.group /\ \A e \in w.group : setsync[n] < e /\ e <= w.ev
      /\ p # Origin => w.ev <= setsync[p]
      /\ w.into \in LogsToQuery(logStatus[n])
    BY <1>2, Zenon DEF IInv, WorkerInv
<1>7. w.group \subseteq Syncs /\ w.into \in LogNo /\ w.query \subseteq LogNo
    BY <1>2, Zenon DEF IInv, TypeOK, Syncs
<1> HIDE DEF w, p, B
<1>8. /\ tab'[n] = image[w.ev] /\ applied'[n] = SeenAt(w.ev)
      /\ applied[n] \subseteq applied'[n]
      /\ setsync'[n] = w.ev /\ event'[n] = event[n] \cup w.group
      /\ con'[n][n] = con[n][n] \cup w.group /\ worker'[n] = Idle
      /\ \A m \in Node \ {n} : /\ tab'[m] = tab[m] /\ applied'[m] = applied[m]
                               /\ event'[m] = event[m] /\ con'[m] = con[m]
                               /\ log'[m] = log[m]
      /\ \A m \in Receiver \ {n} : /\ setsync'[m] = setsync[m]
                                   /\ worker'[m] = worker[m]
                                   /\ con'[n][m] = con[n][m]
    <2>1. /\ tab'[n] = image[w.ev] /\ applied'[n] = SeenAt(w.ev)
          /\ setsync'[n] = w.ev /\ event'[n] = event[n] \cup w.group
          /\ con'[n][n] = con[n][n] \cup w.group /\ worker'[n] = Idle
        BY <1>2, <1>3, <1>4, <1>5, ZenonT(40) DEF IInv, TypeOK
    <2>2. \A m \in Node \ {n} : /\ tab'[m] = tab[m] /\ applied'[m] = applied[m]
                                 /\ event'[m] = event[m] /\ con'[m] = con[m]
                                 /\ log'[m] = log[m]
        BY <1>2, <1>3, ZenonT(40) DEF IInv, TypeOK
    <2>3. \A m \in Receiver \ {n} : /\ setsync'[m] = setsync[m]
                                     /\ worker'[m] = worker[m]
                                     /\ con'[n][m] = con[n][m]
        BY <1>2, <1>3, ZenonT(40) DEF IInv, TypeOK
    <2>4. applied[n] \subseteq applied'[n]
        BY <1>4, <2>1, Zenon
    <2> QED BY <2>1, <2>2, <2>3, <2>4, Zenon
<1>18. ASSUME NEW m \in Receiver
       PROVE  setsync[m] <= setsync'[m] /\ setsync[m] \in Int /\ setsync'[m] \in Int
    <2>1. setsync[m] \in Int
        BY NumberTypes, Zenon DEF IInv
    <2>2. w.ev \in Int
        BY <1>4 DEF Syncs
    <2>3. \/ setsync'[m] = setsync[m]
          \/ setsync[m] < w.ev /\ setsync'[m] = w.ev
        BY <1>4, <1>8, Zenon
    <2> QED BY <2>1, <2>2, <2>3
<1>9. /\ \A i \in LogNo : log[n][i] \subseteq log'[n][i] /\ log'[n][i] \subseteq log[n][i] \cup B
      /\ n \in Forwarder => B \subseteq log'[n][w.into]
    BY <1>2, <1>3, <1>7, Zenon DEF IInv, TypeOK
<1>10. \A i \in LogNo, m \in Node : log[m][i] \subseteq log'[m][i]
    BY <1>8, <1>9, Zenon
<1>11. XactInv' /\ SnapInv' /\ ImageInv'
    BY <1>2, <1>3, <1>8, KeepXact, KeepSnap, KeepImage, Zenon DEF IInv, xactVars
<1>12. ConflictInv'
    <2>1. AllRows' = AllRows
        BY <1>2, <1>8, Zenon DEF AllRows
    <2> QED BY <1>2, <1>3, <1>8, <2>1, KeepConflict, Zenon DEF IInv
<1>13. ReplicaConsistent' /\ AppliedExactly'
    BY <1>2, <1>3, <1>8 DEF IInv, ReplicaConsistent, AppliedExactly, SeenAt, Receiver
<1>14. ConfirmInv'
    <2>1. \A m \in Receiver : setsync[m] <= setsync'[m] /\ setsync[m] \in Int /\ setsync'[m] \in Int
        BY <1>18, Zenon
    <2>2. \A m \in Node, r \in Receiver : \A c \in con'[m][r] :
            c \in con[m][r] \/ (m = n /\ r = n /\ c \in w.group)
        BY <1>8, Zenon
    <2>3. ConfirmSound'
        <3> SUFFICES ASSUME NEW m \in Node, NEW r \in Receiver, NEW c \in con'[m][r]
                     PROVE  c <= setsync'[r]
            BY Zenon DEF ConfirmSound
        <3>1. CASE c \in con[m][r]
            <4>1. c <= setsync[r] /\ c \in Int
                BY <3>1, NumberTypes, Zenon DEF IInv, ConfirmInv, ConfirmSound
            <4> QED BY <2>1, <4>1
        <3>2. CASE r = n /\ c \in w.group
            BY <1>6, <1>8, <3>2, Zenon
        <3> QED BY <2>2, <3>1, <3>2, Zenon
    <2>4. \A m \in Node, r \in Receiver : con'[m][r] # {}
        <3> TAKE m \in Node, r \in Receiver
        <3>1. con[m][r] # {}
            BY Zenon DEF IInv, ConfirmInv
        <3>2. con[m][r] \subseteq con'[m][r]
            BY <1>8, ZenonT(40)
        <3> QED BY <3>1, <3>2, Zenon
    <2>5. \A m \in Receiver : setsync'[m] \in con'[m][m]
        BY <1>6, <1>8, ZenonT(40) DEF IInv, ConfirmInv, Receiver
    <2>6. ASSUME NEW m \in Receiver, NEW e \in event'[m] PROVE e <= setsync'[m]
        <3>1. CASE e \in event[m]
            <4>1. e <= setsync[m] /\ e \in Int
                BY <3>1, NumberTypes, Zenon DEF IInv, ConfirmInv, Receiver
            <4> QED BY <2>1, <4>1
        <3>2. CASE m = n /\ e \in w.group
            BY <1>6, <1>8, <3>2, Zenon
        <3> QED BY <1>8, <3>1, <3>2, Zenon DEF Receiver
    <2>7. ASSUME NEW m \in Node
          PROVE  \E e \in event'[m] : ConfirmedByAll(con'[m], e)
        <3>1. PICK e \in event[m] : ConfirmedByAll(con[m], e)
            BY Zenon DEF IInv, ConfirmInv
        <3>2. e \in event'[m]
            BY <1>8, <3>1, Zenon
        <3>3. CASE m # n
            BY <1>8, <3>1, <3>2, <3>3, Zenon
        <3>4. CASE m = n
            <4>1. e <= setsync[n] /\ e \in Int
                BY <3>1, <3>4, NumberTypes, Zenon DEF IInv, ConfirmInv
            <4>2. \A c \in w.group : e <= c
                BY <1>4, <1>6, <1>7, <4>1 DEF Syncs
            <4>3. ConfirmedByAll(con'[n], e)
                BY <1>8, <3>1, <3>4, <4>2, ZenonT(40) DEF ConfirmedByAll
            <4> QED BY <3>2, <3>4, <4>3, Zenon
        <3> QED BY <3>3, <3>4, Zenon
    <2> QED BY <2>3, <2>4, <2>5, <2>6, <2>7, Zenon DEF ConfirmInv
<1>15. WorkerInv'
    <2>1. \A m \in Receiver : setsync[m] <= setsync'[m] /\ setsync[m] \in Int /\ setsync'[m] \in Int
        BY <1>18, Zenon
    <2>2. NeverAheadOfProvider'
        <3> SUFFICES ASSUME NEW m \in Receiver, Provider[m] # Origin
                     PROVE  setsync'[m] <= setsync'[Provider[m]]
            BY Zenon DEF NeverAheadOfProvider
        <3>1. Provider[m] \in Receiver
            BY ZenonT(40) DEF Receiver
        <3>2. CASE m = n
            <4>1. w.ev <= setsync[p]
                BY <1>6, <3>2, Zenon DEF p
            <4>2. setsync'[m] = w.ev
                BY <1>8, <3>2, Zenon
            <4>3. setsync[p] <= setsync'[p] /\ setsync[p] \in Int /\ setsync'[p] \in Int
                BY <2>1, <3>1, <3>2, Zenon DEF p
            <4>4. setsync'[m] \in Int
                BY <2>1, Zenon
            <4>5. setsync'[m] <= setsync'[p]
                BY <4>1, <4>2, <4>3, <4>4
            <4> QED BY <3>2, <4>5, Zenon DEF p
        <3>3. CASE m # n
            <4>1. setsync[m] <= setsync[Provider[m]]
                BY Zenon DEF IInv, WorkerInv, NeverAheadOfProvider
            <4>2. setsync'[m] = setsync[m]
                BY <1>8, <3>3, Zenon
            <4>3. /\ setsync[Provider[m]] <= setsync'[Provider[m]] /\ setsync[m] \in Int
                  /\ setsync[Provider[m]] \in Int /\ setsync'[Provider[m]] \in Int
                BY <2>1, <3>1, Zenon
            <4> QED BY <4>1, <4>2, <4>3
        <3> QED BY <3>2, <3>3, Zenon
    <2>3. ASSUME NEW m \in Receiver, worker'[m] # Idle
          PROVE  /\ m # n /\ worker'[m] = worker[m] /\ worker[m].ev \in Int
                 /\ Provider[m] # Origin => worker[m].ev <= setsync'[Provider[m]]
        <3>1. m # n /\ worker'[m] = worker[m] /\ worker[m].ev \in Int
            BY <1>8, <2>3, WorkerTypes, Zenon DEF IInv
        <3>2. ASSUME Provider[m] # Origin
              PROVE  worker[m].ev <= setsync'[Provider[m]]
            <4>1. Provider[m] \in Receiver
                BY <3>2, Zenon DEF Receiver
            <4>2. worker[m].ev <= setsync[Provider[m]]
                BY <2>3, <3>1, <3>2, Zenon DEF IInv, WorkerInv
            <4> QED BY <2>1, <3>1, <4>1, <4>2
        <3> QED BY <3>1, <3>2, Zenon
    <2> QED BY <1>3, <1>8, <2>2, <2>3, SMTT(30) DEF IInv, WorkerInv
<1>16. LogInv'
    <2>1. \A m \in Receiver, i \in LogNo : log'[m][i] \subseteq applied'[m]
        <3> TAKE m \in Receiver, i \in LogNo
        <3>1. log[m][i] \subseteq applied[m]
            BY Zenon DEF IInv, LogInv
        <3>2. CASE m = n
            BY <1>4, <1>8, <1>9, <3>1, <3>2
        <3>3. CASE m # n
            BY <1>8, <1>9, <3>1, <3>3, Zenon DEF Receiver
        <3> QED BY <3>2, <3>3, Zenon
    <2>2. ASSUME NEW m \in Receiver,
                 NEW r \in applied'[Provider[m]] \ applied'[m]
          PROVE  \E i \in LogsToQuery(logStatus[Provider[m]]) :
                    r \in log'[Provider[m]][i]
        <3>1. /\ applied[m] \subseteq applied'[m] /\ Provider[m] \in Node
              /\ logStatus[Provider[m]] \in 0 .. 3
            BY <1>8, RowTypes, Zenon DEF IInv, Receiver
        <3>2. CASE r \in applied[Provider[m]]
            <4>1. PICK i \in LogsToQuery(logStatus[Provider[m]]) :
                        r \in log[Provider[m]][i]
                BY <2>2, <3>1, <3>2, Zenon DEF IInv, LogInv
            <4>2. i \in LogNo
                BY <3>1, LogTypes, Zenon
            <4> QED BY <1>10, <3>1, <4>1, <4>2, Zenon
        <3>3. CASE r \notin applied[Provider[m]]
            <4>1. Provider[m] = n /\ r \in B
                BY <1>4, <1>8, <2>2, <3>1, <3>3
            <4>2. n \in Forwarder
                BY <1>2, <4>1, Zenon
            <4> QED BY <1>6, <1>9, <4>1, <4>2, Zenon
        <3> QED BY <3>2, <3>3, Zenon
    <2> QED BY <1>3, <2>1, <2>2, Zenon DEF LogInv
<1>17. QueriedLogsSuffice'
    <2> SUFFICES ASSUME NEW m \in Receiver, worker'[m] # Idle,
                        NEW r \in Needed(m, worker[m].ev)'
                 PROVE  \E i \in worker'[m].query : r \in log'[Provider[m]][i]
        BY Zenon DEF QueriedLogsSuffice
    <2>1. m # n /\ worker'[m] = worker[m] /\ m \in Node
        BY <1>8, Zenon DEF Receiver
    <2>2. r \in Needed(m, worker[m].ev)
        BY <1>2, <1>3, <1>8, <2>1, Zenon DEF Needed
    <2>3. PICK i \in worker[m].query : r \in log[Provider[m]][i]
        BY <2>1, <2>2 DEF IInv, QueriedLogsSuffice
    <2>4. i \in LogNo
        BY <2>1, <2>3, WorkerTypes, Zenon DEF IInv
    <2> QED BY <1>10, <2>1, <2>3, <2>4, Zenon
<1> QED
    BY <1>1, <1>11, <1>12, <1>13, <1>14, <1>15, <1>16, <1>17, Zenon DEF IInv

-----------------------------------------------------------------------------
(* Confirmations.                                                          *)

(* forwardConfirm(): a newer confirmation, true where it was read, is true
   here, and no SYNC loses its cover by it. *)
LEMMA StepForward ==
    ASSUME IInv, NEW n \in Node, NEW q \in Node, NEW r \in Receiver,
           NEW c \in con[q][r], ForwardConfirm(n, q, r, c)
    PROVE  IInv'
<1>1. TypeOK'
    BY TypeForward, Zenon DEF IInv
<1>2. /\ \A d \in con[n][r] : d < c
      /\ con'[n][r] = con[n][r] \cup {c}
      /\ \A m \in Node, s \in Receiver : (m # n \/ s # r) => con'[m][s] = con[m][s]
      /\ UNCHANGED <<nextXid, running, xmax, plan, actSeq, lastAct, snap, image,
                     log, logStatus, event, setsync, worker, applied, tab>>
    BY Zenon DEF ForwardConfirm, IInv, TypeOK, xactVars, syncVars, logVars, dataVars
<1>3. ConfirmInv'
    <2>1. c <= setsync[r]
        BY Zenon DEF IInv, ConfirmInv, ConfirmSound
    <2>2. ConfirmSound'
        BY <1>2, <2>1 DEF IInv, ConfirmInv, ConfirmSound
    <2>3. \A m \in Node, s \in Receiver : con[m][s] \subseteq con'[m][s]
        BY <1>2, Zenon
    <2>4. \A m \in Node, s \in Receiver : con'[m][s] # {}
        BY <2>3, Zenon DEF IInv, ConfirmInv
    <2>5. \A m \in Receiver : setsync[m] \in con'[m][m]
        BY <2>3, Zenon DEF IInv, ConfirmInv, Receiver
    <2>6. ASSUME NEW m \in Node
          PROVE  \E e \in event[m] : ConfirmedByAll(con'[m], e)
        <3>1. PICK e \in event[m] : ConfirmedByAll(con[m], e)
            BY Zenon DEF IInv, ConfirmInv
        <3>2. PICK d \in con[n][r] : TRUE
            BY Zenon DEF IInv, ConfirmInv
        <3>3. m = n => e <= c
            <4>1. d \in Int /\ c \in Int /\ e \in Int /\ d < c
                BY <1>2, <3>1, <3>2, NumberTypes, Zenon DEF IInv
            <4>2. m = n => e <= d
                BY <3>1, <3>2, Zenon DEF ConfirmedByAll
            <4> QED BY <4>1, <4>2
        <3> QED BY <1>2, <3>1, <3>3 DEF ConfirmedByAll
    <2> QED BY <1>2, <2>2, <2>4, <2>5, <2>6, Zenon DEF IInv, ConfirmInv
<1>4. /\ XactInv' /\ SnapInv' /\ ImageInv' /\ WorkerInv' /\ AppliedExactly'
      /\ ReplicaConsistent'
    BY Zenon, <1>2, KeepXact, KeepSnap, KeepImage, KeepWorker, KeepApplied,
       KeepReplica DEF IInv, xactVars
<1>5. ConflictInv' /\ LogInv' /\ QueriedLogsSuffice'
    BY <1>2, KeepRows, Zenon DEF IInv
<1> QED
    BY <1>1, <1>3, <1>4, <1>5, Zenon DEF IInv

-----------------------------------------------------------------------------
(* The cleanup thread.                                                     *)

(* Purging keeps a confirmation of every receiver, its newest, and a SYNC
   that all confirmations cover. *)
LEMMA KeptFacts ==
    ASSUME IInv, NEW n \in Node, NEW cut \in Cut(n)
    PROVE  LET C == KeptConfirms(n, cut)
               E == KeptEvents(event[n], C)
           IN  /\ \A r \in Receiver : C[r] \subseteq con[n][r] /\ C[r] # {}
               /\ \A r \in Receiver : \A c \in con[n][r] : \E d \in C[r] : c <= d
               /\ n \in Receiver => setsync[n] \in C[n]
               /\ E \subseteq event[n]
               /\ \E e \in E : ConfirmedByAll(C, e)
<1> DEFINE C == KeptConfirms(n, cut)
           E == KeptEvents(event[n], C)
           T == {e \in event[n] : ConfirmedByAll(C, e)}
<1>1. \A r \in Receiver : /\ con[n][r] \in SUBSET (1 .. Len(snap))
                          /\ C[r] = {c \in con[n][r] : c >= cut[r]}
                          /\ cut[r] \in con[n][r] \cup {0}
    <2> TAKE r \in Receiver
    <2>1. con[n][r] \in SUBSET (1 .. Len(snap))
        <3>1. con \in [Node -> [Receiver -> SUBSET (1 .. Len(snap))]]
            BY Zenon DEF IInv, TypeOK
        <3> QED BY <3>1
    <2>2. C[r] = {c \in con[n][r] : c >= cut[r]}
        BY Zenon DEF KeptConfirms
    <2>3. cut[r] \in con[n][r] \cup {0}
        BY Zenon DEF Cut
    <2> QED BY <2>1, <2>2, <2>3, Zenon
<1>2. Len(snap) \in Nat /\ event[n] \in SUBSET (1 .. Len(snap))
    BY DEF IInv, TypeOK
<1> HIDE DEF C
<1>3. \A r \in Receiver : C[r] \subseteq con[n][r]
    BY <1>1, Zenon
<1>4. ASSUME NEW r \in Receiver, NEW c \in con[n][r]
      PROVE  \E d \in C[r] : c <= d
    <2>1. CASE c >= cut[r]
        BY <1>1, <1>2, <2>1
    <2>2. CASE ~(c >= cut[r])
        BY <1>1, <1>2, <2>2
    <2> QED BY <2>1, <2>2, Zenon
<1>5. \A r \in Receiver : C[r] # {}
    BY <1>4, Zenon DEF IInv, ConfirmInv
<1>6. n \in Receiver => setsync[n] \in C[n]
    <2> SUFFICES ASSUME n \in Receiver PROVE setsync[n] \in C[n]
        BY Zenon
    <2>1. setsync[n] \in con[n][n] /\ \A c \in con[n][n] : c <= setsync[n]
        BY Zenon DEF IInv, ConfirmInv, ConfirmSound
    <2> QED BY <1>1, <1>2, <2>1
<1>7. \E e \in E : ConfirmedByAll(C, e)
    <2>1. PICK e \in event[n] : ConfirmedByAll(con[n], e)
        BY Zenon DEF IInv, ConfirmInv
    <2>2. ConfirmedByAll(C, e)
        BY <1>3, <2>1, Zenon DEF ConfirmedByAll
    <2>3. T \in SUBSET (0 .. Len(snap)) /\ T # {}
        BY <1>2, <2>1, <2>2
    <2>4. PICK m \in T : \A t \in T : t <= m
        BY <1>2, <2>3, GreatestExists, Zenon
    <2>5. m \in event[n] /\ m \in Int /\ \A t \in event[n] : t \in Int
        BY <1>2, <2>4
    <2> QED BY <2>4, <2>5 DEF KeptEvents
<1>8. E \subseteq event[n]
    BY Zenon DEF KeptEvents
<1> QED BY <1>3, <1>4, <1>5, <1>6, <1>7, <1>8, ZenonT(40) DEF C, E

(* When logswitch_finish() may truncate the old log, every subscriber of the
   node has applied what is in it. *)
LEMMA PurgedRowsApplied ==
    ASSUME IInv, NEW n \in Node, NEW cut \in Cut(n),
           CanFinish(n, KeptEvents(event[n], KeptConfirms(n, cut))),
           NEW m \in Receiver, NEW r \in log[n][OldLog(logStatus[n])],
           r \in applied[Origin]
    PROVE  r \in applied[m]
<1> DEFINE C == KeptConfirms(n, cut)
           E == KeptEvents(event[n], C)
<1>1. /\ C[m] \subseteq con[n][m] /\ C[m] # {} /\ E \subseteq event[n]
      /\ \E e \in E : ConfirmedByAll(C, e)
    BY KeptFacts, Zenon
<1>2. Len(snap) \in Nat /\ event[n] \subseteq 1 .. Len(snap)
    BY DEF IInv, TypeOK
<1>3. Purgeable(n, OldLog(logStatus[n]), E)
    BY Zenon DEF CanFinish
<1> HIDE DEF C, E
<1>4. PICK e1 \in E : ConfirmedByAll(C, e1)
    BY <1>1, Zenon
<1>5. E \in SUBSET Nat /\ E # {}
    BY <1>1, <1>2
<1>6. PICK e0 \in E : \A f \in E : e0 <= f
    BY <1>5, LeastExists, Zenon
<1>7. PICK c \in C[m] : TRUE
    BY <1>1, Zenon
<1>8. e1 <= c /\ c <= setsync[m] /\ e0 <= e1
    BY <1>1, <1>4, <1>6, <1>7, Zenon DEF ConfirmedByAll, IInv, ConfirmInv, ConfirmSound
<1>9. e0 \in Syncs /\ setsync[m] \in Syncs /\ e0 <= setsync[m]
    <2>1. e0 \in 1 .. Len(snap) /\ e1 \in 1 .. Len(snap)
        BY <1>1, <1>2, <1>4, <1>6, Zenon
    <2>2. c \in 1 .. Len(snap) /\ setsync[m] \in 1 .. Len(snap)
        BY <1>1, <1>7, NumberTypes, ZenonT(40) DEF IInv
    <2> QED BY <1>2, <1>8, <2>1, <2>2 DEF Syncs
<1>10. r.xid \in Xid
    BY ConfigAssumption DEF IInv, TypeOK, Row
<1>11. ~FromXmin(r.xid, snap[e0])
    BY <1>3, <1>6, Zenon DEF Purgeable
<1>12. Visible(r.xid, snap[e0])
    <2>1. snap[e0].xmax \in Int /\ snap[e0].xip \subseteq Xid /\ r.xid \in Int
        BY <1>9, <1>10, SnapType, BoundAssumption DEF IInv, Xid
    <2> QED BY <1>11, <2>1 DEF FromXmin, Visible
<1>13. Visible(r.xid, snap[setsync[m]])
    BY <1>9, <1>10, <1>12, Zenon DEF IInv, SnapInv
<1> QED BY <1>13, Zenon DEF IInv, AppliedExactly

(* A change of sl_log_status, with or without the truncation that belongs to
   it, hides or removes only rows that all subscribers of the node have, and
   strands no writer. *)
LEMMA StepSwitch ==
    ASSUME IInv, Timely, NEW n \in Node, NEW cut \in Cut(n),
           LET Ready == CanFinish(n, KeptEvents(event[n], KeptConfirms(n, cut)))
           IN  /\ \/ /\ logStatus[n] \in {0, 1}
                     /\ logStatus' = [logStatus EXCEPT ![n] = StartedStatus(@)]
                  \/ /\ Ready
                     /\ logStatus' = [logStatus EXCEPT ![n] = FinishedStatus(@)]
                  \/ logStatus' = logStatus
               /\ \/ log' = log
                  \/ /\ Ready
                     /\ log' = [log EXCEPT ![n][OldLog(logStatus[n])] = {}],
           UNCHANGED <<nextXid, running, xmax, plan, actSeq, snap, setsync,
                       worker, applied>>
    PROVE  XactInv' /\ ConflictInv' /\ WorkerInv' /\ LogInv' /\ QueriedLogsSuffice'
<1> USE ConfigAssumption
<1> DEFINE Ready == CanFinish(n, KeptEvents(event[n], KeptConfirms(n, cut)))
           old == OldLog(logStatus[n])
<1>1. \A m \in Node : logStatus[m] \in 0 .. 3
    BY Zenon DEF IInv, TypeOK
<1>2. old \in LogNo
    BY <1>1, LogTypes, Zenon
<1>3. Ready => logStatus[n] \in {2, 3}
    BY ZenonT(40) DEF CanFinish
<1>4. ASSUME NEW m \in Node, NEW i \in LogsToQuery(logStatus[m])
      PROVE  \/ i \in LogsToQuery(logStatus'[m])
             \/ m = n /\ Ready /\ i = old /\ logStatus'[n] \in {0, 1}
    <2>1. CASE m # n
        BY <2>1, Zenon DEF IInv, TypeOK
    <2>2. CASE m = n /\ logStatus[n] \in {0, 1} /\ logStatus'[n] = StartedStatus(logStatus[n])
        BY <2>2 DEF StartedStatus, LogsToQuery
    <2>3. CASE m = n /\ Ready /\ logStatus'[n] = FinishedStatus(logStatus[n])
        <3>1. logStatus[n] = 2 \/ logStatus[n] = 3
            BY <1>3, <2>3, Zenon
        <3> QED BY <2>3, <3>1, Zenon DEF FinishedStatus, LogsToQuery, OldLog, LogNo
    <2>4. CASE logStatus'[n] = logStatus[n]
        BY <2>1, <2>4, Zenon
    <2>5. \/ logStatus[n] \in {0, 1} /\ logStatus'[n] = StartedStatus(logStatus[n])
          \/ Ready /\ logStatus'[n] = FinishedStatus(logStatus[n])
          \/ logStatus'[n] = logStatus[n]
        BY Zenon DEF IInv, TypeOK
    <2> QED BY <2>1, <2>2, <2>3, <2>4, <2>5, Zenon
<1>5. \A m \in Node, i \in LogNo :
        /\ log'[m][i] \subseteq log[m][i]
        /\ \A r \in log[m][i] :
            r \in log'[m][i] \/ (m = n /\ Ready /\ i = old)
    <2>1. log \in [Node -> [LogNo -> SUBSET Row]]
        BY Zenon DEF IInv, TypeOK
    <2>2. CASE log' = log
        BY <2>2, Zenon
    <2>3. CASE Ready /\ log' = [log EXCEPT ![n][old] = {}]
        <3> HIDE DEF Ready, old
        <3> QED BY <1>2, <2>1, <2>3
    <2> QED BY <2>2, <2>3, Zenon
<1>6. \A m \in Receiver : \A r \in log[n][old] :
        Ready /\ r \in applied[Origin] => r \in applied[m]
    BY PurgedRowsApplied, Zenon
<1>7. Ready => LockFree(n, old)
    BY Zenon DEF CanFinish
<1>8. Ready /\ logStatus'[n] \in {0, 1} => ~UnlockedChoice(n, old)
    BY <1>3, Zenon DEF Timely
<1> HIDE DEF Ready, old
<1>9. XactInv'
    <2>1. ASSUME NEW x \in running
          PROVE  plan[x] \in LogsToQuery(logStatus'[Origin])
        <3>1. plan[x] \in LogsToQuery(logStatus[Origin])
            BY Zenon DEF IInv, XactInv
        <3>2. ASSUME Origin = n, Ready, plan[x] = old, logStatus'[n] \in {0, 1}
              PROVE  FALSE
            <4>1. RowsOf(x) # {}
                BY <1>8, <3>2, Zenon DEF UnlockedChoice
            <4>2. PICK i \in LogNo : \E r \in log[Origin][i] : r.xid = x
                BY <4>1, Zenon DEF RowsOf, LogNo
            <4>3. PICK r \in log[Origin][i] : r.xid = x
                BY <4>2, Zenon
            <4>4. i = old
                BY <3>2, <4>2, <4>3, Zenon DEF IInv, XactInv
            <4> QED BY <1>7, <3>2, <4>3, <4>4, Zenon DEF LockFree
        <3> QED BY <1>4, <3>1, <3>2, Zenon
    <2>2. \A i \in LogNo : log'[Origin][i] \subseteq log[Origin][i]
        BY <1>5, Zenon
    <2> QED BY <2>1, <2>2, Zenon DEF IInv, XactInv
<1>10. ConflictInv'
    <2>1. AllRows' \subseteq AllRows
        BY <1>5, Zenon DEF AllRows, LogNo
    <2> QED BY <2>1, KeepConflict, Zenon DEF IInv
<1>11. WorkerInv'
    <2>1. ASSUME NEW m \in Receiver, worker[m] # Idle
          PROVE  worker[m].into \in LogsToQuery(logStatus'[m])
        <3>1. worker[m].into \in LogsToQuery(logStatus[m]) /\ m \in Node
            BY <2>1, Zenon DEF IInv, WorkerInv, Receiver
        <3>2. ~(m = n /\ Ready /\ worker[m].into = old /\ logStatus'[n] \in {0, 1})
            BY <1>8, <2>1, Zenon DEF UnlockedChoice
        <3> QED BY <1>4, <3>1, <3>2, Zenon
    <2> QED BY <2>1, Zenon DEF IInv, WorkerInv, NeverAheadOfProvider
<1>12. LogInv'
    <2>1. \A m \in Receiver, i \in LogNo : log'[m][i] \subseteq applied[m]
        BY <1>5, Zenon DEF IInv, LogInv, Receiver
    <2>2. ASSUME NEW m \in Receiver, NEW r \in applied[Provider[m]] \ applied[m]
          PROVE  \E i \in LogsToQuery(logStatus'[Provider[m]]) :
                    r \in log'[Provider[m]][i]
        <3>1. Provider[m] \in Node
            BY Zenon
        <3>2. PICK i \in LogsToQuery(logStatus[Provider[m]]) :
                    r \in log[Provider[m]][i]
            BY <2>2, Zenon DEF IInv, LogInv
        <3>3. i \in LogNo
            BY <1>1, <3>1, LogTypes, Zenon
        <3>4. r \in applied[Origin]
            BY <2>2, <3>1, AppliedCommitted, Zenon DEF IInv
        <3>5. ~(Provider[m] = n /\ Ready /\ i = old)
            BY <1>6, <2>2, <3>2, <3>4, Zenon
        <3> QED BY <1>4, <1>5, <3>1, <3>2, <3>3, <3>5, Zenon
    <2> QED BY <2>1, <2>2, Zenon DEF LogInv
<1>13. QueriedLogsSuffice'
    <2> SUFFICES ASSUME NEW m \in Receiver, worker[m] # Idle,
                        NEW r \in Needed(m, worker[m].ev)
                 PROVE  \E i \in worker[m].query : r \in log'[Provider[m]][i]
        BY DEF QueriedLogsSuffice, Needed
    <2>1. PICK i \in worker[m].query : r \in log[Provider[m]][i]
        BY DEF IInv, QueriedLogsSuffice
    <2>2. i \in LogNo /\ Provider[m] \in Node
        BY <2>1, Zenon DEF IInv, TypeOK
    <2>3. r \in applied[Origin] /\ r \notin applied[m]
        BY Zenon DEF Needed
    <2>4. ~(Provider[m] = n /\ Ready /\ i = old)
        BY <1>6, <2>1, <2>3, Zenon
    <2> QED BY <1>5, <2>1, <2>2, <2>4, Zenon
<1> QED BY <1>9, <1>10, <1>11, <1>12, <1>13, Zenon

(* cleanupEvent() and the log switch in one transaction. *)
LEMMA StepCleanup ==
    ASSUME IInv, Timely, NEW n \in Node, NEW cut \in Cut(n), CleanupEvent(n, cut)
    PROVE  IInv'
<1> DEFINE C == KeptConfirms(n, cut)
           E == KeptEvents(event[n], C)
<1>1. TypeOK'
    BY TypeCleanup, Zenon DEF IInv
<1>2. /\ con' = [con EXCEPT ![n] = C]
      /\ event' = [event EXCEPT ![n] = E]
      /\ LogswitchStart(n) \/ LogswitchFinish(n, E) \/ LogswitchBlocked(n)
      /\ UNCHANGED <<nextXid, running, xmax, plan, actSeq, lastAct, snap, image,
                     setsync, worker, applied, tab>>
    BY Zenon DEF CleanupEvent, xactVars, syncVars, dataVars
<1>3. /\ con'[n] = C /\ \A m \in Node \ {n} : con'[m] = con[m]
      /\ event'[n] = E /\ \A m \in Node \ {n} : event'[m] = event[m]
    BY <1>2, Zenon DEF IInv, TypeOK
<1>4. /\ \A r \in Receiver : C[r] \subseteq con[n][r] /\ C[r] # {}
      /\ n \in Receiver => setsync[n] \in C[n]
      /\ E \subseteq event[n]
      /\ \E e \in E : ConfirmedByAll(C, e)
    BY KeptFacts, Zenon
<1>5. XactInv' /\ ConflictInv' /\ WorkerInv' /\ LogInv' /\ QueriedLogsSuffice'
    BY <1>2, StepSwitch, Zenon DEF LogswitchStart, LogswitchFinish, LogswitchBlocked, logVars
<1> HIDE DEF C, E
<1>6. ConfirmInv'
    <2>1. \A m \in Node, r \in Receiver :
                con'[m][r] \subseteq con[m][r] /\ con'[m][r] # {}
        BY <1>3, <1>4, Zenon DEF IInv, ConfirmInv
    <2>2. \A m \in Node : event'[m] \subseteq event[m]
        BY <1>3, <1>4, Zenon
    <2>3. \A m \in Receiver : setsync[m] \in con'[m][m]
        BY <1>3, <1>4, Zenon DEF IInv, ConfirmInv, Receiver
    <2>4. \A m \in Node : \E e \in event'[m] : ConfirmedByAll(con'[m], e)
        BY <1>3, <1>4, Zenon DEF IInv, ConfirmInv
    <2> QED
        BY <1>2, <2>1, <2>2, <2>3, <2>4, Zenon
           DEF IInv, ConfirmInv, ConfirmSound, Receiver
<1>7. SnapInv' /\ ImageInv' /\ AppliedExactly' /\ ReplicaConsistent'
    BY <1>2, KeepSnap, KeepImage, KeepApplied, KeepReplica, Zenon DEF IInv
<1> QED
    BY <1>1, <1>5, <1>6, <1>7, Zenon DEF IInv

(* A failure after setval(): the status has changed, the rows are still
   there. *)
LEMMA StepCrash ==
    ASSUME IInv, Timely, NEW n \in Node, NEW cut \in Cut(n), CleanupCrash(n, cut)
    PROVE  IInv'
<1>1. TypeOK'
    BY TypeCrash, Zenon DEF IInv
<1>2. UNCHANGED <<nextXid, running, xmax, plan, actSeq, lastAct, snap, image, log,
                  event, con, setsync, worker, applied, tab>>
    BY Zenon DEF CleanupCrash, xactVars, syncVars, dataVars
<1>3. XactInv' /\ ConflictInv' /\ WorkerInv' /\ LogInv' /\ QueriedLogsSuffice'
    BY <1>2, StepSwitch, Zenon DEF CleanupCrash
<1>4. /\ SnapInv' /\ ImageInv' /\ ConfirmInv' /\ AppliedExactly'
      /\ ReplicaConsistent'
    BY <1>2, KeepSnap, KeepImage, KeepConfirm, KeepApplied, KeepReplica, Zenon DEF IInv
<1> QED
    BY <1>1, <1>3, <1>4, Zenon DEF IInv

-----------------------------------------------------------------------------
(* The sync thread.                                                        *)

(* createEvent('SYNC'): the new snapshot shows exactly what is committed. *)
LEMMA StepSync ==
    ASSUME IInv, CreateSync
    PROVE  IInv'
<1> USE ConfigAssumption
<1> DEFINE N == Len(snap)
<1>1. TypeOK'
    BY TypeSync, ZenonT(40) DEF IInv
<1>2. N \in Nat /\ Len(image) = N
    BY DEF IInv, TypeOK
<1>3. /\ Len(snap') = N + 1 /\ snap'[N + 1] = Snapshot
      /\ \A e \in Syncs : snap'[e] = snap[e]
    <2>1. Snapshot \in Snap
        BY BoundAssumption, Zenon DEF IInv, TypeOK, Snapshot, Snap, Xid
    <2>2. snap \in Seq(Snap) /\ snap' = Append(snap, Snapshot)
        BY ZenonT(40) DEF IInv, TypeOK, Snap, CreateSync
    <2> QED BY <2>1, <2>2, AppendFacts DEF Syncs
<1>4. /\ image'[N + 1] = tab[Origin]
      /\ \A e \in Syncs : image'[e] = image[e]
    <2>1. /\ image \in Seq([Key -> 0 .. MaxSeq]) /\ tab[Origin] \in [Key -> 0 .. MaxSeq]
          /\ image' = Append(image, tab[Origin])
        BY Zenon DEF IInv, TypeOK, CreateSync
    <2> QED BY <1>2, <2>1, AppendFacts DEF Syncs
<1>5. /\ event' = [event EXCEPT ![Origin] = @ \cup {N + 1}]
      /\ UNCHANGED <<nextXid, running, xmax, plan, actSeq, log, logStatus, con,
                     setsync, worker, applied, tab>>
    BY Zenon DEF CreateSync, xactVars, logVars, dataVars
<1>6. Syncs' = Syncs \cup {N + 1} /\ N + 1 \notin Syncs
    BY <1>2, <1>3 DEF Syncs
<1>7. \A x \in Xid : Visible(x, Snapshot) <=> (x < xmax /\ x \notin running)
    BY Zenon DEF Visible, Snapshot
<1>8. \A e \in Syncs : e < N + 1 /\ e \in Int
    BY <1>2 DEF Syncs
<1>9. /\ \A n \in Receiver : setsync[n] \in Syncs
      /\ \A n \in Receiver : worker[n] # Idle => worker[n].ev \in Syncs
    BY Zenon DEF IInv, TypeOK, Syncs
<1> HIDE DEF N
<1>10. SnapInv'
    <2>1. Snapshot.xmax = xmax /\ Snapshot.xip = {x \in running : x < xmax}
        BY Zenon DEF Snapshot
    <2>2. \A e \in Syncs' : /\ snap'[e].xmax <= xmax
                            /\ \A x \in snap'[e].xip : x < snap'[e].xmax
        BY <1>3, <1>6, <2>1, NumberTypes DEF IInv, SnapInv
    <2>3. \A e \in Syncs', x \in Xid : Visible(x, snap'[e]) => x \notin running
        BY <1>3, <1>6, <1>7, Zenon DEF IInv, SnapInv
    <2>4. ASSUME NEW e \in Syncs', NEW f \in Syncs', e <= f
          PROVE  /\ snap'[e].xmax <= snap'[f].xmax
                 /\ \A x \in Xid : Visible(x, snap'[e]) => Visible(x, snap'[f])
        <3>1. CASE e \in Syncs /\ f \in Syncs
            BY <1>3, <2>4, <3>1, Zenon DEF IInv, SnapInv
        <3>2. CASE e \in Syncs /\ f = N + 1
            <4>1. snap[e].xmax \in Int /\ xmax \in Int /\ snap[e].xmax <= xmax
                <5>1. TypeOK /\ snap[e].xmax <= xmax
                    BY <3>2, Zenon DEF IInv, SnapInv
                <5>2. snap[e].xmax \in 1 .. MaxXid + 1
                    BY <3>2, <5>1, SnapType, Zenon
                <5>3. xmax \in Int
                    BY <5>1, NumberTypes, Zenon
                <5> QED BY <5>1, <5>2, <5>3
            <4>2. \A x \in Xid : Visible(x, snap[e]) => x < xmax /\ x \notin running
                <5> SUFFICES ASSUME NEW x \in Xid, Visible(x, snap[e])
                             PROVE  x < xmax /\ x \notin running
                    BY Zenon
                <5>1. x \notin running
                    BY <3>2, Zenon DEF IInv, SnapInv
                <5>2. x < snap[e].xmax /\ x \in Int
                    BY DEF Visible, Xid
                <5> QED BY <4>1, <5>1, <5>2
            <4> QED BY <1>3, <1>7, <2>1, <3>2, <4>1, <4>2, Zenon
        <3>3. CASE e = N + 1 /\ f = N + 1
            BY <3>3, <1>3, <2>1, NumberTypes DEF IInv
        <3> QED BY <1>2, <1>6, <1>8, <2>4, <3>1, <3>2, <3>3, SMTT(30)
    <2> QED BY <1>5, <2>2, <2>3, <2>4, Zenon DEF SnapInv
<1>11. ConflictInv'
    <2>1. AllRows' = AllRows /\ \A r \in AllRows : r.xid \in Xid
        BY <1>5, RowTypes, Zenon DEF AllRows, IInv, LogNo
    <2>2. \A r \in applied[Origin] : Visible(r.xid, Snapshot)
        BY <1>7, <2>1, Zenon DEF AllRows, IInv, XactInv
    <2> SUFFICES ASSUME NEW r \in AllRows, NEW s \in AllRows
                 PROVE  /\ r.seq = s.seq => r = s
                        /\ (r.key = s.key /\ r.xid # s.xid /\ r.seq < s.seq) =>
                            /\ r \in applied[Origin]
                            /\ \A e \in Syncs' :
                                Visible(s.xid, snap'[e]) => Visible(r.xid, snap'[e])
        BY <1>5, <2>1, Zenon DEF ConflictInv
    <2>3. r.seq = s.seq => r = s
        BY Zenon DEF IInv, ConflictInv
    <2>4. ASSUME r.key = s.key, r.xid # s.xid, r.seq < s.seq
          PROVE  /\ r \in applied[Origin]
                 /\ \A e \in Syncs : Visible(s.xid, snap[e]) => Visible(r.xid, snap[e])
        BY <2>4, Zenon DEF IInv, ConflictInv
    <2> QED BY <1>3, <1>6, <2>2, <2>3, <2>4, Zenon
<1>12. ImageInv'
    <2>1. \A e \in Syncs : SeenAt(e)' = SeenAt(e)
        BY <1>3, <1>5, Zenon DEF SeenAt
    <2>2. ASSUME NEW e \in {N + 1} PROVE SeenAt(e)' = applied[Origin]
        <3>1. \A r \in applied[Origin] : Visible(r.xid, Snapshot)
            BY <1>7, RowTypes, Zenon DEF IInv, XactInv
        <3> QED BY <1>3, <1>5, <3>1, Zenon DEF SeenAt
    <2> SUFFICES ASSUME NEW k \in Key, NEW e \in Syncs'
                 PROVE  /\ IsLast(tab'[Origin][k], applied'[Origin], k)
                        /\ IsLast(image'[e][k], SeenAt(e)', k)
        <3>1. 1 \in Syncs'
            BY <1>2, <1>6 DEF Syncs
        <3> QED BY <3>1, Zenon DEF ImageInv
    <2>3. CASE e \in Syncs
        BY <1>4, <1>5, <2>1, <2>3, Zenon DEF IInv, ImageInv
    <2>4. CASE e = N + 1
        BY <1>4, <1>5, <2>2, <2>4, Zenon DEF IInv, ImageInv
    <2> QED BY <1>6, <2>3, <2>4, Zenon
<1>13. ConfirmInv'
    <2>1. /\ \A n \in Node : event[n] \subseteq event'[n]
          /\ \A n \in Receiver : event'[n] = event[n]
        BY <1>5, Zenon DEF IInv, TypeOK, Receiver
    <2> QED BY <1>5, <2>1, Zenon DEF IInv, ConfirmInv, ConfirmSound
<1>14. AppliedExactly' /\ ReplicaConsistent'
    BY <1>3, <1>4, <1>5, <1>9, Zenon DEF IInv, AppliedExactly, ReplicaConsistent
<1>15. QueriedLogsSuffice'
    BY <1>3, <1>5, <1>9 DEF IInv, QueriedLogsSuffice, Needed
<1>16. XactInv' /\ WorkerInv' /\ LogInv'
    BY <1>5, KeepXact, KeepWorker, Zenon DEF IInv, LogInv, xactVars
<1> QED
    BY <1>1, <1>10, <1>11, <1>12, <1>13, <1>14, <1>15, <1>16, Zenon DEF IInv

-----------------------------------------------------------------------------
(* Taking on a SYNC, and giving up.                                        *)

(* A SYNC that a worker takes on is ahead of it and not ahead of its data
   provider, so the provider's logs hold what it needs. *)
LEMMA StepBegin ==
    ASSUME IInv, NEW n \in Receiver, NEW q \in Node, NEW e \in event[q],
           SyncBegin(n, q, e)
    PROVE  IInv'
<1> USE ConfigAssumption
<1> DEFINE p == Provider[n]
           w == worker'[n]
<1>1. TypeOK'
    BY TypeBegin, Zenon DEF IInv
<1>2. UNCHANGED <<nextXid, running, xmax, plan, actSeq, lastAct, snap, image,
                  log, logStatus, event, con, setsync, applied, tab>>
    BY Zenon DEF SyncBegin, xactVars, syncVars, logVars, dataVars
<1>3. /\ w = [ev |-> e,
              group |-> {f \in event[q] : Unconfirmed(n, f) /\ f <= e},
              query |-> LogsToQuery(logStatus[p]),
              into |-> ActiveLog(logStatus[n])]
      /\ \A m \in Receiver \ {n} : worker'[m] = worker[m]
    BY Zenon DEF SyncBegin, IInv, TypeOK
<1> HIDE DEF w
<1>4. p \in Node /\ n \in Node /\ logStatus[p] \in 0 .. 3 /\ logStatus[n] \in 0 .. 3
    BY ZenonT(40) DEF IInv, TypeOK, Receiver
<1>5. e \in Syncs /\ e \in Int /\ Unconfirmed(n, e)
    <2>1. q \in Node /\ e \in event[q] /\ Unconfirmed(n, e)
        BY <1>4, Zenon DEF SyncBegin
    <2>2. e \in 1 .. Len(snap) /\ e \in Int
        BY <2>1, NumberTypes, Zenon DEF IInv
    <2> QED BY <2>1, <2>2, Zenon DEF Syncs
<1>6. \A f : Unconfirmed(n, f) => setsync[n] < f
    BY Zenon DEF Unconfirmed, IInv, ConfirmInv
<1>7. p # Origin => e <= setsync[p] /\ setsync[p] \in Syncs
    <2> SUFFICES ASSUME p # Origin PROVE e <= setsync[p] /\ setsync[p] \in Syncs
        BY Zenon
    <2>1. p \in Receiver /\ setsync[p] \in Syncs /\ setsync[p] \in Int
        BY <1>4, NumberTypes, Zenon DEF Receiver, IInv, Syncs
    <2>2. CASE p = q
        BY <2>1, <2>2, ZenonT(40) DEF IInv, ConfirmInv
    <2>3. CASE p # q
        <3>1. PICK m \in Listen[n] \cup {n} : \E c \in con[m][p] : c >= e
            BY <2>3, Zenon DEF SyncBegin, ProviderReady
        <3>2. m \in Node
            BY <1>4, <3>1, Zenon
        <3>3. PICK c \in con[m][p] : c >= e
            BY <3>1, ZenonT(40)
        <3>4. c <= setsync[p] /\ c \in Int
            BY <2>1, <3>2, <3>3, NumberTypes, Zenon DEF IInv, ConfirmInv, ConfirmSound
        <3> QED BY <1>5, <2>1, <3>3, <3>4
    <2> QED BY <2>2, <2>3, Zenon
<1>8. WorkerInv'
    <2>1. /\ w.ev > setsync[n] /\ w.ev \in w.group
          /\ \A f \in w.group : setsync[n] < f /\ f <= w.ev
        <3>1. w.ev = e /\ w.group = {f \in event[q] : Unconfirmed(n, f) /\ f <= e}
            BY <1>3, Zenon
        <3>2. setsync[n] \in Int
            BY DEF IInv, TypeOK
        <3> QED BY <1>5, <1>6, <3>1, <3>2
    <2>2. w.into \in LogsToQuery(logStatus[n])
        BY <1>3, <1>4, LogTypes, Zenon
    <2>3. p # Origin => w.ev <= setsync[p]
        BY <1>3, <1>7, Zenon
    <2> QED
        BY <1>2, <1>3, <2>1, <2>2, <2>3, Zenon
           DEF w, IInv, WorkerInv, NeverAheadOfProvider
<1>9. QueriedLogsSuffice'
    <2>1. ASSUME NEW r \in Needed(n, e)
          PROVE  \E i \in w.query : r \in log[p][i]
        <3>1. r \in applied[Origin] /\ r \notin applied[n] /\ Visible(r.xid, snap[e])
            BY Zenon DEF Needed
        <3>2. r \in applied[p]
            <4>1. CASE p = Origin
                BY <3>1, <4>1, Zenon
            <4>2. CASE p # Origin
                <5>1. p \in Receiver /\ r.xid \in Xid
                    BY <1>4, <3>1, <4>2, RowTypes, Zenon DEF Receiver, IInv
                <5>2. Visible(r.xid, snap[setsync[p]])
                    BY <1>5, <1>7, <3>1, <4>2, <5>1, Zenon DEF IInv, SnapInv
                <5> QED BY <3>1, <5>1, <5>2, ZenonT(40) DEF IInv, AppliedExactly
            <4> QED BY <4>1, <4>2, Zenon
        <3> QED BY <1>3, <3>1, <3>2, Zenon DEF IInv, LogInv
    <2>2. w.ev = e
        BY <1>3, Zenon
    <2>3. ASSUME NEW m \in Receiver, worker'[m] # Idle,
                 NEW r \in Needed(m, worker[m].ev)'
          PROVE  \E i \in worker'[m].query : r \in log'[Provider[m]][i]
        <3>1. r \in Needed(m, worker'[m].ev)
            BY <1>2, Zenon DEF Needed
        <3>2. CASE m = n
            BY <1>2, <2>1, <2>2, <3>1, <3>2, ZenonT(40) DEF w
        <3>3. CASE m # n
            <4>1. worker'[m] = worker[m]
                BY <1>3, <3>3, Zenon
            <4>2. \E i \in worker[m].query : r \in log[Provider[m]][i]
                <5>1. worker[m] # Idle /\ r \in Needed(m, worker[m].ev)
                    BY <2>3, <3>1, <4>1, Zenon
                <5>2. QueriedLogsSuffice
                    BY Zenon DEF IInv
                <5> QED BY <5>1, <5>2, Zenon DEF QueriedLogsSuffice
            <4> QED BY <1>2, <4>1, <4>2, Zenon
        <3> QED BY <3>2, <3>3, Zenon
    <2> QED BY <2>3, Zenon DEF QueriedLogsSuffice
<1>10. /\ XactInv' /\ SnapInv' /\ ImageInv' /\ ConfirmInv' /\ AppliedExactly'
       /\ ReplicaConsistent'
    BY ZenonT(40), <1>2, KeepXact, KeepSnap, KeepImage, KeepConfirm, KeepApplied,
       KeepReplica DEF IInv, xactVars
<1>11. ConflictInv' /\ LogInv'
    <2>1. AllRows' = AllRows
        BY <1>2, Zenon DEF AllRows
    <2>2. ConflictInv'
        BY <1>2, <2>1, KeepConflict, Zenon DEF IInv
    <2>3. LogInv'
        BY <1>2, Zenon DEF IInv, LogInv
    <2> QED BY <2>2, <2>3, Zenon
<1> QED
    BY <1>1, <1>8, <1>9, <1>10, <1>11, Zenon DEF IInv

(* A failed attempt leaves nothing behind. *)
LEMMA StepRetry ==
    ASSUME IInv, NEW n \in Receiver, SyncRetry(n)
    PROVE  IInv'
<1>1. TypeOK'
    BY TypeRetry, Zenon DEF IInv
<1>2. /\ worker'[n] = Idle
      /\ \A m \in Receiver \ {n} : worker'[m] = worker[m]
      /\ UNCHANGED <<nextXid, running, xmax, plan, actSeq, lastAct, snap, image,
                     log, logStatus, event, con, setsync, applied, tab>>
    BY Zenon DEF SyncRetry, IInv, TypeOK, xactVars, syncVars, logVars, dataVars
<1>3. WorkerInv'
    BY <1>2, ZenonT(40) DEF IInv, WorkerInv, NeverAheadOfProvider
<1>4. QueriedLogsSuffice'
    BY <1>2 DEF IInv, QueriedLogsSuffice, Needed
<1>5. /\ XactInv' /\ SnapInv' /\ ImageInv' /\ ConfirmInv' /\ AppliedExactly'
      /\ ReplicaConsistent'
    BY Zenon, <1>2, KeepXact, KeepSnap, KeepImage, KeepConfirm, KeepApplied,
       KeepReplica DEF IInv, xactVars
<1>6. ConflictInv' /\ LogInv'
    BY <1>2, KeepConflict, Zenon DEF IInv, AllRows, LogInv
<1> QED
    BY <1>1, <1>3, <1>4, <1>5, <1>6, Zenon DEF IInv

-----------------------------------------------------------------------------
(* The invariant and what follows from it.                                 *)

(* A cluster in which everybody has processed SYNC 1 satisfies the invariant. *)
LEMMA InvInit == ASSUME Init PROVE IInv
<1> USE ConfigAssumption, BoundAssumption
<1>1. TypeOK
    BY TypeInit, ZenonT(40)
<1>2. Len(snap) = 1 /\ Syncs = {1} /\ snap[1] = [xmax |-> 1, xip |-> {}]
    BY DEF Init, Syncs
<1>3. image[1] = [k \in Key |-> 0]
    BY Zenon DEF Init
<1>4. AllRows = {} /\ applied = [n \in Node |-> {}]
    BY Zenon DEF Init, AllRows, LogNo
<1>11. /\ nextXid = 1 /\ xmax = 1 /\ running = {}
       /\ \A x \in Xid : plan[x] = 0
       /\ \A i \in LogNo : log[Origin][i] = {}
       /\ applied[Origin] = {} /\ \A k \in Key : tab[Origin][k] = 0
    BY Zenon DEF Init
<1>5. XactInv /\ ConflictInv
    <2>1. xmax <= nextXid
        BY <1>11
    <2> QED BY <1>4, <1>11, <2>1, ZenonT(40) DEF XactInv, ConflictInv
<1>6. SnapInv
    <2>1. snap[1].xmax = 1 /\ snap[1].xip = {} /\ 1 <= 1
        BY <1>2
    <2> QED BY <1>2, <1>11, <2>1, Zenon DEF SnapInv
<1>7. ImageInv
    BY <1>2, <1>3, <1>11, Zenon DEF ImageInv, IsLast, SeenAt
<1>8. ConfirmInv /\ WorkerInv
    <2>1. /\ event = [n \in Node |-> {1}] /\ setsync = [n \in Receiver |-> 1]
          /\ con = [n \in Node |-> [r \in Receiver |-> {1}]]
          /\ worker = [n \in Receiver |-> Idle]
        BY Zenon DEF Init
    <2>2. ConfirmInv
        <3>1. 1 <= 1
            BY SMTT(30)
        <3> QED BY <2>1, <3>1, Zenon DEF ConfirmInv, ConfirmSound, ConfirmedByAll, Receiver
    <2>3. WorkerInv
        BY <2>1 DEF WorkerInv, NeverAheadOfProvider, Receiver
    <2> QED BY <2>2, <2>3, Zenon
<1>9. LogInv /\ AppliedExactly /\ QueriedLogsSuffice
    BY <1>4, Zenon DEF Init, LogInv, AppliedExactly, QueriedLogsSuffice, Receiver
<1>10. ReplicaConsistent
    BY <1>3, Zenon DEF Init, ReplicaConsistent, Receiver
<1> QED
    BY <1>1, <1>5, <1>6, <1>7, <1>8, <1>9, <1>10, Zenon DEF IInv

(* Every step preserves it. *)
LEMMA InvStep ==
    ASSUME IInv, [Next /\ Timely]_vars
    PROVE  IInv'
<1>1. CASE Application
    BY <1>1, StepTrigger, StepSavepoint, StepCommit, StepAbort, Zenon DEF Application
<1>2. CASE SyncThread
    BY <1>2, StepSync, Zenon DEF SyncThread, SyncOnActivity, SyncOnTimeout
<1>3. CASE \E n \in Receiver : RemoteWorker(n)
    BY <1>3, StepBegin, StepCommitSync, StepRetry, Zenon DEF RemoteWorker
<1>4. CASE \E n \in Node : ConfirmForwarding(n)
    BY <1>4, StepForward, Zenon DEF ConfirmForwarding
<1>5. CASE Timely /\ \E n \in Cleaner : CleanupThread(n)
    BY <1>5, StepCleanup, StepCrash, ConfigAssumption, Zenon DEF CleanupThread
<1>6. CASE UNCHANGED vars
    <2>1. UNCHANGED <<nextXid, running, xmax, plan, actSeq, lastAct, snap, image,
                      log, logStatus, event, con, setsync, worker, applied, tab>>
        BY <1>6, Zenon DEF vars, xactVars, syncVars, logVars, dataVars
    <2>2. TypeOK'
        BY <2>1, Zenon DEF IInv, TypeOK
    <2>3. /\ XactInv' /\ SnapInv' /\ ImageInv' /\ ConfirmInv' /\ WorkerInv'
          /\ AppliedExactly' /\ ReplicaConsistent'
        BY Zenon, <2>1, KeepXact, KeepSnap, KeepImage, KeepConfirm, KeepWorker,
           KeepApplied, KeepReplica DEF IInv, xactVars
    <2>4. ConflictInv' /\ LogInv' /\ QueriedLogsSuffice'
        BY <2>1, KeepRows, Zenon DEF IInv
    <2> QED BY <2>2, <2>3, <2>4, Zenon DEF IInv
<1> QED BY <1>1, <1>2, <1>3, <1>4, <1>5, <1>6, Zenon DEF Next

(* The inductive invariant holds in every reachable state, for any number of
   nodes in any arrangement of providers, and any number of transactions,
   rows and SYNCs. *)
THEOREM Invariance == TimelySpec => []IInv
<1>1. Init => IInv BY InvInit, Zenon
<1>2. IInv /\ [Next /\ Timely]_vars => IInv' BY InvStep, Zenon
<1> QED BY <1>1, <1>2, PTL DEF TimelySpec

(* A subscriber always shows the origin's tables as of the SYNC in its
   sl_setsync. *)
THEOREM ReplicaCorrect == TimelySpec => []ReplicaConsistent
<1>1. IInv => ReplicaConsistent BY Zenon DEF IInv
<1> QED BY <1>1, Invariance, PTL

(* It has applied exactly the committed rows visible at that SYNC. *)
THEOREM AppliedCorrect == TimelySpec => []AppliedExactly
<1>1. IInv => AppliedExactly BY Zenon DEF IInv
<1> QED BY <1>1, Invariance, PTL

(* The log tables sync_event() has decided to select from hold all it needs,
   throughout log switches, truncations and failures of the cleanup thread. *)
THEOREM SelectionCorrect == TimelySpec => []QueriedLogsSuffice
<1>1. IInv => QueriedLogsSuffice BY Zenon DEF IInv
<1> QED BY <1>1, Invariance, PTL

(* No batch contains a row that has been applied before. *)
THEOREM NoRowTwice == TimelySpec => []NeverAppliedTwice
<1>1. IInv => NeverAppliedTwice
    <2> SUFFICES ASSUME IInv, NEW n \in Receiver, worker[n] # Idle
                 PROVE  applied[n] \cap SelectRows(Provider[n], worker[n].query,
                            snap[setsync[n]], snap[worker[n].ev]) = {}
        BY Zenon DEF NeverAppliedTwice
    <2> QED BY BatchExact, Zenon
<1> QED BY <1>1, Invariance, PTL

(* Every confirmation, wherever it has travelled, is true. *)
THEOREM ConfirmsCorrect == TimelySpec => []ConfirmSound
<1>1. IInv => ConfirmSound BY Zenon DEF IInv, ConfirmInv
<1> QED BY <1>1, Invariance, PTL

(* No cascaded subscriber passes its data provider. *)
THEOREM CascadeOrdered == TimelySpec => []NeverAheadOfProvider
<1>1. IInv => NeverAheadOfProvider BY Zenon DEF IInv, WorkerInv
<1> QED BY <1>1, Invariance, PTL

-----------------------------------------------------------------------------
(* Steps: confirmations never go back, and the abstract replica.           *)

(* cleanupEvent() deletes a confirmation only if it keeps a newer one. *)
LEMMA CleanupKeepsNewest ==
    ASSUME TypeOK, NEW n \in Node, NEW cut \in Cut(n), CleanupEvent(n, cut),
           NEW m \in Node, NEW r \in Receiver, NEW c \in con[m][r]
    PROVE  \E d \in con'[m][r] : c <= d
<1>1. /\ con'[n] = KeptConfirms(n, cut)
      /\ m # n => con'[m] = con[m]
    BY Zenon DEF CleanupEvent, TypeOK
<1>2. c \in Int /\ c <= c /\ c > 0 /\ \A d \in con[m][r] : d \in Int
    BY NumberTypes
<1>3. CASE m # n
    BY <1>1, <1>2, <1>3, Zenon
<1>4. CASE m = n
    <2>1. /\ con'[n][r] = {d \in con[n][r] : d >= cut[r]}
          /\ cut[r] \in con[n][r] \cup {0} /\ cut[r] \in Int
        BY <1>1, NumberTypes DEF KeptConfirms, Cut
    <2>2. CASE c >= cut[r]
        BY <1>2, <1>4, <2>1, <2>2, Zenon
    <2>3. CASE ~(c >= cut[r])
        BY <1>2, <1>4, <2>1, <2>3
    <2> QED BY <2>2, <2>3, ZenonT(40)
<1> QED BY <1>3, <1>4, Zenon

(* The other steps only ever add confirmations. *)
LEMMA ConfirmsStep ==
    ASSUME TypeOK, [Next]_vars
    PROVE  \A m \in Node, r \in Receiver :
                \A c \in con[m][r] : \E d \in con'[m][r] : c <= d
<1> SUFFICES ASSUME NEW m \in Node, NEW r \in Receiver, NEW c \in con[m][r]
             PROVE  \E d \in con'[m][r] : c <= d
    BY Zenon
<1>1. c <= c
    BY DEF TypeOK
<1>2. CASE con' = con
    BY <1>1, <1>2, Zenon
<1>3. ASSUME NEW n \in Receiver, SyncCommit(n) PROVE con[m][r] \subseteq con'[m][r]
    BY <1>3, ZenonT(40) DEF SyncCommit, AppendEvents, TypeOK
<1>4. ASSUME NEW n \in Node, ConfirmForwarding(n) PROVE con[m][r] \subseteq con'[m][r]
    BY <1>4 DEF ConfirmForwarding, ForwardConfirm, TypeOK
<1>5. CASE \E n \in Cleaner : CleanupThread(n)
    BY <1>2, <1>5, CleanupKeepsNewest, ConfigAssumption, Zenon
       DEF CleanupThread, CleanupCrash
<1>6. CASE Application
    BY <1>2, <1>6, Zenon
       DEF Application, LogTrigger, RollbackToSavepoint, Commit, Abort
<1>7. CASE SyncThread
    BY <1>2, <1>7, Zenon DEF SyncThread, SyncOnActivity, SyncOnTimeout, CreateSync
<1>8. CASE \E n \in Receiver : RemoteWorker(n)
    BY <1>1, <1>2, <1>3, <1>8, Zenon DEF RemoteWorker, SyncBegin, SyncRetry
<1>9. CASE \E n \in Node : ConfirmForwarding(n)
    BY <1>1, <1>4, <1>9, Zenon
<1>10. CASE UNCHANGED vars
    BY <1>2, <1>10, Zenon DEF vars
<1> QED BY <1>5, <1>6, <1>7, <1>8, <1>9, <1>10, Zenon DEF Next

(* What a node knows of the progress of a receiver never goes back, whatever
   the timing of cleanup. *)
THEOREM ConfirmsNeverLost == Spec => ConfirmsAdvance
<1>1. TypeOK /\ [Next]_vars =>
        [\A n \in Node, r \in Receiver :
            \A c \in con[n][r] : \E d \in con'[n][r] : c <= d]_vars
    BY ConfirmsStep, Zenon
<1> QED BY <1>1, TypeCorrect, PTL DEF Spec, ConfirmsAdvance

(* A cluster at SYNC 1 is a freshly published abstract replica. *)
LEMMA RefineInit == ASSUME Init PROVE Abstract!Init
BY ConfigAssumption, BoundAssumption DEF Init, Abstract!Init, Receiver

(* Steps that change neither tables nor positions are stutters. *)
LEMMA RefineStutter ==
    ASSUME UNCHANGED <<tab, image, setsync>>
    PROVE  UNCHANGED Abstract!abstractVars
BY Zenon DEF Abstract!abstractVars

(* The commit of a transaction is an abstract commit. *)
LEMMA RefineCommit ==
    ASSUME IInv, NEW x \in Xid, Commit(x)
    PROVE  Abstract!Commit
<1>1. TypeOK'
    BY TypeCommit, Zenon DEF IInv
<1>2. \A n \in Receiver : tab'[n] = tab[n]
    BY Zenon DEF Commit, IInv, TypeOK, Receiver
<1>3. UNCHANGED <<image, setsync>>
    BY Zenon DEF Commit, syncVars
<1>4. tab'[Origin] \in [Key -> 0 .. MaxSeq]
    BY <1>1, ConfigAssumption, Zenon DEF TypeOK
<1> QED BY <1>2, <1>3, <1>4, Zenon DEF Abstract!Commit

(* A SYNC is a publication. *)
LEMMA RefineSync ==
    ASSUME CreateSync
    PROVE  Abstract!Publish
BY Zenon DEF CreateSync, Abstract!Publish, dataVars

(* The commit of a SYNC on a subscriber is a step forward, to contents that
   are published and that its provider has. *)
LEMMA RefineCommitSync ==
    ASSUME IInv, NEW n \in Receiver, SyncCommit(n)
    PROVE  Abstract!CatchUp(n)
<1> DEFINE w == worker[n]
           B == SelectRows(Provider[n], w.query, snap[setsync[n]], snap[w.ev])
<1>1. w # Idle /\ n # Origin /\ n \in Node
    BY Zenon DEF SyncCommit, Receiver
<1>2. /\ tab' = [tab EXCEPT ![n] = Apply(@, B)]
      /\ setsync' = [setsync EXCEPT ![n] = w.ev]
      /\ UNCHANGED image
    BY Zenon DEF SyncCommit, StoreBatch, syncVars
<1>3. Apply(tab[n], B) = image[w.ev]
    BY <1>1, ReplayExact, Zenon
<1>4. w.ev \in Syncs /\ setsync[n] < w.ev
    BY <1>1, BatchExact, Zenon
<1>5. Provider[n] # Origin => w.ev <= setsync[Provider[n]]
    BY <1>1, Zenon DEF IInv, WorkerInv
<1> HIDE DEF B, w
<1>6. w.ev \in setsync[n] + 1 .. (IF Provider[n] = Origin THEN Len(image)
                                  ELSE setsync[Provider[n]])
    <2>1. Len(image) = Len(snap) /\ Len(snap) \in Nat /\ setsync[n] \in Int
        BY NumberTypes, Zenon DEF IInv
    <2>2. Provider[n] # Origin => setsync[Provider[n]] \in Int
        BY ConfigAssumption, NumberTypes, ZenonT(40) DEF IInv, Receiver
    <2> QED BY <1>4, <1>5, <2>1, <2>2 DEF Syncs
<1>7. tab'[Origin] = tab[Origin]
    BY <1>1, <1>2, ConfigAssumption, ZenonT(40) DEF IInv, TypeOK
<1>8. [m \in Receiver |-> tab'[m]] =
        [[m \in Receiver |-> tab[m]] EXCEPT ![n] = image[w.ev]]
    BY <1>1, <1>2, <1>3, ZenonT(40) DEF IInv, TypeOK, Receiver
<1> QED
    BY <1>2, <1>6, <1>7, <1>8, Zenon DEF Abstract!CatchUp, Abstract!Available

(* Every step of the data path is an abstract step or a stutter. *)
LEMMA RefineStep ==
    ASSUME IInv, [Next /\ Timely]_vars
    PROVE  [Abstract!Next]_Abstract!abstractVars
<1>1. CASE Application
    <2>1. CASE \E x \in Xid : Commit(x)
        BY <2>1, RefineCommit, Zenon DEF Abstract!Next
    <2>2. CASE \E x \in Xid : \/ \E k \in Key : LogTrigger(x, k)
                              \/ \E s \in 0 .. MaxSeq : RollbackToSavepoint(x, s)
                              \/ Abort(x)
        BY <2>2, RefineStutter, Zenon
           DEF LogTrigger, RollbackToSavepoint, Abort, syncVars, dataVars
    <2> QED BY <1>1, <2>1, <2>2, Zenon DEF Application
<1>2. CASE SyncThread
    BY <1>2, RefineSync, Zenon DEF SyncThread, SyncOnActivity, SyncOnTimeout, Abstract!Next
<1>3. CASE \E n \in Receiver : RemoteWorker(n)
    BY <1>3, RefineCommitSync, RefineStutter, Zenon
       DEF RemoteWorker, SyncBegin, SyncRetry, syncVars, dataVars, Abstract!Next
<1>4. CASE \E n \in Node : ConfirmForwarding(n)
    BY <1>4, RefineStutter, Zenon DEF ConfirmForwarding, ForwardConfirm, syncVars, dataVars
<1>5. CASE \E n \in Cleaner : CleanupThread(n)
    BY <1>5, RefineStutter, Zenon
       DEF CleanupThread, CleanupEvent, CleanupCrash, syncVars, dataVars
<1>6. CASE UNCHANGED vars
    BY <1>6, RefineStutter, Zenon DEF vars, syncVars, dataVars
<1> QED BY <1>1, <1>2, <1>3, <1>4, <1>5, <1>6, Zenon DEF Next

(* The data path, with its logs, log switches, snapshots, confirmations,
   cleanup and failures, implements the abstract replica. *)
THEOREM DataPathImplementsReplica == TimelySpec => ImplementsReplica
<1>1. Init => Abstract!Init BY RefineInit, Zenon
<1>2. IInv /\ [Next /\ Timely]_vars => [Abstract!Next]_Abstract!abstractVars
    BY RefineStep, Zenon
<1> QED
    BY <1>1, <1>2, Invariance, PTL DEF TimelySpec, ImplementsReplica, Abstract!Spec
=============================================================================
