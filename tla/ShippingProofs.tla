--------------------------- MODULE ShippingProofs ---------------------------
(***************************************************************************)
(* The contents of the archives of log shipping: ArchiveInv is inductive   *)
(* relative to ShapeInv, and the offline database follows the Archiver.    *)
(***************************************************************************)
EXTENDS ArchiveProofs

(* A worker that archives is the only one. *)
LEMMA AloneFacts ==
    ASSUME NumberInv, ContentInv, NEW w \in Worker, Active(w)
    PROVE  /\ work[w].counted /\ work[w].n = counter + 1
           /\ \A v \in Worker : v # w => ~Active(v) /\ work[v].pc # "closed" /\ v \notin tmp
<1>1. work[w].counted
    BY Zenon DEF ContentInv, WriterOK
<1>2. work[w].n = counter + 1
    BY <1>1, Zenon DEF NumberInv, NumberOK
<1>3. ASSUME NEW v \in Worker, Active(v) PROVE v = w
    <2>1. work[v].counted BY <1>3, Zenon DEF ContentInv, WriterOK
    <2> QED BY <1>1, <2>1, Zenon DEF NumberInv
<1>4. ASSUME NEW v \in Worker, v # w
      PROVE  ~Active(v) /\ work[v].pc # "closed" /\ v \notin tmp
    <2>1. ~Active(v) BY <1>3, <1>4, Zenon
    <2>2. NumberOK(v) BY Zenon DEF NumberInv
    <2>3. work[v].pc # "closed"
        <3>1. work[v].pc = "closed" => Active(v)
            BY <2>2 DEF NumberOK, Active
        <3> QED BY <2>1, <3>1, Zenon
    <2> QED BY <2>1, <2>2, <2>3, Zenon DEF NumberOK
<1> QED BY <1>1, <1>2, <1>4, Zenon

(* A worker that does nothing for the archives. *)
LEMMA IdleWriter ==
    ASSUME NEW w \in Worker, ~Active(w)', work'[w].pc # "closed"
    PROVE  WriterOK(w)'
BY Zenon DEF WriterOK

LEMMA ResultKept ==
    ASSUME SetupOK, NEW w \in Worker, Archives(w), work'[w] = work[w], sub'[2] = sub[2]
    PROVE  Result(w)' = Result(w)
<1>1. w[1] = 2 BY ArchiverFacts, Zenon
<1> QED BY <1>1, Zenon DEF Result

LEMMA WriterKept ==
    ASSUME SetupOK, NumberInv, ContentInv, NEW w \in Worker, UNCHANGED <<setup, counter, past>>,
           work'[w] = work[w], w \in tmp => w \in tmp', Archives(w) => sub'[2] = sub[2],
           work[w].pc = "closed" => dir'[work[w].n] = dir[work[w].n]
    PROVE  WriterOK(w)'
<1>1. WriterOK(w) BY Zenon DEF ContentInv
<1>2. Active(w)' <=> Active(w) BY Zenon DEF Active, Archives
<1>3. Active(w)' => work'[w].counted /\ (work'[w].pc # "closed" => w \in tmp')
    BY <1>1, <1>2, Zenon DEF WriterOK
<1>4. work'[w].pc = "closed" => dir'[work'[w].n] = work'[w].out
    BY <1>1, Zenon DEF WriterOK
<1>5. PastData(counter)' = PastData(counter)
    BY Zenon DEF PastData
<1>6. ASSUME Active(w), work[w].pc \in {"worked", "closed"}
      PROVE  Data(Result(w))' = AppliedTo(PastData(counter), work[w].out)'
    <2>1. Data(Result(w)) = AppliedTo(PastData(counter), work[w].out)
        BY <1>1, <1>6, Zenon DEF WriterOK
    <2>2. Result(w)' = Result(w)
        BY <1>6, ResultKept, Zenon DEF Active
    <2>3. Data(Result(w))' = Data(Result(w)) BY <2>2, Zenon DEF Data
    <2>4. AppliedTo(PastData(counter), work[w].out)' = AppliedTo(PastData(counter), work[w].out)
        BY <1>5, Zenon DEF AppliedTo
    <2> QED BY <2>1, <2>3, <2>4, Zenon
<1> QED BY <1>2, <1>3, <1>4, <1>6, Zenon DEF WriterOK

LEMMA HistoryKept ==
    ASSUME HistoryOK, UNCHANGED <<setup, counter, past>>, setup.archives # {} => sub'[2] = sub[2],
           \A m \in 1 .. counter : dir'[m] = dir[m]
    PROVE  HistoryOK'
<1>1. \A m : PastData(m)' = PastData(m) BY Zenon DEF PastData
<1>2. PastData(counter)' = PastData(counter) BY Zenon DEF PastData
<1>3. setup'.archives # {} => Data(sub[2])' = PastData(counter)'
    BY <1>2, Zenon DEF HistoryOK, Data
<1>4. ASSUME NEW m \in 1 .. counter
      PROVE  dir'[m] \in File /\ PastData(m)' = AppliedTo(PastData(m - 1), dir[m])'
    <2>1. dir[m] \in File /\ PastData(m) = AppliedTo(PastData(m - 1), dir[m]) /\ dir'[m] = dir[m]
        BY Zenon DEF HistoryOK
    <2>2. AppliedTo(PastData(m - 1), dir[m])' = AppliedTo(PastData(m - 1), dir[m])
        BY <1>1, <2>1, Zenon DEF AppliedTo
    <2> QED BY <1>1, <2>1, <2>2, Zenon
<1> QED BY <1>3, <1>4, Zenon DEF HistoryOK

LEMMA OfflineKept ==
    ASSUME SetupOK, NumberInv, OfflineOK, UNCHANGED <<setup, offline, counter, past>>,
           setup.archives # {} => sub'[2] = sub[2],
           \A w \in Worker : work[w].pc = "closed" => work'[w] = work[w]
    PROVE  OfflineOK'
<1>1. Data(offline)' = Data(offline) /\ PastData(offline.at)' = PastData(offline.at)
    BY Zenon DEF Data, PastData
<1>2. Worker' = Worker BY Zenon DEF Worker, Receiver
<1>3. CASE offline.at <= counter
    BY <1>1, <1>3, Zenon DEF OfflineOK
<1>4. CASE ~(offline.at <= counter)
    <2>1. PICK w \in Worker : /\ work[w].pc = "closed" /\ work[w].n = offline.at
                              /\ Data(offline) = Data(Result(w))
        BY <1>4, Zenon DEF OfflineOK
    <2>2. Archives(w) /\ work'[w] = work[w]
        BY <2>1, Zenon DEF NumberInv, NumberOK
    <2>3. setup.archives # {} BY <2>2, ArchiverFacts, Zenon
    <2>4. Result(w)' = Result(w)
        BY <2>2, <2>3, ResultKept, Zenon
    <2>5. Data(Result(w))' = Data(Result(w)) BY <2>4, Zenon DEF Data
    <2>6. /\ work'[w].pc = "closed" /\ work'[w].n = offline'.at
          /\ Data(offline)' = Data(Result(w))'
        BY <1>1, <2>1, <2>2, <2>5, Zenon
    <2>7. ~(offline'.at <= counter') BY <1>4, Zenon
    <2> QED BY <1>2, <2>6, <2>7, Zenon DEF OfflineOK
<1> QED BY <1>3, <1>4, Zenon

(* A step that neither closes a file nor commits, and leaves all workers but u
   alone. *)
LEMMA ContentOne ==
    ASSUME SetupOK, NumberInv, ContentInv, OfflineOK, NEW u \in Worker,
           UNCHANGED <<setup, sub, counter, dir, past, offline>>,
           \A w \in Worker : w # u => work'[w] = work[w] /\ (w \in tmp => w \in tmp'),
           work[u].pc # "closed", WriterOK(u)'
    PROVE  ContentInv' /\ OfflineOK'
<1>1. Worker' = Worker BY Zenon DEF Worker, Receiver
<1>2. HistoryOK'
    BY HistoryKept, Zenon DEF ContentInv
<1>3. ASSUME NEW w \in Worker PROVE WriterOK(w)'
    <2>1. CASE w = u BY <2>1, Zenon
    <2>2. CASE w # u BY <2>2, WriterKept, Zenon
    <2> QED BY <2>1, <2>2, Zenon
<1>4. \A w \in Worker : work[w].pc = "closed" => work'[w] = work[w]
    BY Zenon
<1>5. counter' + 1 \in Files' => \E w \in Worker : work'[w].pc = "closed"
    <2>1. counter + 1 \in Files => \E w \in Worker : work[w].pc = "closed"
        BY Zenon DEF ContentInv
    <2>2. counter' + 1 \in Files' => counter + 1 \in Files
        BY Zenon DEF Files
    <2> QED BY <1>4, <2>1, <2>2, Zenon
<1>6. OfflineOK' BY <1>4, OfflineKept, Zenon
<1> QED BY <1>1, <1>2, <1>3, <1>5, <1>6, ZenonT(40) DEF ContentInv

LEMMA ContentBegin ==
    ASSUME ShapeInv, NumberInv, ContentInv, OfflineOK, NEW w \in Worker, Begin(w)
    PROVE  ContentInv' /\ OfflineOK'
<1>1. PICK k \in Nat \ {0} : work'[w] = Opened(w, k)
    BY ShapeBegin, Zenon
<1>2. \A v \in Worker : v # w => work'[v] = work[v]
    BY ShapeBegin, Zenon
<1>3. /\ UNCHANGED <<setup, sub, counter, dir, past, offline>> /\ work[w].pc = "idle"
      /\ archive_open(w)
    BY Zenon DEF Begin, copyVars
<1>4. work'[w].pc = "work" /\ (Archives(w) => work'[w].counted)
    <2>1. counter \in Nat /\ k \in Nat BY Zenon DEF ShapeInv
    <2>2. Opened(w, k).pc = "work" /\ (Archives(w) => Opened(w, k).counted = TRUE)
        BY <2>1, OpenedFacts, Zenon
    <2> QED BY <1>1, <2>2, SMTT(30)
<1>5. tmp \subseteq tmp' /\ (Archives(w) => w \in tmp')
    BY <1>3, Zenon DEF archive_open
<1>6. WriterOK(w)'
    BY <1>3, <1>4, <1>5, ZenonT(40) DEF WriterOK, Active, Archives
<1>7. SetupOK /\ work[w].pc # "closed" BY <1>3, Zenon DEF ShapeInv
<1> QED BY <1>2, <1>3, <1>5, <1>6, <1>7, ContentOne, ZenonT(40)

(* What a worker has done and what it has written fit together. *)
Fits(w, res, out) ==
    IF w[2] = Origin
    THEN [rows |-> res.rows, other |-> sub[2].other] = AppliedTo(Data(sub[2]), out)
    ELSE [rows |-> sub[2].rows, other |-> res.other] = AppliedTo(Data(sub[2]), out)

LEMMA ResultData ==
    ASSUME ShapeInv, NEW w \in Worker, work[w].pc \in {"worked", "closed"}, w[1] = 2
    PROVE  Data(Result(w)) = IF w[2] = Origin
                             THEN [rows |-> work[w].res.rows, other |-> sub[2].other]
                             ELSE [rows |-> sub[2].rows, other |-> work[w].res.other]
<1>1. /\ AllButOther(IF w[2] = Origin THEN work[w].res ELSE sub[w[1]], Result(w))
      /\ Result(w).other = IF w[2] = Origin THEN sub[w[1]].other ELSE work[w].res.other
    BY ResultFacts, Zenon
<1>2. CASE w[2] = Origin
    <2>1. Result(w).rows = work[w].res.rows /\ Result(w).other = sub[2].other
        BY <1>1, <1>2, Zenon DEF AllButOther
    <2> QED BY <1>2, <2>1, Zenon DEF Data
<1>3. CASE w[2] # Origin
    <2>1. Result(w).rows = sub[2].rows /\ Result(w).other = work[w].res.other
        BY <1>1, <1>3, Zenon DEF AllButOther
    <2> QED BY <1>3, <2>1, Zenon DEF Data
<1> QED BY <1>2, <1>3, Zenon

LEMMA ContentWorked ==
    ASSUME ShapeInv, NumberInv, ContentInv, OfflineOK, NEW w \in Worker,
           NEW res \in Subscriber, NEW out \in File,
           work[w].pc = "work", Worked(w, res, out), Archives(w) => Fits(w, res, out)
    PROVE  ContentInv' /\ OfflineOK'
<1>1. /\ work'[w].pc = "worked" /\ work'[w].res = res /\ work'[w].out = out
      /\ work'[w].counted = work[w].counted
      /\ \A v \in Worker : v # w => work'[v] = work[v]
    BY ShapeWorked, Zenon
<1>2. UNCHANGED <<setup, sub, counter, tmp, dir, past, offline>>
    BY Zenon DEF Worked, copyVars
<1>3. SetupOK /\ work[w].pc # "closed" BY Zenon DEF ShapeInv
<1>4. CASE ~Archives(w)
    <2>1. ~Active(w)' /\ work'[w].pc # "closed"
        BY <1>1, <1>2, <1>4, Zenon DEF Active, Archives
    <2>2. WriterOK(w)' BY <2>1, IdleWriter, ZenonT(40)
    <2> QED BY <1>1, <1>2, <1>3, <2>2, ContentOne, Zenon
<1>5. CASE Archives(w)
    <2>1. w[1] = 2 /\ 2 \in Receiver /\ setup.archives # {}
        BY <1>3, <1>5, ArchiverFacts, Zenon
    <2>2. sub[2] \in Subscriber BY <2>1, Zenon DEF ShapeInv
    <2>3. Data(sub[2]) = PastData(counter) /\ PastData(counter)' = PastData(counter)
        BY <1>2, <2>1, Zenon DEF ContentInv, HistoryOK, PastData
    <2> DEFINE t == IF w[2] = Origin THEN [res EXCEPT !.other = sub[2].other]
                    ELSE [sub[2] EXCEPT !.other = res.other]
    <2>4. Result(w)' = t
        BY <1>1, <1>2, <2>1, Zenon DEF Result
    <2>5. Data(t) = AppliedTo(PastData(counter), out)
        <3>1. CASE w[2] = Origin
            <4>1. t = [res EXCEPT !.other = sub[2].other] /\ sub[2].other \in SUBSET Nat
                BY <2>2, <3>1, SubFields, Zenon
            <4> HIDE DEF t
            <4>2. t.rows = res.rows /\ t.other = sub[2].other
                BY <4>1, Zenon DEF Subscriber
            <4>3. [rows |-> res.rows, other |-> sub[2].other] = AppliedTo(Data(sub[2]), out)
                BY <1>5, <3>1, Zenon DEF Fits
            <4> QED BY <2>3, <4>2, <4>3, Zenon DEF Data
        <3>2. CASE w[2] # Origin
            <4>1. t = [sub[2] EXCEPT !.other = res.other] /\ res.other \in SUBSET Nat
                BY <3>2, SubFields, Zenon
            <4> HIDE DEF t
            <4>2. t.rows = sub[2].rows /\ t.other = res.other
                BY <2>2, <4>1, Zenon DEF Subscriber
            <4>3. [rows |-> sub[2].rows, other |-> res.other] = AppliedTo(Data(sub[2]), out)
                BY <1>5, <3>2, Zenon DEF Fits
            <4> QED BY <2>3, <4>2, <4>3, Zenon DEF Data
        <3> QED BY <3>1, <3>2, Zenon
    <2> HIDE DEF t
    <2>6. Data(Result(w))' = Data(t) BY <2>4, Zenon DEF Data
    <2>7. AppliedTo(PastData(counter), work[w].out)' = AppliedTo(PastData(counter), out)
        BY <1>1, <2>3, Zenon DEF AppliedTo
    <2>8. work'[w].counted /\ w \in tmp'
        <3>1. Active(w) BY <1>5 DEF Active
        <3> QED BY <1>1, <1>2, <1>3, <3>1, Zenon DEF ContentInv, WriterOK
    <2>9. WriterOK(w)'
        <3>1. work'[w].pc # "closed" BY <1>1
        <3> QED BY <2>5, <2>6, <2>7, <2>8, <3>1, ZenonT(40) DEF WriterOK
    <2> QED BY <1>1, <1>2, <1>3, <2>9, ContentOne, Zenon
<1> QED BY <1>4, <1>5, Zenon

(* The archive of a SYNC, of a copy, of a row of node 3 and of nothing. *)
LEMMA FitsSync ==
    ASSUME ShapeInv, NEW w \in Worker, DoSync(w), Archives(w)
    PROVE  Fits(w, AfterSync(w[1], work[w].seq),
                   [kind |-> "sync", rows |-> Fetched(w[1], work[w].seq)])
<1> DEFINE t == AfterSync(w[1], work[w].seq)
           F == Fetched(w[1], work[w].seq)
           f == [kind |-> "sync", rows |-> F]
<1>1. At(w, "SYNC") BY Zenon DEF DoSync
<1>2. w[2] = Origin /\ work[w].seq \in DOMAIN event /\ w[1] \in Receiver /\ w[1] = 2
    BY <1>1, AtFacts, WorkFacts, ArchiverFacts, ZenonT(40) DEF ShapeInv
<1>3. t.rows = sub[2].rows \cup F
    <2>1. t = AfterSync(w[1], work[w].seq) OBVIOUS
    <2>3. w[1] \in Receiver /\ work[w].seq \in DOMAIN event BY <1>2, Zenon
    <2> HIDE DEF t, F
    <2>2. t.rows = sub[w[1]].rows \cup Fetched(w[1], work[w].seq)
        BY <2>1, <2>3, AfterSyncFacts, SMTT(30)
    <2> QED BY <1>2, <2>2, Zenon DEF F
<1> HIDE DEF t, F
<1>4. AppliedTo(Data(sub[2]), f) = [rows |-> sub[2].rows \cup F, other |-> sub[2].other]
    BY Zenon DEF AppliedTo, Data
<1> HIDE DEF f
<1>5. Fits(w, t, f) BY <1>2, <1>3, <1>4, Zenon DEF Fits
<1> QED BY <1>5, Zenon DEF t, f, F

LEMMA FitsEnableOther ==
    ASSUME ShapeInv, NEW w \in Worker, DoEnableOther(w), Archives(w)
    PROVE  Fits(w, [sub[w[1]] EXCEPT !.done = work[w].seq], [kind |-> "sync", rows |-> {}])
<1> DEFINE t == [sub[w[1]] EXCEPT !.done = work[w].seq]
           f == [kind |-> "sync", rows |-> {}]
<1>1. At(w, "ENABLE_SUBSCRIPTION") BY Zenon DEF DoEnableOther
<1>2. /\ w[2] = Origin /\ work[w].seq \in DOMAIN event /\ w[1] = 2
      /\ sub[w[1]] \in Subscriber
    BY <1>1, AtFacts, WorkFacts, ArchiverFacts, ZenonT(40) DEF ShapeInv
<1>3. work[w].seq \in Nat BY <1>2, SeqFacts
<1>4. t.rows = sub[2].rows
    <2>1. t = [sub[w[1]] EXCEPT !.done = work[w].seq] OBVIOUS
    <2> HIDE DEF t
    <2>2. t.rows = sub[w[1]].rows
        BY <1>2, <1>3, <2>1, Zenon DEF Subscriber
    <2> QED BY <1>2, <2>2, Zenon
<1> HIDE DEF t
<1>5. AppliedTo(Data(sub[2]), f) = [rows |-> sub[2].rows, other |-> sub[2].other]
    BY DEF AppliedTo, Data
<1> HIDE DEF f
<1>6. Fits(w, t, f) BY <1>2, <1>4, <1>5, Zenon DEF Fits
<1> QED BY <1>6, Zenon DEF t, f

LEMMA FitsOther ==
    ASSUME ShapeInv, NEW w \in Worker, DoOther(w)
    PROVE  Fits(w, [sub[2] EXCEPT !.other = @ \cup {work[w].seq}],
                   [kind |-> "other", row |-> work[w].seq])
<1> DEFINE o == sub[2].other \cup {work[w].seq}
           t == [sub[2] EXCEPT !.other = @ \cup {work[w].seq}]
           f == [kind |-> "other", row |-> work[w].seq]
<1>1. w[2] = 3 /\ sub[2] \in Subscriber /\ o \in SUBSET Nat
    BY DoOtherFacts, Zenon
<1>2. t = [sub[2] EXCEPT !.other = o] OBVIOUS
<1>3. w[2] # Origin BY <1>1 DEF Origin
<1>4. AppliedTo(Data(sub[2]), f) = [rows |-> sub[2].rows, other |-> o]
    BY DEF AppliedTo, Data
<1> HIDE DEF t, o, f
<1>5. t.other = o BY <1>1, <1>2, Zenon DEF Subscriber
<1>6. Fits(w, t, f) BY <1>3, <1>4, <1>5, Zenon DEF Fits
<1> QED BY <1>6, Zenon DEF t, f

LEMMA FitsCopy ==
    ASSUME ShapeInv, NEW w \in Worker, NEW n, n = w[1], NEW k, k = work[w].seq,
           NEW p, p = setup.provider[n], At(w, "ENABLE_SUBSCRIPTION"),
           NEW list \in Orders(ActionList(p, k)), Archives(w)
    PROVE  Fits(w, AfterCopy(n, k, list), [kind |-> "copy", rows |-> RowsAt(p)])
<1> DEFINE t == AfterCopy(n, k, list)
           R == RowsAt(p)
           f == [kind |-> "copy", rows |-> R]
<1>1. /\ w[2] = Origin /\ k \in DOMAIN event /\ n = 2 /\ n \in Receiver
    BY AtFacts, WorkFacts, ArchiverFacts, ZenonT(40) DEF ShapeInv
<1>2. t.rows = R
    <2>1. t = AfterCopy(n, k, list) OBVIOUS
    <2> HIDE DEF t
    <2>2. CopyResult(n, p, k, list, t)
        BY <1>1, <2>1, AfterCopyFacts, Zenon
    <2> QED BY <2>2, Zenon DEF CopyResult
<1> HIDE DEF t, R
<1>3. AppliedTo(Data(sub[2]), f) = [rows |-> R, other |-> sub[2].other]
    BY DEF AppliedTo, Data
<1> HIDE DEF f
<1>4. Fits(w, t, f) BY <1>1, <1>2, <1>3, Zenon DEF Fits
<1> QED BY <1>4, Zenon DEF t, f, R

LEMMA ContentWork ==
    ASSUME ShapeInv, NumberInv, ContentInv, OfflineOK, NEW w \in Worker,
           DoSync(w) \/ DoOther(w) \/ DoEnableOther(w) \/ DoCopy(w)
    PROVE  ContentInv' /\ OfflineOK'
<1>1. CASE DoSync(w)
    <2>1. Archives(w) => Fits(w, AfterSync(w[1], work[w].seq),
                              [kind |-> "sync", rows |-> Fetched(w[1], work[w].seq)])
        BY <1>1, FitsSync, Zenon
    <2> QED BY <1>1, <2>1, DoSyncFacts, ContentWorked, Zenon
<1>2. CASE DoOther(w)
    <2>1. Fits(w, [sub[2] EXCEPT !.other = @ \cup {work[w].seq}],
                  [kind |-> "other", row |-> work[w].seq])
        BY <1>2, FitsOther, Zenon
    <2> QED BY <1>2, <2>1, DoOtherFacts, ContentWorked, Zenon
<1>3. CASE DoEnableOther(w)
    <2>1. Archives(w) => Fits(w, [sub[w[1]] EXCEPT !.done = work[w].seq],
                                 [kind |-> "sync", rows |-> {}])
        BY <1>3, FitsEnableOther, Zenon
    <2> QED BY <1>3, <2>1, DoEnableOtherFacts, ContentWorked, Zenon
<1>4. CASE DoCopy(w)
    <2> DEFINE n == w[1]
               p == setup.provider[n]
               k == work[w].seq
    <2>1. work[w].pc = "work" /\ At(w, "ENABLE_SUBSCRIPTION")
        BY <1>4, DoCopyFacts, Zenon
    <2>2. PICK list \in Orders(ActionList(p, k)) :
              /\ AfterCopy(n, k, list) \in Subscriber
              /\ [kind |-> "copy", rows |-> RowsAt(p)] \in File
              /\ Worked(w, AfterCopy(n, k, list), [kind |-> "copy", rows |-> RowsAt(p)])
        BY <1>4, DoCopyFacts, Zenon
    <2>3. Archives(w) => Fits(w, AfterCopy(n, k, list), [kind |-> "copy", rows |-> RowsAt(p)])
        BY <2>1, FitsCopy, Zenon
    <2>4. \E t \in Subscriber, f \in File : Worked(w, t, f) /\ (Archives(w) => Fits(w, t, f))
        BY <2>2, <2>3, Zenon
    <2> QED BY <2>1, <2>4, ContentWorked, Zenon
<1> QED BY <1>1, <1>2, <1>3, <1>4, ZenonT(40)

LEMMA ContentSyncFails ==
    ASSUME ShapeInv, NumberInv, ContentInv, OfflineOK, NEW w \in Worker, SyncFails(w)
    PROVE  ContentInv' /\ OfflineOK'
<1>1. /\ work'[w].pc = "idle" /\ \A v \in Worker : v # w => work'[v] = work[v]
    BY ShapeSyncFails, Zenon
<1>2. UNCHANGED <<setup, sub, counter, dir, past, offline>> /\ tmp' = tmp \ {w}
    BY Zenon DEF SyncFails, archive_terminate, copyVars
<1>3. work[w].pc = "work" BY Zenon DEF SyncFails, At
<1>4. work'[w].pc # "closed" /\ work[w].pc # "closed" /\ ~Active(w)'
    BY <1>1, <1>3 DEF Active
<1>5. WriterOK(w)' BY <1>4, IdleWriter, Zenon
<1>6. \A v \in Worker : v # w => work'[v] = work[v] /\ (v \in tmp => v \in tmp')
    BY <1>1, <1>2, Zenon
<1>7. SetupOK BY Zenon DEF ShapeInv
<1> QED BY <1>2, <1>4, <1>5, <1>6, <1>7, ContentOne, ZenonT(40)

(* An Archiver that copies a set again uses its number again. *)
LEMMA ContentRolledBack ==
    ASSUME ShapeInv, NumberInv, ContentInv, OfflineOK, NEW w \in Worker, NEW keep \in BOOLEAN,
           CopyRolledBack(w, keep), work[w].pc = "work", UNCHANGED setup,
           bent' \subseteq {"unheard"}
    PROVE  ContentInv' /\ OfflineOK'
<1>1. /\ work'[w].pc = work[w].pc /\ \A v \in Worker : v # w => work'[v] = work[v]
    BY ShapeRolledBack, Zenon
<1>2. ~Archives(w)
    BY Zenon DEF CopyRolledBack
<1>3. /\ UNCHANGED <<setup, sub, counter, dir, past, offline>>
      /\ \A v \in Worker : v # w /\ v \in tmp => v \in tmp'
    BY Zenon DEF CopyRolledBack, archive_terminate, copyVars
<1>4. work'[w].pc # "closed" /\ work[w].pc # "closed" /\ ~Active(w)'
    BY <1>1, <1>2 DEF Active, Archives
<1>5. WriterOK(w)' BY <1>4, IdleWriter, Zenon
<1>6. \A v \in Worker : v # w => work'[v] = work[v] /\ (v \in tmp => v \in tmp')
    BY <1>1, <1>3, Zenon
<1>7. SetupOK BY Zenon DEF ShapeInv
<1> QED BY <1>3, <1>4, <1>5, <1>6, <1>7, ContentOne, ZenonT(40)

(* A worker of node n is stopped; none had closed its file. *)
LEMMA ContentStopped ==
    ASSUME ShapeInv, NumberInv, ContentInv, OfflineOK, NEW n, Stopped(n),
           UNCHANGED <<copyVars, counter, dir, past, offline>>, bent' \subseteq {"unheard"}
    PROVE  ContentInv' /\ OfflineOK'
<1>1. StoppedAt(n)
    BY ShapeStopped, Zenon
<1>2. UNCHANGED <<setup, sub, counter, dir, past, offline>> /\ tmp' = tmp \ {w \in Worker : w[1] = n}
    BY Zenon DEF Stopped, archive_terminate, copyVars
<1>3. \A w \in Worker : w[1] = n => work[w].pc # "closed"
    <2>1. "lost" \notin bent' BY SMT
    <2> QED BY <2>1, Zenon DEF Stopped
<1>4. SetupOK BY Zenon DEF ShapeInv
<1>5. Worker' = Worker BY <1>2, Zenon DEF Worker, Receiver
<1>6. ASSUME NEW w \in Worker PROVE WriterOK(w)'
    <2>1. CASE w[1] = n
        <3>1. work'[w] = Idle BY <1>1, <2>1, Zenon DEF StoppedAt
        <3>2. ~Active(w)' /\ work'[w].pc # "closed" BY <3>1, IdleFacts DEF Active
        <3> QED BY <3>2, IdleWriter, Zenon
    <2>2. CASE w[1] # n
        <3>1. work'[w] = work[w] /\ (w \in tmp => w \in tmp')
            BY <1>1, <1>2, <2>2, Zenon DEF StoppedAt
        <3> QED BY <1>2, <1>4, <3>1, WriterKept, Zenon
    <2> QED BY <2>1, <2>2, Zenon
<1>7. \A w \in Worker : work[w].pc = "closed" => work'[w] = work[w]
    BY <1>1, <1>3, Zenon DEF StoppedAt
<1>8. HistoryOK'
    BY <1>2, HistoryKept, Zenon DEF ContentInv
<1>9. counter' + 1 \in Files' => \E w \in Worker : work'[w].pc = "closed"
    <2>1. counter + 1 \in Files => \E w \in Worker : work[w].pc = "closed"
        BY Zenon DEF ContentInv
    <2>2. counter' + 1 \in Files' => counter + 1 \in Files
        BY <1>2, Zenon DEF Files
    <2> QED BY <1>7, <2>1, <2>2, Zenon
<1>10. OfflineOK' BY <1>2, <1>4, <1>7, OfflineKept, Zenon
<1> QED BY <1>5, <1>6, <1>8, <1>9, <1>10, Zenon DEF ContentInv

LEMMA ContentClose ==
    ASSUME ShapeInv, NumberInv, ShipperInv, ContentInv, OfflineOK, NEW w \in Worker,
           archive_close(w)
    PROVE  ContentInv' /\ OfflineOK'
<1>1. work[w].pc = "worked" /\ Archives(w) BY ShapeClose, Zenon
<1>2. Active(w) BY <1>1 DEF Active
<1>3. w \in tmp
    <2>1. work[w].pc # "closed" BY <1>1
    <2> QED BY <1>2, <2>1, Zenon DEF ContentInv, WriterOK
<1>4. /\ work[w].counted /\ work[w].n = counter + 1
      /\ \A v \in Worker : v # w => ~Active(v) /\ work[v].pc # "closed" /\ v \notin tmp
    BY <1>2, AloneFacts, Zenon
<1>5. dir'[work[w].n] = work[w].out
    <2>1. Writing(work[w].n) = {w}
        <3>1. \A v \in tmp : v = w BY <1>4, Zenon DEF NumberInv
        <3> QED BY <1>3, <3>1, Zenon DEF Writing
    <2>2. Written(w) = {work[w].out} BY <2>1, Zenon DEF Written
    <2>3. dir'[work[w].n] \in Written(w) BY <1>3, CloseFacts, Zenon
    <2> QED BY <2>2, <2>3, Zenon
<1>6. /\ work'[w].pc = "closed" /\ work'[w].res = work[w].res /\ work'[w].out = work[w].out
      /\ work'[w].n = work[w].n /\ work'[w].counted = work[w].counted
      /\ \A v \in Worker : v # w => work'[v] = work[v]
    BY <1>3, ShapeClose, Zenon
<1>7. UNCHANGED <<setup, sub, counter, past, offline>>
    BY Zenon DEF archive_close, copyVars
<1>8. counter \in Nat /\ SetupOK BY Zenon DEF ShapeInv
<1>9. \A m \in 1 .. counter : dir'[m] = dir[m]
    <2>1. \A m \in Files : m # work[w].n => dir'[m] = dir[m]
        BY <1>3, CloseFacts, Zenon
    <2>2. \A m \in 1 .. counter : m \in Files BY Zenon DEF NumberInv
    <2>3. \A m \in 1 .. counter : m # work[w].n BY <1>4, <1>8, SMTT(30)
    <2> QED BY <2>1, <2>2, <2>3, Zenon
<1>10. HistoryOK'
    BY <1>7, <1>9, HistoryKept, Zenon DEF ContentInv
<1>11. WriterOK(w)'
    <2>1. Data(Result(w)) = AppliedTo(PastData(counter), work[w].out)
        BY <1>1, <1>2, Zenon DEF ContentInv, WriterOK
    <2>2. Result(w)' = Result(w)
        BY <1>6, <1>7, Zenon DEF Result
    <2>3. Data(Result(w))' = Data(Result(w)) BY <2>2, Zenon DEF Data
    <2>4. PastData(counter)' = PastData(counter) BY <1>7, Zenon DEF PastData
    <2>5. AppliedTo(PastData(counter), work[w].out)' = AppliedTo(PastData(counter), work[w].out)
        BY <1>6, <2>4, Zenon DEF AppliedTo
    <2> QED BY <1>4, <1>5, <1>6, <2>1, <2>3, <2>5, ZenonT(40) DEF WriterOK
<1>12. ASSUME NEW v \in Worker, v # w PROVE WriterOK(v)'
    <2>1. ~Active(v) /\ work[v].pc # "closed" /\ work'[v] = work[v]
        BY <1>4, <1>6, <1>12, Zenon
    <2>2. ~Active(v)' /\ work'[v].pc # "closed"
        BY <1>7, <2>1, Zenon DEF Active, Archives
    <2> QED BY <2>2, IdleWriter, Zenon
<1>13. OfflineOK'
    <2>1. \A v \in Worker : work[v].pc # "closed"
        <3>1. work[w].pc # "closed" BY <1>1
        <3> QED BY <1>4, <3>1, ZenonT(40)
    <2> QED BY <1>7, <1>8, <2>1, OfflineKept, ZenonT(40)
<1>14. Worker' = Worker BY <1>7, Zenon DEF Worker, Receiver
<1> QED BY <1>6, <1>10, <1>11, <1>12, <1>13, <1>14, ZenonT(40) DEF ContentInv

(* A node that is no Archiver commits. *)
LEMMA ContentCommitOther ==
    ASSUME ShapeInv, NumberInv, ContentInv, OfflineOK, NEW w \in Worker, Commit(w), ~Archives(w)
    PROVE  ContentInv' /\ OfflineOK'
<1>1. work[w].pc = "worked" BY CommittedFacts, Zenon
<1>2. /\ work'[w] = Idle /\ \A v \in Worker : v # w => work'[v] = work[v]
      /\ \A n \in Receiver : n # w[1] => sub'[n] = sub[n]
    BY CommittedFacts, Zenon
<1>3. ~work[w].counted
    BY Zenon DEF NumberInv, NumberOK, Active
<1>4. UNCHANGED <<setup, counter, tmp, dir, past, offline>>
    <2>1. Committed(w) BY CommittedFacts, Zenon
    <2> QED BY <1>3, <2>1, Zenon DEF Committed
<1>5. SetupOK BY Zenon DEF ShapeInv
<1>6. setup.archives # {} => sub'[2] = sub[2]
    <2>1. SUFFICES ASSUME setup.archives # {} PROVE sub'[2] = sub[2]
        BY Zenon
    <2>2. setup.archives = {2} /\ 2 \in Receiver BY <1>5, <2>1, Zenon DEF SetupOK
    <2>3. w[1] # 2 BY <2>2, Zenon DEF Archives
    <2> QED BY <1>2, <2>2, <2>3, Zenon
<1>7. Worker' = Worker BY <1>4, Zenon DEF Worker, Receiver
<1>8. ~Active(w)' /\ work'[w].pc # "closed"
    BY <1>2, IdleFacts, SMTT(30) DEF Active
<1>9. ASSUME NEW v \in Worker PROVE WriterOK(v)'
    <2>1. CASE v = w BY <1>8, <2>1, IdleWriter, Zenon
    <2>2. CASE v # w
        <3>1. Archives(v) => sub'[2] = sub[2] BY <1>5, <1>6, ArchiverFacts, Zenon
        <3> QED BY <1>2, <1>4, <1>5, <2>2, <3>1, WriterKept, ZenonT(40)
    <2> QED BY <2>1, <2>2, Zenon
<1>10. \A v \in Worker : work[v].pc = "closed" => work'[v] = work[v]
    <2>1. work[w].pc # "closed" BY <1>1
    <2> QED BY <1>2, <2>1, Zenon
<1>11. HistoryOK'
    BY <1>4, <1>6, HistoryKept, Zenon DEF ContentInv
<1>12. counter' + 1 \in Files' => \E v \in Worker : work'[v].pc = "closed"
    <2>1. counter + 1 \in Files => \E v \in Worker : work[v].pc = "closed"
        BY Zenon DEF ContentInv
    <2>2. counter' + 1 \in Files' => counter + 1 \in Files
        BY <1>4, Zenon DEF Files
    <2> QED BY <1>10, <2>1, <2>2, Zenon
<1>13. OfflineOK' BY <1>4, <1>5, <1>6, <1>10, OfflineKept, ZenonT(40)
<1> QED BY <1>7, <1>9, <1>11, <1>12, <1>13, ZenonT(40) DEF ContentInv

LEMMA DataType ==
    ASSUME NEW s \in Subscriber
    PROVE  Data(s) \in [rows : SUBSET Nat, other : SUBSET Nat]
<1>1. s.rows \in SUBSET Nat /\ s.other \in SUBSET Nat BY SubFields, Zenon
<1> QED BY <1>1, Zenon DEF Data

(* The archive of the transaction becomes the last of the past. *)
LEMMA PastGrows ==
    ASSUME NEW D, past \in Seq(D), NEW d \in D, Len(past) = counter, counter \in Nat,
           past' = Append(past, d), counter' = counter + 1
    PROVE  /\ past' \in Seq(D) /\ Len(past') = counter'
           /\ PastData(counter)' = d /\ (\A m : m = counter + 1 => PastData(m)' = d)
           /\ \A m \in 0 .. counter : PastData(m)' = PastData(m)
<1>1. past' \in Seq(D) /\ Len(past') = counter' /\ past'[counter + 1] = d
      /\ \A m \in 1 .. counter : past'[m] = past[m]
    OBVIOUS
<1>2. ASSUME NEW m \in 0 .. counter PROVE PastData(m)' = PastData(m)
    <2>1. m = 0 \/ m \in 1 .. counter OBVIOUS
    <2> QED BY <1>1, <2>1, Zenon DEF PastData
<1>3. counter + 1 # 0 OBVIOUS
<1>4. PastData(counter)' = d BY <1>1, <1>3, Zenon DEF PastData
<1>5. \A m : m = counter + 1 => PastData(m)' = d BY <1>1, <1>3, Zenon DEF PastData
<1> QED BY <1>1, <1>2, <1>4, <1>5, ZenonT(40)

LEMMA ContentCommit ==
    ASSUME ShapeInv, NumberInv, ShipperInv, ContentInv, OfflineOK, NEW w \in Worker, Commit(w),
           Archives(w)
    PROVE  ContentInv' /\ OfflineOK'
<1> DEFINE d == Data(Result(w))
           D == [rows : SUBSET Nat, other : SUBSET Nat]
<1>1. work[w].pc = "closed" /\ Committed(w)
      /\ work'[w] = Idle /\ \A v \in Worker : v # w => work'[v] = work[v]
    BY CommittedFacts, Zenon
<1>2. Active(w) BY <1>1 DEF Active
<1>3. /\ work[w].counted /\ work[w].n = counter + 1
      /\ \A v \in Worker : v # w => ~Active(v) /\ work[v].pc # "closed" /\ v \notin tmp
    BY <1>2, AloneFacts, Zenon
<1>4. /\ counter' = counter + 1 /\ past' = Append(past, d)
      /\ UNCHANGED <<setup, tmp, dir, offline>>
    BY <1>1, <1>3, Zenon DEF Committed
<1>5. SetupOK /\ counter \in Nat BY Zenon DEF ShapeInv
<1>6. w[1] = 2 /\ 2 \in Receiver /\ sub'[2] = Result(w)
    BY <1>5, ArchiverFacts, CommittedFacts, Zenon
<1>7. d \in D
    <2>1. Result(w) \in Subscriber BY <1>1, ResultFacts, Zenon
    <2> QED BY <2>1, DataType, Zenon
<1>8. d = AppliedTo(PastData(counter), work[w].out) /\ dir[counter + 1] = work[w].out
    BY <1>1, <1>2, <1>3, ZenonT(40) DEF ContentInv, WriterOK
<1>9. work[w].out \in File
    BY <1>1, WorkFacts, Zenon DEF WorkerStates
<1>10. Data(sub[2])' = d BY <1>6, Zenon DEF Data
<1> HIDE DEF d, D
<1>11. past \in Seq(D) /\ Len(past) = counter
    BY Zenon DEF ContentInv, HistoryOK, D
<1>12. /\ past' \in Seq(D) /\ Len(past') = counter'
       /\ PastData(counter)' = d /\ (\A m : m = counter + 1 => PastData(m)' = d)
       /\ \A m \in 0 .. counter : PastData(m)' = PastData(m)
    BY <1>4, <1>5, <1>7, <1>11, PastGrows, ZenonT(40)
<1>13. ASSUME NEW m \in 1 .. counter'
       PROVE  dir'[m] \in File /\ PastData(m)' = AppliedTo(PastData(m - 1), dir[m])'
    <2>1. CASE m = counter + 1
        <3>1. m - 1 = counter /\ counter \in 0 .. counter BY <1>5, <2>1, SMTT(30)
        <3>2. PastData(m - 1)' = PastData(counter)
            <4>1. m - 1 \in 0 .. counter BY <3>1, Zenon
            <4>2. PastData(m - 1)' = PastData(m - 1) BY <1>12, <4>1, Zenon
            <4> QED BY <3>1, <4>2, Zenon
        <3>3. dir'[m] = work[w].out BY <1>4, <1>8, <2>1, Zenon
        <3>4. AppliedTo(PastData(m - 1), dir[m])' = AppliedTo(PastData(counter), work[w].out)
            BY <3>2, <3>3, Zenon DEF AppliedTo
        <3>5. PastData(m)' = d BY <1>12, <2>1, Zenon
        <3> QED BY <1>8, <1>9, <3>3, <3>4, <3>5, ZenonT(40)
    <2>2. CASE m # counter + 1
        <3>1. m \in 1 .. counter /\ m - 1 \in 0 .. counter /\ m \in 0 .. counter
            BY <1>4, <1>5, <2>2, SMTT(30)
        <3>2. dir[m] \in File /\ PastData(m) = AppliedTo(PastData(m - 1), dir[m])
            BY <3>1, Zenon DEF ContentInv, HistoryOK
        <3>3. PastData(m)' = PastData(m) /\ PastData(m - 1)' = PastData(m - 1)
            BY <1>12, <3>1, Zenon
        <3>4. AppliedTo(PastData(m - 1), dir[m])' = AppliedTo(PastData(m - 1), dir[m])
            BY <1>4, <3>3, Zenon DEF AppliedTo
        <3> QED BY <1>4, <3>2, <3>3, <3>4, Zenon
    <2> QED BY <2>1, <2>2, Zenon
<1>14. HistoryOK'
    BY <1>10, <1>12, <1>13, ZenonT(40) DEF HistoryOK, D
<1>15. \A v \in Worker : ~Active(v)' /\ work'[v].pc # "closed"
    <2>1. ~Active(w)' /\ work'[w].pc # "closed" BY <1>1, IdleFacts, SMTT(30) DEF Active
    <2>2. \A v \in Worker : v # w => ~Active(v)' /\ work'[v].pc # "closed"
        BY <1>1, <1>3, <1>4, Zenon DEF Active, Archives
    <2> QED BY <2>1, <2>2, Zenon
<1>16. \A v \in Worker : WriterOK(v)' BY <1>15, IdleWriter, Zenon
<1>17. counter' + 1 \notin Files'
    <2>1. Files' \subseteq 1 .. counter + 1 BY <1>4, Zenon DEF NumberInv, Files
    <2> QED BY <1>4, <1>5, <2>1, SMTT(30)
<1>18. Worker' = Worker BY <1>4, Zenon DEF Worker, Receiver
<1>19. OfflineOK'
    <2>1. offline.at \in 0 .. counter + 1 BY ShipFields, Zenon
    <2>2. offline'.at <= counter' BY <1>4, <1>5, <2>1, SMTT(30)
    <2>3. Data(offline)' = Data(offline) BY <1>4, Zenon DEF Data
    <2>4. Data(offline)' = PastData(offline.at)'
        <3>1. CASE offline.at <= counter
            <4>1. offline.at \in 0 .. counter BY <1>5, <2>1, <3>1, SMTT(30)
            <4>2. \A m \in 0 .. counter : m = offline.at => PastData(m)' = Data(offline)
                BY <1>12, <3>1, Zenon DEF OfflineOK
            <4>3. PastData(offline.at)' = Data(offline)
                <5>1. PICK m \in 0 .. counter : m = offline.at BY <4>1, Zenon
                <5>2. PastData(m)' = Data(offline) BY <4>2, <5>1, Zenon
                <5>3. offline'.at = m BY <1>4, <5>1, Zenon
                <5> QED BY <5>2, <5>3, Zenon DEF PastData
            <4> QED BY <2>3, <4>3, Zenon
        <3>2. CASE ~(offline.at <= counter)
            <4>1. PICK v \in Worker : /\ work[v].pc = "closed"
                                      /\ Data(offline) = Data(Result(v))
                BY <3>2, Zenon DEF OfflineOK
            <4>2. v = w BY <1>3, <4>1, Zenon
            <4>3. Data(offline) = d BY <4>1, <4>2, Zenon DEF d
            <4>4. offline'.at = counter' BY <1>4, <1>5, <2>1, <3>2, SMTT(30)
            <4>5. PastData(offline.at)' = d BY <1>12, <4>4, Zenon DEF PastData
            <4> QED BY <2>3, <4>3, <4>5, Zenon
        <3> QED BY <3>1, <3>2, Zenon
    <2> QED BY <2>2, <2>4, Zenon DEF OfflineOK
<1> QED BY <1>14, <1>16, <1>17, <1>18, <1>19, ZenonT(40) DEF ContentInv

LEMMA ContentStays ==
    ASSUME SetupOK, NumberInv, ContentInv, UNCHANGED <<setup, sub, work, counter, tmp, dir, past>>
    PROVE  ContentInv'
<1>1. Worker' = Worker BY Zenon DEF Worker, Receiver
<1>2. HistoryOK' BY HistoryKept, Zenon DEF ContentInv
<1>3. \A w \in Worker : WriterOK(w)' BY WriterKept, Zenon
<1>4. counter' + 1 \in Files' => \E w \in Worker : work'[w].pc = "closed"
    BY Zenon DEF ContentInv, Files
<1> QED BY <1>1, <1>2, <1>3, <1>4, ZenonT(40) DEF ContentInv

(* The daemon applies the next archive: the offline database then is where the
   Archiver was, or is about to be, with that archive. *)
LEMMA ContentProcess ==
    ASSUME ShapeInv, NumberInv, ShipperInv, ContentInv, OfflineOK, process_archive
    PROVE  ContentInv' /\ OfflineOK'
<1>1. UNCHANGED <<setup, sub, work, counter, tmp, dir, past>>
    BY ProcessFacts, Zenon DEF copyVars
<1>2. SetupOK /\ counter \in Nat BY Zenon DEF ShapeInv
<1>3. ContentInv' BY <1>1, <1>2, ContentStays, ZenonT(40)
<1>4. CASE UNCHANGED offline
    BY <1>1, <1>2, <1>3, <1>4, OfflineKept, ZenonT(40)
<1>5. CASE /\ offline.at + 1 \in Files /\ dir[offline.at + 1] \in File
           /\ offline' = Applied(dir[offline.at + 1])
    <2> DEFINE f == dir[offline.at + 1]
    <2>1. offline.at \in 0 .. counter + 1 /\ offline.at + 1 \in 1 .. counter + 1
        BY <1>5, ShipFields, ZenonT(40) DEF NumberInv
    <2>2. offline.at <= counter BY <1>2, <2>1, SMTT(30)
    <2>3. Data(offline) = PastData(offline.at) BY <2>2, Zenon DEF OfflineOK
    <2>4. /\ Applied(f).at = offline.at + 1
          /\ Data(Applied(f)) = AppliedTo(PastData(offline.at), f)
        BY <1>5, <2>3, AppliedFacts, ZenonT(40)
    <2>5. offline'.at = offline.at + 1 /\ Data(offline)' = AppliedTo(PastData(offline.at), f)
        BY <1>5, <2>4, Zenon DEF Data
    <2> HIDE DEF f
    <2>6. CASE offline.at = counter
        <3>1. PICK w \in Worker : work[w].pc = "closed"
            BY <1>5, <2>6, ZenonT(40) DEF ContentInv
        <3>2. Archives(w) BY <3>1, ZenonT(40) DEF NumberInv, NumberOK
        <3>3. Active(w) BY <3>1, <3>2, SMTT(30) DEF Active
        <3>4. work[w].n = counter + 1 BY <3>3, AloneFacts, Zenon
        <3>5. f = work[w].out BY <2>6, <3>1, <3>4, ZenonT(40) DEF ContentInv, WriterOK, f
        <3>6. Data(Result(w)) = AppliedTo(PastData(counter), work[w].out)
            BY <3>1, <3>3, ZenonT(40) DEF ContentInv, WriterOK
        <3>7. Data(offline)' = Data(Result(w)) BY <2>5, <2>6, <3>5, <3>6, ZenonT(40)
        <3>8. Data(Result(w))' = Data(Result(w)) BY <1>1, Zenon DEF Data, Result
        <3>9. work'[w].pc = "closed" /\ work'[w].n = offline'.at
            BY <1>1, <2>5, <2>6, <3>1, <3>4, ZenonT(40)
        <3>10. ~(offline'.at <= counter') BY <1>1, <1>2, <2>5, <2>6, SMTT(30)
        <3>11. Worker' = Worker BY <1>1, Zenon DEF Worker, Receiver
        <3> QED BY <1>3, <3>7, <3>8, <3>9, <3>10, <3>11, ZenonT(40) DEF OfflineOK
    <2>7. CASE offline.at # counter
        <3> DEFINE m == offline.at + 1
        <3>1. m \in 1 .. counter /\ m - 1 = offline.at /\ m <= counter BY <1>2, <2>1, <2>2, <2>7, SMTT(30)
        <3>2. PastData(m) = AppliedTo(PastData(m - 1), dir[m])
            BY <3>1, Zenon DEF ContentInv, HistoryOK
        <3>3. PastData(m) = AppliedTo(PastData(offline.at), f)
            BY <3>1, <3>2, Zenon DEF f
        <3>4. offline'.at = m BY <2>5, Zenon
        <3> HIDE DEF m
        <3>5. PastData(offline.at)' = PastData(m) BY <1>1, <3>4, Zenon DEF PastData
        <3>6. offline'.at <= counter' BY <1>1, <3>1, <3>4, ZenonT(40)
        <3> QED BY <1>3, <2>5, <3>3, <3>5, <3>6, ZenonT(40) DEF OfflineOK
    <2> QED BY <2>6, <2>7, Zenon
<1> QED BY <1>3, <1>4, <1>5, ProcessFacts, ZenonT(40)

LEMMA ContentInit == AnyInit => ContentInv /\ OfflineOK
<1> SUFFICES ASSUME AnyInit PROVE ContentInv /\ OfflineOK
    OBVIOUS
<1>1. PICK syncs \in Nat : InitWith(setup, syncs)
    BY Zenon DEF AnyInit
<1>2. /\ work = [w \in Worker |-> Idle] /\ counter = 0 /\ dir = <<>> /\ past = <<>>
      /\ offline = [rows |-> {}, other |-> {}, at |-> 0]
      /\ sub = [n \in Receiver |-> NewSubscriber(syncs)]
    BY <1>1, Zenon DEF InitWith, Receiver
<1>3. \A w \in Worker : work[w].pc = "idle" /\ work[w].pc # "closed"
    BY <1>2, IdleFacts, SMTT(30)
<1>4. \A w \in Worker : WriterOK(w)
    BY <1>3, Zenon DEF WriterOK, Active
<1>5. Files = {} BY <1>2 DEF Files
<1>6. setup.archives # {} => Data(sub[2]) = PastData(counter)
    <2>1. setup.archives # {} => 2 \in Receiver
        BY Zenon DEF AnyInit, SetupOK
    <2>2. 2 \in Receiver => Data(sub[2]) = [rows |-> {}, other |-> {}]
        BY <1>2, Zenon DEF Data, NewSubscriber
    <2>3. PastData(counter) = [rows |-> {}, other |-> {}]
        BY <1>2, Zenon DEF PastData
    <2> QED BY <2>1, <2>2, <2>3, ZenonT(40)
<1>7. past \in Seq([rows : SUBSET Nat, other : SUBSET Nat]) /\ Len(past) = counter
      /\ 1 .. counter = {}
    BY <1>2
<1>8. HistoryOK BY <1>6, <1>7, Zenon DEF HistoryOK
<1>9. offline.at = 0 /\ Data(offline) = [rows |-> {}, other |-> {}]
    BY <1>2 DEF Data
<1>10. offline.at <= counter /\ PastData(offline.at) = Data(offline)
    BY <1>2, <1>9, SMTT(30) DEF PastData
<1> QED BY <1>4, <1>5, <1>8, <1>10, ZenonT(40) DEF ContentInv, OfflineOK

LEMMA ContentWorkerStep ==
    ASSUME ShapeInv, NumberInv, ShipperInv, ContentInv, OfflineOK, NEW w \in Worker,
           WorkerStep(w) \/ WorkerFault(w), bent' \subseteq {"unheard"}
    PROVE  ContentInv' /\ OfflineOK'
<1>1. CASE Begin(w) BY <1>1, ContentBegin, Zenon
<1>2. CASE DoSync(w) \/ DoOther(w) \/ DoEnableOther(w) \/ DoCopy(w) BY <1>2, ContentWork, Zenon
<1>3. CASE CopyTooEarly(w) \/ CopyWaits(w) \/ CopyFails(w)
    <2>1. PICK keep \in BOOLEAN : CopyRolledBack(w, keep)
        BY <1>3, Zenon DEF CopyTooEarly, CopyWaits, CopyFails
    <2>2. work[w].pc = "work"
        BY <1>3, Zenon DEF CopyTooEarly, CopyWaits, CopyFails, Copying, At
    <2>3. UNCHANGED setup BY <2>1, Zenon DEF CopyRolledBack, copyVars
    <2> QED BY <2>1, <2>2, <2>3, ContentRolledBack, ZenonT(40)
<1>4. CASE archive_close(w) BY <1>4, ContentClose, Zenon
<1>5. CASE Commit(w) BY <1>5, ContentCommit, ContentCommitOther, ZenonT(40)
<1>6. CASE SyncFails(w) BY <1>6, ContentSyncFails, Zenon
<1> QED BY <1>1, <1>2, <1>3, <1>4, <1>5, <1>6, ZenonT(40) DEF WorkerStep, WorkerFault

(* What is known of the archives is never forgotten. *)
LEMMA BentGrows ==
    ASSUME [Next]_vars, bent' \subseteq {"unheard"}
    PROVE  bent \subseteq {"unheard"}
<1>1. CASE OriginStep /\ UNCHANGED shipVars BY <1>1, Zenon DEF shipVars
<1>2. CASE \E w \in Worker : WorkerStep(w) \/ WorkerFault(w)
    <2>1. PICK w \in Worker : WorkerStep(w) \/ WorkerFault(w) BY <1>2, Zenon
    <2>2. CASE Begin(w) \/ SyncFails(w) BY <2>2, Zenon DEF Begin, SyncFails
    <2>3. CASE DoSync(w) \/ DoOther(w) \/ DoEnableOther(w) \/ DoCopy(w)
        <3>1. \E t, f : Worked(w, t, f)
            BY <2>3, Zenon DEF DoSync, DoOther, DoEnableOther, DoCopy
        <3> QED BY <3>1, Zenon DEF Worked
    <2>4. CASE CopyTooEarly(w) \/ CopyWaits(w) \/ CopyFails(w)
        <3>1. \E keep : CopyRolledBack(w, keep)
            BY <2>4, Zenon DEF CopyTooEarly, CopyWaits, CopyFails
        <3> QED BY <3>1, Zenon DEF CopyRolledBack
    <2>5. CASE archive_close(w)
        BY <2>5, Zenon DEF archive_close, CallShipper, Stopped
    <2>6. CASE Commit(w) BY <2>6, Zenon DEF Commit, Committed
    <2> QED BY <2>1, <2>2, <2>3, <2>4, <2>5, <2>6, ZenonT(40) DEF WorkerStep, WorkerFault
<1>3. CASE \E n \in Receiver : RestartSlon(n)
    BY <1>3, Zenon DEF RestartSlon, Stopped
<1>4. CASE ShipperStep \/ ipc_finish \/ KillShipper
    BY <1>4, ShipperFacts, Zenon DEF ShipperStays
<1>5. CASE UNCHANGED vars BY <1>5, Zenon DEF vars, shipVars
<1> QED BY <1>1, <1>2, <1>3, <1>4, <1>5, ZenonT(40) DEF Next

LEMMA ContentNext ==
    ASSUME ShapeInv, NumberInv, ShipperInv, ContentInv, OfflineOK, [Next]_vars,
           bent' \subseteq {"unheard"}
    PROVE  ContentInv' /\ OfflineOK'
<1>1. SetupOK BY Zenon DEF ShapeInv
<1>2. ASSUME UNCHANGED <<setup, sub, work, counter, tmp, dir, past, offline>>
      PROVE  ContentInv' /\ OfflineOK'
    <2>1. ContentInv' BY <1>1, <1>2, ContentStays, ZenonT(40)
    <2>2. OfflineOK' BY <1>1, <1>2, OfflineKept, ZenonT(40)
    <2> QED BY <2>1, <2>2, Zenon
<1>3. CASE OriginStep /\ UNCHANGED shipVars
    <2>1. UNCHANGED <<setup, sub, work, counter, tmp, dir, past, offline>>
        BY <1>3, OriginKeeps, Zenon DEF shipVars
    <2> QED BY <1>2, <2>1, Zenon
<1>4. CASE \E w \in Worker : WorkerStep(w) \/ WorkerFault(w)
    BY <1>4, ContentWorkerStep, Zenon
<1>5. CASE \E n \in Receiver : RestartSlon(n)
    BY <1>5, ContentStopped, Zenon DEF RestartSlon
<1>6. CASE process_archive
    BY <1>6, ContentProcess, ZenonT(40)
<1>7. CASE \/ StartShipper \/ Rescan \/ ResumeShipper \/ ipc_cleanup \/ ipc_finish \/ KillShipper
    <2>1. UNCHANGED <<setup, sub, work, counter, tmp, dir, past, offline>>
        BY <1>7, DaemonFacts, ZenonT(40) DEF copyVars
    <2> QED BY <1>2, <2>1, Zenon
<1>8. CASE UNCHANGED vars
    <2>1. UNCHANGED <<setup, sub, work, counter, tmp, dir, past, offline>>
        BY <1>8, Zenon DEF vars, copyVars, shipVars
    <2> QED BY <1>2, <2>1, Zenon
<1> QED BY <1>3, <1>4, <1>5, <1>6, <1>7, <1>8, ZenonT(40) DEF Next, ShipperStep

LEMMA ArchiveNext == ShapeInv /\ ArchiveInv /\ [Next]_vars => ArchiveInv'
<1> SUFFICES ASSUME ShapeInv, ArchiveInv, [Next]_vars PROVE ArchiveInv'
    OBVIOUS
<1>1. NumberInv /\ ShipperInv BY Zenon DEF ArchiveInv
<1>2. NumberInv' BY <1>1, NumberNext, Zenon
<1>3. ShipperInv' BY <1>1, ShipperNext, Zenon
<1>4. ASSUME bent' \subseteq {"unheard"} PROVE ContentInv' /\ OfflineOK'
    <2>1. ContentInv /\ OfflineOK BY <1>4, BentGrows, Zenon DEF ArchiveInv
    <2> QED BY <1>1, <1>4, <2>1, ContentNext, ZenonT(40)
<1> QED BY <1>2, <1>3, <1>4, ZenonT(40) DEF ArchiveInv

(* The inductive invariant of the archives, whatever the cluster and whatever
   faults happen: numbers are given out under the row lock of
   sl_archive_counter, a file has its name before its number is used up, and
   as long as no number is used twice each archive leads from one state of the
   Archiver to the next. *)
THEOREM ArchiveInvariant == ShippingSpec => [](ShapeInv /\ ArchiveInv)
<1>1. AnyInit => ShapeInv /\ ArchiveInv
    BY ShapeInit, NumberInit, ShipperInit, ContentInit, ZenonT(40) DEF ArchiveInv
<1>2. (ShapeInv /\ ArchiveInv) /\ [Next]_vars => (ShapeInv /\ ArchiveInv)'
    BY ShapeNext, ArchiveNext, Zenon
<1> QED BY <1>1, <1>2, PTL DEF ShippingSpec

(* slony_logshipper applies the archives one after the other: the offline
   database is where the Archiver was, or is about to be, with the archive it
   took last - unless an archive number was used twice. *)
THEOREM OfflineCorrect == ShippingSpec => []OfflineFollows
<1>1. ArchiveInv => OfflineFollows
    BY Zenon DEF ArchiveInv, OfflineOK, OfflineFollows
<1> QED BY <1>1, ArchiveInvariant, PTL
=============================================================================
