------------------------- MODULE ShippingTypeProofs -------------------------
(***************************************************************************)
(* The types of SetCopy and LogShipping: ShapeInv is an invariant of any   *)
(* cluster, and what each step makes of the state of a worker.  With it    *)
(* what the proofs about the copy of a set need of sequences, ranges and   *)
(* snapshots: the compressed action list covers exactly the listed rows.   *)
(***************************************************************************)
EXTENDS LogShippingInv, TLAPS
LOCAL INSTANCE WellFoundedInduction

(* A set of naturals has a least element. *)
LEMMA LeastOf ==
    ASSUME NEW T \in SUBSET Nat, T # {}
    PROVE  \E m \in T : \A t \in T : m <= t
<1>1. \E m \in T : \A t \in T : ~(t < m)
    <2> DEFINE R == OpToRel(<, Nat)
    <2>1. PICK m \in T : \A t \in T : ~(<<t, m>> \in R)
        BY NatLessThanWellFounded, WFMin, Zenon
    <2>2. \A t \in T : ~(t < m)
        BY <2>1, Zenon DEF OpToRel
    <2> HIDE DEF R
    <2> QED BY <2>2, Zenon
<1> QED BY <1>1

(* The recursive definition of Ranges defines something: the ranges of a
   longer list extend those of a shorter one. *)
Stage(g, list, m) ==
    g = [i \in 0 .. m |-> IF i = 0 THEN [min |-> -1, max |-> -1, closed |-> {}]
                          ELSE Folded(g[i - 1], list[i])]

LEMMA StageExists ==
    ASSUME NEW list \in Seq(Nat), NEW m \in Nat
    PROVE  \E g : Stage(g, list, m)
<1> DEFINE T == {i \in Nat : ~\E g : Stage(g, list, i)}
<1>1. SUFFICES ASSUME T # {} PROVE FALSE
    BY <1>1, Zenon
<1>2. PICK i \in T : \A t \in T : i <= t
    BY <1>1, LeastOf, Zenon
<1>3. i # 0
    <2> DEFINE f == [j \in 0 .. 0 |-> [min |-> -1, max |-> -1, closed |-> {}]]
    <2>1. Stage(f, list, 0)
        BY DEF Stage
    <2> QED BY <1>2, <2>1, Zenon
<1>4. i - 1 \in Nat /\ i - 1 \notin T /\ i \in Nat
    BY <1>2, <1>3
<1>5. PICK g : Stage(g, list, i - 1)
    BY <1>4, Zenon
<1> DEFINE h == [j \in 0 .. i |-> IF j = i THEN Folded(g[i - 1], list[i]) ELSE g[j]]
<1>6. Stage(h, list, i)
    <2> HIDE DEF T
    <2>1. \A j \in 0 .. i - 1 : h[j] = g[j]
        BY <1>4
    <2>2. \A j \in 0 .. i : h[j] = IF j = 0 THEN [min |-> -1, max |-> -1, closed |-> {}]
                                   ELSE Folded(h[j - 1], list[j])
        <3> TAKE j \in 0 .. i
        <3>1. CASE j = i
            BY <3>1, <1>4, <1>3, <2>1
        <3>2. CASE j # i
            <4>1. j \in 0 .. i - 1 /\ (j # 0 => j - 1 \in 0 .. i - 1)
                BY <3>2, <1>4
            <4>2. g[j] = IF j = 0 THEN [min |-> -1, max |-> -1, closed |-> {}]
                         ELSE Folded(g[j - 1], list[j])
                BY <1>5, <4>1, Zenon DEF Stage
            <4> HIDE DEF h
            <4> QED BY <4>1, <4>2, <2>1, Zenon
        <3> HIDE DEF h
        <3> QED BY <3>1, <3>2, Zenon
    <2> QED BY <2>2 DEF Stage
<1> QED BY <1>2, <1>6, Zenon

LEMMA RangesDef ==
    ASSUME NEW list \in Seq(Nat)
    PROVE  Stage(Ranges(list), list, Len(list))
<1>1. Len(list) \in Nat OBVIOUS
<1>2. \E g : Stage(g, list, Len(list))
    BY <1>1, StageExists, Zenon
<1> QED BY <1>2, Zenon DEF Ranges, Stage

(* The numbers that ranges cover: after each number of the list, the ones that
   came so far. *)
Covered(r) ==
    {a \in Nat : \/ r.min <= a /\ a <= r.max
                \/ \E c \in r.closed : c[1] <= a /\ a <= c[2]}

Grown == [min : Nat, max : Nat, closed : SUBSET (Nat \X Nat)]

LEMMA FoldedCovers ==
    ASSUME NEW r \in Grown, r.min <= r.max, NEW a \in Nat
    PROVE  /\ Folded(r, a) \in Grown
           /\ Folded(r, a).min <= Folded(r, a).max
           /\ Covered(Folded(r, a)) = Covered(r) \cup {a}
<1> DEFINE lo == IF a = r.min - 1 THEN a ELSE r.min
           hi == IF a = r.max + 1 THEN a ELSE r.max
<1>1. /\ r.min \in Nat /\ r.max \in Nat /\ r.closed \in SUBSET (Nat \X Nat)
      /\ r.min # -1 /\ r.max # -1
    BY DEF Grown
<1>2. /\ lo \in Nat /\ hi \in Nat /\ lo <= hi
      /\ a < lo - 1 \/ a > hi + 1 => lo = r.min /\ hi = r.max
      /\ ~(a < lo - 1 \/ a > hi + 1) =>
             \A b \in Nat : lo <= b /\ b <= hi <=> (r.min <= b /\ b <= r.max) \/ b = a
    BY <1>1
<1>3. Folded(r, a) = IF a < lo - 1 \/ a > hi + 1
                     THEN [min |-> a, max |-> a, closed |-> r.closed \cup {<<lo, hi>>}]
                     ELSE [min |-> lo, max |-> hi, closed |-> r.closed]
    BY <1>1, Zenon DEF Folded
<1> HIDE DEF lo, hi
<1>4. CASE a < lo - 1 \/ a > hi + 1
    <2>1. Folded(r, a) = [min |-> a, max |-> a, closed |-> r.closed \cup {<<lo, hi>>}]
        BY <1>3, <1>4, Zenon
    <2>2. Folded(r, a).min = a /\ Folded(r, a).max = a
          /\ Folded(r, a).closed = r.closed \cup {<<lo, hi>>}
        BY <2>1
    <2>3. Folded(r, a) \in Grown /\ Folded(r, a).min <= Folded(r, a).max
        BY <2>1, <1>1, <1>2 DEF Grown
    <2>4. \A b \in Nat : (a <= b /\ b <= a) <=> b = a
        OBVIOUS
    <2>5. lo = r.min /\ hi = r.max
        BY <1>2, <1>4, Zenon
    <2>6. \A b \in Nat : b \in Covered(Folded(r, a)) <=> b \in Covered(r) \/ b = a
        <3> TAKE b \in Nat
        <3>1. b \in Covered(Folded(r, a)) <=>
                \/ a <= b /\ b <= a
                \/ \E c \in r.closed \cup {<<lo, hi>>} : c[1] <= b /\ b <= c[2]
            BY <2>2, Zenon DEF Covered
        <3>2. b \in Covered(r) <=> \/ lo <= b /\ b <= hi
                                  \/ \E c \in r.closed : c[1] <= b /\ b <= c[2]
            BY <2>5, Zenon DEF Covered
        <3>3. <<lo, hi>>[1] = lo /\ <<lo, hi>>[2] = hi
            OBVIOUS
        <3> QED BY <3>1, <3>2, <3>3, <2>4, Zenon
    <2>7. Covered(Folded(r, a)) = Covered(r) \cup {a}
        BY <2>6, Zenon DEF Covered
    <2> QED BY <2>3, <2>7, Zenon
<1>5. CASE ~(a < lo - 1 \/ a > hi + 1)
    <2>1. Folded(r, a) = [min |-> lo, max |-> hi, closed |-> r.closed]
        BY <1>3, <1>5, Zenon
    <2>2. Folded(r, a).min = lo /\ Folded(r, a).max = hi /\ Folded(r, a).closed = r.closed
        BY <2>1
    <2>3. Folded(r, a) \in Grown /\ Folded(r, a).min <= Folded(r, a).max
        BY <2>1, <1>1, <1>2 DEF Grown
    <2>4. \A b \in Nat : b \in Covered(Folded(r, a)) <=> b \in Covered(r) \/ b = a
        BY <2>2, <1>2, <1>5, Zenon DEF Covered
    <2>5. Covered(Folded(r, a)) = Covered(r) \cup {a}
        BY <2>4, Zenon DEF Covered
    <2> QED BY <2>3, <2>5, Zenon
<1> QED BY <1>4, <1>5, Zenon

LEMMA RangesCover ==
    ASSUME NEW list \in Seq(Nat), NEW m \in 1 .. Len(list)
    PROVE  /\ Ranges(list)[m] \in Grown /\ Ranges(list)[m].min <= Ranges(list)[m].max
           /\ Covered(Ranges(list)[m]) = {list[j] : j \in 1 .. m}
<1> DEFINE r == Ranges(list)
           Good(i) == /\ r[i] \in Grown /\ r[i].min <= r[i].max
                      /\ Covered(r[i]) = {list[j] : j \in 1 .. i}
           T == {i \in 1 .. Len(list) : ~Good(i)}
<1>0. Len(list) \in Nat /\ \A i \in 1 .. Len(list) : list[i] \in Nat
    OBVIOUS
<1>1. r = [i \in 0 .. Len(list) |-> IF i = 0 THEN [min |-> -1, max |-> -1, closed |-> {}]
                                     ELSE Folded(r[i - 1], list[i])]
    BY RangesDef, Zenon DEF Stage
<1> HIDE DEF r
<1>2. r[0] = [min |-> -1, max |-> -1, closed |-> {}]
    BY <1>0, <1>1
<1>3. \A i \in 1 .. Len(list) : r[i] = Folded(r[i - 1], list[i])
    <2> TAKE i \in 1 .. Len(list)
    <2>1. i \in 0 .. Len(list) /\ i # 0 BY <1>0
    <2> QED BY <1>1, <2>1, Zenon
<1>4. T = {}
    <2>1. SUFFICES ASSUME T # {} PROVE FALSE
        BY <2>1, Zenon
    <2>2. T \in SUBSET Nat
        BY <1>0
    <2>3. PICK i \in T : \A t \in T : i <= t
        BY <2>1, <2>2, LeastOf, Zenon
    <2>4. i \in 1 .. Len(list) /\ ~Good(i) /\ list[i] \in Nat
        BY <2>3, <1>0, Zenon
    <2>5. CASE i = 1
        <3>1. list[1] \in Nat BY <2>4, <2>5, Zenon
        <3>2. r[1] = [min |-> list[1], max |-> list[1], closed |-> {}]
            <4> DEFINE new == [min |-> -1, max |-> -1, closed |-> {}]
            <4>1. 1 - 1 = 0 OBVIOUS
            <4>2. r[1] = Folded(new, list[1])
                BY <1>2, <1>3, <2>4, <2>5, <4>1, Zenon
            <4>3. Folded(new, list[1]) = [min |-> list[1], max |-> list[1], closed |-> {}]
                BY <3>1 DEF Folded
            <4> QED BY <4>2, <4>3, Zenon
        <3>3. r[1].min = list[1] /\ r[1].max = list[1] /\ r[1].closed = {}
            BY <3>2
        <3>4. r[1] \in Grown /\ r[1].min <= r[1].max
            BY <3>1, <3>2 DEF Grown
        <3>5. \A b \in Nat : (list[1] <= b /\ b <= list[1]) <=> b = list[1]
            BY <3>1
        <3>6. Covered(r[1]) = {list[1]}
            BY <3>1, <3>3, <3>5, Zenon DEF Covered
        <3>7. {list[j] : j \in 1 .. 1} = {list[1]}
            OBVIOUS
        <3> QED BY <2>4, <2>5, <3>4, <3>6, <3>7, Zenon
    <2>6. CASE i # 1
        <3>1. i - 1 \in 1 .. Len(list) /\ ~(i <= i - 1)
            BY <2>4, <2>6, <1>0
        <3>2. Good(i - 1)
            BY <2>3, <3>1, Zenon
        <3>3. r[i] = Folded(r[i - 1], list[i])
            BY <1>3, <2>4, Zenon
        <3>4. /\ r[i] \in Grown /\ r[i].min <= r[i].max
              /\ Covered(r[i]) = {list[j] : j \in 1 .. i - 1} \cup {list[i]}
            BY <3>2, <3>3, <2>4, FoldedCovers, Zenon
        <3>5. {list[j] : j \in 1 .. i - 1} \cup {list[i]} = {list[j] : j \in 1 .. i}
            BY <2>4, <1>0, <3>1, SMTT(30)
        <3> QED BY <2>4, <3>4, <3>5, Zenon
    <2> QED BY <2>5, <2>6, Zenon
<1>5. Good(m) BY <1>4, Zenon
<1> QED BY <1>5, Zenon DEF r

(* The ranges of compress_actionseq() hold the numbers of the list and no
   other: no row of a SYNC is filtered out that is not in the list. *)
THEOREM CompressIsExact ==
    ASSUME NEW list \in Seq(Nat), NEW a \in Nat
    PROVE  Excluded(list, a) <=> a \in Range(list)
<1>1. Range(list) = {list[j] : j \in 1 .. Len(list)} /\ (list = <<>> <=> Len(list) = 0)
      /\ Len(list) \in Nat
    BY DEF Range
<1>2. CASE list = <<>>
    BY <1>1, <1>2 DEF Excluded
<1>3. CASE list # <<>>
    <2> DEFINE r == Ranges(list)[Len(list)]
    <2>1. Len(list) \in 1 .. Len(list)
        BY <1>1, <1>3
    <2>2. Covered(r) = Range(list)
        BY <2>1, <1>1, RangesCover, Zenon
    <2>3. Excluded(list, a) <=> \E c \in r.closed \cup {<<r.min, r.max>>} : c[1] <= a /\ a <= c[2]
        BY <1>3, Zenon DEF Excluded, compress_actionseq
    <2>4. a \in Covered(r) <=> \E c \in r.closed \cup {<<r.min, r.max>>} : c[1] <= a /\ a <= c[2]
        <3>1. <<r.min, r.max>>[1] = r.min /\ <<r.min, r.max>>[2] = r.max
            OBVIOUS
        <3> QED BY <3>1, Zenon DEF Covered
    <2> QED BY <2>2, <2>3, <2>4, Zenon
<1> QED BY <1>2, <1>3, Zenon

-----------------------------------------------------------------------------
(* Snapshots.                                                              *)

LEMMA MinOf ==
    ASSUME NEW T \in SUBSET Nat, T # {}
    PROVE  Min(T) \in T /\ \A t \in T : Min(T) <= t
BY LeastOf, Zenon DEF Min

LEMMA MaxOf ==
    ASSUME NEW N \in Nat, NEW T \in SUBSET (0 .. N), T # {}
    PROVE  Max(T) \in T /\ \A t \in T : Max(T) >= t
<1> DEFINE U == {u \in Nat : N - u \in T}
<1>1. U \in SUBSET Nat /\ U # {}
    <2>1. PICK t \in T : TRUE BY Zenon
    <2>2. N - t \in Nat /\ N - (N - t) = t OBVIOUS
    <2> QED BY <2>1, <2>2, Zenon
<1>2. PICK u \in U : \A v \in U : u <= v BY <1>1, LeastOf, Zenon
<1>3. \A t \in T : N - u >= t
    <2> TAKE t \in T
    <2>1. N - t \in Nat /\ N - (N - t) = t OBVIOUS
    <2>2. u <= N - t BY <1>2, <2>1, Zenon
    <2> QED BY <1>2, <2>2
<1> QED BY <1>2, <1>3, Zenon DEF Max

LEMMA SnapFields ==
    ASSUME NEW s \in Snap
    PROVE  s.xmin \in Nat /\ s.xmax \in Nat /\ s.xip \in SUBSET Nat
BY DEF Snap

(* txid_current_snapshot(): a snapshot sees exactly what is committed, and so
   all that an earlier one sees. *)
LEMMA SnapshotFacts ==
    ASSUME xact \in Seq({"open", "done"})
    PROVE  /\ Snapshot \in Snap
           /\ \A x \in DOMAIN xact : Visible(x, Snapshot) <=> xact[x] = "done"
           /\ SnapOK(Snapshot)
           /\ \A s : SnapOK(s) => Before(s, Snapshot)
<1> DEFINE D == {0} \cup (DOMAIN xact \ Running)
           xmax == Max(D) + 1
           xip == {x \in Running : x < xmax}
<1>1. /\ Len(xact) \in Nat /\ DOMAIN xact = 1 .. Len(xact)
      /\ \A x \in DOMAIN xact : xact[x] \in {"open", "done"}
    OBVIOUS
<1>2. D \in SUBSET (0 .. Len(xact)) /\ D # {}
    BY <1>1
<1>3. Max(D) \in D /\ \A t \in D : Max(D) >= t
    BY <1>1, <1>2, MaxOf, Zenon
<1>5. \A x \in DOMAIN xact : x \in D <=> xact[x] = "done"
    BY <1>1 DEF Running
<1>a. \A t \in D : t = 0 \/ t \in DOMAIN xact
    BY Zenon
<1>b. Running \subseteq 1 .. Len(xact)
    BY <1>1, Zenon DEF Running
<1> HIDE DEF D
<1>4. xmax \in 1 .. Len(xact) + 1 /\ \A t \in D : t < xmax
    <2>1. Max(D) \in 0 .. Len(xact) /\ \A t \in D : t \in 0 .. Len(xact)
        BY <1>2, <1>3, Zenon
    <2> QED BY <1>1, <1>3, <2>1
<1>6. xip \in SUBSET Nat /\ xip \subseteq 1 .. xmax - 1
    <2>1. \A x \in xip : x \in 1 .. Len(xact) /\ x < xmax
        BY <1>b, Zenon
    <2> HIDE DEF xmax, xip
    <2> QED BY <1>1, <1>4, <2>1
<1>7. Min(xip \cup {xmax}) \in Nat
    <2>0. xmax \in Nat
        BY <1>1, <1>4
    <2>1. xip \cup {xmax} \in SUBSET Nat /\ xip \cup {xmax} # {}
        BY <2>0, <1>6, Zenon
    <2>2. Min(xip \cup {xmax}) \in xip \cup {xmax}
        BY <2>1, MinOf, Zenon
    <2> QED BY <2>1, <2>2, Zenon
<1>8. Snapshot = [xmin |-> Min(xip \cup {xmax}), xmax |-> xmax, xip |-> xip]
    BY Zenon DEF Snapshot, D
<1> HIDE DEF xmax, xip
<1>9. Snapshot \in Snap /\ Snapshot.xmax = xmax /\ Snapshot.xip = xip
    BY <1>4, <1>6, <1>7, <1>8 DEF Snap
<1>10. \A x \in DOMAIN xact : Visible(x, Snapshot) <=> xact[x] = "done"
    <2> TAKE x \in DOMAIN xact
    <2>1. xact[x] = "done" => x < xmax /\ x \notin Running
        BY <1>4, <1>5, Zenon DEF Running
    <2>2. xact[x] # "done" => x \in Running
        BY <1>1, Zenon DEF Running
    <2>3. x \in xip <=> x \in Running /\ x < xmax
        BY Zenon DEF xip
    <2> QED BY <1>9, <2>1, <2>2, <2>3, Zenon DEF Visible
<1>11. xmax > 1 => xact[xmax - 1] = "done"
    <2>1. xmax - 1 = Max(D) /\ (xmax > 1 => Max(D) # 0)
        <3>1. Max(D) \in 0 .. Len(xact)
            BY <1>2, <1>3, Zenon
        <3> QED BY <1>1, <3>1 DEF xmax
    <2>2. Max(D) \in D /\ Max(D) # 0 => Max(D) \in DOMAIN xact
        BY <1>a, Zenon
    <2> QED BY <1>3, <1>5, <2>1, <2>2, Zenon
<1>12. SnapOK(Snapshot)
    BY <1>4, <1>6, <1>9, <1>10, <1>11, Zenon DEF SnapOK
<1>13. ASSUME NEW s, SnapOK(s) PROVE Before(s, Snapshot)
    <2>1. \A x \in DOMAIN xact : Visible(x, s) => Visible(x, Snapshot)
        BY <1>10, <1>13, Zenon DEF SnapOK
    <2>2. s.xmax <= xmax
        <3>1. s.xmax \in 1 .. Len(xact) + 1 /\ (s.xmax > 1 => xact[s.xmax - 1] = "done")
            BY <1>13, Zenon DEF SnapOK
        <3>2. s.xmax > 1 => s.xmax - 1 \in DOMAIN xact
            BY <1>1, <3>1
        <3>3. s.xmax > 1 => s.xmax - 1 < xmax
            BY <1>4, <1>5, <3>1, <3>2, Zenon
        <3> QED BY <1>1, <1>4, <3>1, <3>3
    <2> QED BY <1>9, <2>1, <2>2, Zenon DEF Before
<1> QED BY <1>9, <1>10, <1>12, <1>13, Zenon

-----------------------------------------------------------------------------
(* Types.                                                                  *)

LEMMA SubFields ==
    ASSUME NEW s \in Subscriber
    PROVE  /\ s.rows \in SUBSET Nat /\ s.fwd \in SUBSET Nat /\ s.active \in BOOLEAN
           /\ s.done \in Nat /\ s.other \in SUBSET Nat /\ s.seqno \in Nat /\ s.snap \in Snap
           /\ s.list \in Seq(Nat) /\ s.early \in BOOLEAN /\ s.blind \in BOOLEAN
BY DEF Subscriber

(* An event is done, without any rows. *)
LEMMA DoneFacts ==
    ASSUME NEW s \in Subscriber, NEW k \in Nat, NEW t, t = [s EXCEPT !.done = k]
    PROVE  /\ t \in Subscriber /\ t.done = k
           /\ t.rows = s.rows /\ t.fwd = s.fwd /\ t.active = s.active /\ t.other = s.other
           /\ t.seqno = s.seqno /\ t.snap = s.snap /\ t.list = s.list /\ t.early = s.early
           /\ t.blind = s.blind
BY Zenon DEF Subscriber

LEMMA OtherFacts ==
    ASSUME NEW s \in Subscriber, NEW o \in SUBSET Nat, NEW t, t = [s EXCEPT !.other = o]
    PROVE  /\ t \in Subscriber /\ t.other = o
           /\ t.rows = s.rows /\ t.fwd = s.fwd /\ t.active = s.active /\ t.done = s.done
           /\ t.seqno = s.seqno /\ t.snap = s.snap /\ t.list = s.list /\ t.early = s.early
           /\ t.blind = s.blind
BY Zenon DEF Subscriber

LEMMA WorkFields ==
    ASSUME NEW v \in WorkerState
    PROVE  /\ v.pc \in {"idle", "work", "worked", "closed"} /\ v.seq \in Nat /\ v.n \in Nat
           /\ v.counted \in BOOLEAN /\ v.fp \in BOOLEAN /\ v.res \in Subscriber \cup {<<>>}
           /\ v.out \in File \cup {NoFile}
BY DEF WorkerState

LEMMA EventFields ==
    ASSUME NEW e \in Event
    PROVE  /\ e.type \in {"SYNC", "ENABLE_SUBSCRIPTION"} /\ e.node \in Nat
           /\ e.snap \in Snap /\ e.xid \in Nat /\ e # NoEvent
BY DEF Event, NoEvent

LEMMA WorkerFacts ==
    ASSUME SetupOK
    PROVE  /\ \A n \in Receiver : <<n, Origin>> \in Worker
           /\ \A w \in Worker : /\ w[1] \in Receiver
                                /\ w[2] = Origin => w = <<w[1], Origin>>
                                /\ w[2] # Origin => w = <<2, 3>>
<1>1. \A n \in Receiver : <<n, Origin>> \in Worker
    BY Zenon DEF Worker
<1>2. ASSUME NEW w \in Worker, w \in Receiver \X {Origin}
      PROVE  w[1] \in Receiver /\ w[2] = Origin /\ w = <<w[1], Origin>>
    BY <1>2
<1>3. ASSUME NEW w \in Worker, w \notin Receiver \X {Origin}
      PROVE  w[1] \in Receiver /\ w[2] # Origin /\ w = <<2, 3>>
    <2>1. w = <<2, 3>> /\ setup.other # 0
        BY <1>3, Zenon DEF Worker
    <2>2. w[1] = 2 /\ w[2] = 3
        BY <2>1
    <2> QED BY <2>1, <2>2 DEF SetupOK, Origin
<1> QED BY <1>1, <1>2, <1>3, Zenon

LEMMA ProviderFacts ==
    ASSUME SetupOK, NEW n \in Receiver
    PROVE  /\ setup.provider[n] \in Receiver \cup {Origin}
           /\ setup.provider[n] # n /\ n # Origin /\ n \in Nat
BY Zenon DEF SetupOK

LEMMA SeqFacts ==
    ASSUME ShapeInv
    PROVE  /\ Len(event) \in Nat /\ DOMAIN event = 1 .. Len(event)
           /\ \A i \in DOMAIN event : event[i] \in Event
           /\ Len(log) \in Nat /\ DOMAIN log = 1 .. Len(log)
           /\ \A a \in DOMAIN log : log[a] \in DOMAIN xact
           /\ Len(xact) \in Nat /\ DOMAIN xact = 1 .. Len(xact)
           /\ \A x \in DOMAIN xact : xact[x] \in {"open", "done"}
BY DEF ShapeInv

LEMMA LogOfType ==
    ASSUME ShapeInv, NEW n \in Receiver
    PROVE  LogOf(setup.provider[n]) \in SUBSET Nat
<1>1. DOMAIN log \in SUBSET Nat
    BY SeqFacts
<1>2. \A p \in Receiver : sub[p].fwd \in SUBSET Nat
    BY SubFields, Zenon DEF ShapeInv
<1> QED BY <1>1, <1>2, ProviderFacts, Zenon DEF LogOf, ShapeInv

(* The state of a subscriber after SYNC k. *)
LEMMA AfterSyncFacts ==
    ASSUME ShapeInv, NEW n \in Receiver, NEW k \in DOMAIN event, NEW t, t = AfterSync(n, k)
    PROVE  /\ t \in Subscriber /\ t.done = k
           /\ t.active = sub[n].active /\ t.other = sub[n].other
           /\ t.early = sub[n].early /\ t.blind = sub[n].blind
           /\ t.rows = sub[n].rows \cup Fetched(n, k)
           /\ t.fwd = sub[n].fwd \cup Fetched(n, k)
           /\ Takes(n, k) => t.seqno = k /\ t.snap = event[k].snap /\ t.list = <<>>
           /\ ~Takes(n, k) => /\ t.seqno = sub[n].seqno /\ t.snap = sub[n].snap
                              /\ t.list = sub[n].list
<1> DEFINE s == [sub[n] EXCEPT !.done = k]
<1>1. k \in Nat /\ event[k].snap \in Snap
    BY SeqFacts, EventFields
<1>2. sub[n] \in Subscriber
    BY Zenon DEF ShapeInv
<1>3. Selected(n, k) \in SUBSET Nat
    BY LogOfType, Zenon DEF Selected
<1>4. /\ s \in Subscriber /\ s.done = k
      /\ s.rows = sub[n].rows /\ s.fwd = sub[n].fwd /\ s.active = sub[n].active
      /\ s.other = sub[n].other /\ s.seqno = sub[n].seqno /\ s.snap = sub[n].snap
      /\ s.list = sub[n].list /\ s.early = sub[n].early /\ s.blind = sub[n].blind
    <2>1. s = [sub[n] EXCEPT !.done = k] OBVIOUS
    <2> HIDE DEF s
    <2> QED BY <1>1, <1>2, <2>1, DoneFacts
<1> HIDE DEF s
<1>5. CASE Takes(n, k)
    <2> DEFINE A == s.rows \cup Selected(n, k)
               B == s.fwd \cup Selected(n, k)
               x == event[k].snap
    <2>1. t = [s EXCEPT !.rows = A, !.fwd = B, !.seqno = k, !.snap = x, !.list = <<>>]
        BY <1>5, Zenon DEF AfterSync, s
    <2>4. A \in SUBSET Nat /\ B \in SUBSET Nat /\ x \in Snap /\ <<>> \in Seq(Nat)
        BY <1>1, <1>3, <1>4, SubFields
    <2> HIDE DEF A, B, x
    <2>5. /\ t \in Subscriber /\ t.rows = A /\ t.fwd = B
          /\ t.seqno = k /\ t.snap = x /\ t.list = <<>>
          /\ t.active = s.active /\ t.done = s.done /\ t.other = s.other
          /\ t.early = s.early /\ t.blind = s.blind
        BY <1>1, <1>4, <2>1, <2>4, ZenonT(40) DEF Subscriber
    <2>2. /\ t \in Subscriber /\ t.rows = s.rows \cup Selected(n, k)
          /\ t.fwd = s.fwd \cup Selected(n, k)
          /\ t.seqno = k /\ t.snap = event[k].snap /\ t.list = <<>>
          /\ t.active = s.active /\ t.done = s.done /\ t.other = s.other
          /\ t.early = s.early /\ t.blind = s.blind
        BY <2>5, Zenon DEF A, B, x
    <2>3. Fetched(n, k) = Selected(n, k)
        BY <1>5, Zenon DEF Fetched
    <2> QED BY <1>4, <1>5, <2>2, <2>3, Zenon
<1>6. CASE ~Takes(n, k)
    <2>1. t = s /\ Fetched(n, k) = {}
        BY <1>6, Zenon DEF AfterSync, s, Fetched
    <2>2. \A R : R \cup {} = R
        OBVIOUS
    <2> QED BY <1>4, <1>6, <2>1, <2>2, Zenon
<1> QED BY <1>5, <1>6, Zenon

(* The setsync of a copy is an event: the last SYNC the provider has. *)
LEMMA SetsyncFacts ==
    ASSUME ShapeInv, NEW p, NEW k \in DOMAIN event
    PROVE  /\ SetsyncOf(p, k).seqno \in DOMAIN event
           /\ SetsyncOf(p, k).snap = event[SetsyncOf(p, k).seqno].snap
           /\ SyncsAt(p) = {} => SetsyncOf(p, k).seqno = k
           /\ SyncsAt(p) # {} => /\ SetsyncOf(p, k).seqno \in SyncsAt(p)
                                 /\ \A i \in SyncsAt(p) : i <= SetsyncOf(p, k).seqno
<1>1. Len(event) \in Nat /\ SyncsAt(p) \subseteq DOMAIN event
      /\ SyncsAt(p) \in SUBSET (0 .. Len(event)) /\ DOMAIN event \subseteq Nat
    BY SeqFacts DEF SyncsAt, EventsOf
<1>2. CASE SyncsAt(p) = {}
    <2>1. SetsyncOf(p, k) = [seqno |-> k, snap |-> event[k].snap]
        BY <1>2, Zenon DEF SetsyncOf
    <2> QED BY <2>1, <1>2
<1>3. CASE SyncsAt(p) # {}
    <2> DEFINE i == Max(SyncsAt(p))
    <2>1. SetsyncOf(p, k) = [seqno |-> i, snap |-> event[i].snap]
        BY <1>3, Zenon DEF SetsyncOf
    <2>2. i \in SyncsAt(p) /\ \A j \in SyncsAt(p) : i >= j
        BY <1>1, <1>3, MaxOf, Zenon
    <2> HIDE DEF i
    <2>3. SetsyncOf(p, k).seqno = i /\ SetsyncOf(p, k).snap = event[i].snap
        BY <2>1
    <2>4. i \in Nat /\ \A j \in SyncsAt(p) : j \in Nat
        BY <1>1, <2>2, Zenon
    <2>5. \A j \in SyncsAt(p) : j <= i
        BY <2>2, <2>4
    <2> QED BY <1>1, <1>3, <2>2, <2>3, <2>5, Zenon
<1> QED BY <1>2, <1>3, Zenon

(* A list in any order is a sequence of the rows. *)
LEMMA OrdersFacts ==
    ASSUME NEW R \in SUBSET Nat, NEW list \in Orders(R)
    PROVE  list \in Seq(Nat) /\ Range(list) = R
<1>1. PICK m \in 0 .. Len(log) : list \in Bijection(1 .. m, R)
    BY Zenon DEF Orders
<1>2. list \in [1 .. m -> R] /\ \A t \in R : \E i \in 1 .. m : list[i] = t
    BY <1>1, Zenon DEF Bijection, Injection, Surjection
<1>3. m \in Nat
    OBVIOUS
<1>4. list \in [1 .. m -> Nat]
    BY <1>2, Zenon
<1>5. list \in Seq(Nat)
    BY <1>3, <1>4
<1>6. Range(list) = R
    BY <1>2, Zenon DEF Range
<1> QED BY <1>5, <1>6, Zenon

LEMMA RowsAtType ==
    ASSUME ShapeInv, NEW n \in Receiver
    PROVE  RowsAt(setup.provider[n]) \in SUBSET Nat
<1>1. RowsIn(Snapshot) \in SUBSET Nat
    BY SeqFacts DEF RowsIn
<1>2. \A p \in Receiver : sub[p].rows \in SUBSET Nat
    BY SubFields, Zenon DEF ShapeInv
<1> QED BY <1>1, <1>2, ProviderFacts, Zenon DEF RowsAt, ShapeInv

(* The state t of a subscriber n after its copy for event k from provider p. *)
CopyResult(n, p, k, list, t) ==
    /\ t \in Subscriber /\ t.done = k /\ t.active = TRUE
    /\ t.rows = RowsAt(p) /\ t.fwd = sub[n].fwd /\ t.other = sub[n].other
    /\ t.seqno = SetsyncOf(p, k).seqno /\ t.snap = SetsyncOf(p, k).snap
    /\ t.list = list /\ Range(list) = ActionList(p, k)
    /\ t.early <=> p = Origin /\ SyncMisses(RowsAt(p))
    /\ t.blind <=> p # Origin /\ (SyncsAt(p) = {} \/ sub[p].blind)

LEMMA AfterCopyFacts ==
    ASSUME ShapeInv, NEW n \in Receiver, NEW k \in DOMAIN event, NEW p, p = setup.provider[n],
           NEW list \in Orders(ActionList(p, k)), NEW t, t = AfterCopy(n, k, list)
    PROVE  CopyResult(n, p, k, list, t)
<1> DEFINE R == RowsAt(p)
           i == SetsyncOf(p, k).seqno
           x == SetsyncOf(p, k).snap
           e == p = Origin /\ SyncMisses(RowsAt(p))
           b == p # Origin /\ (SyncsAt(p) = {} \/ sub[p].blind)
<1>1. t = [sub[n] EXCEPT !.rows = R, !.active = TRUE, !.done = k, !.seqno = i, !.snap = x,
                         !.list = list, !.early = e, !.blind = b]
    BY Zenon DEF AfterCopy
<1>2. sub[n] \in Subscriber
    BY Zenon DEF ShapeInv
<1>3. k \in Nat /\ i \in Nat
    BY SeqFacts, SetsyncFacts
<1>4. R \in SUBSET Nat
    BY RowsAtType, Zenon
<1>5. x \in Snap
    <2>1. i \in DOMAIN event /\ x = event[i].snap
        BY SetsyncFacts, Zenon
    <2> QED BY <2>1, SeqFacts, EventFields, Zenon
<1>6. ActionList(p, k) \in SUBSET Nat
    BY LogOfType, Zenon DEF ActionList
<1>7. list \in Seq(Nat) /\ Range(list) = ActionList(p, k)
    BY <1>6, OrdersFacts, Zenon
<1>8. e \in BOOLEAN /\ b \in BOOLEAN
    <2>1. SyncMisses(RowsAt(p)) \in BOOLEAN
        BY Zenon DEF SyncMisses
    <2>2. p # Origin => sub[p].blind \in BOOLEAN
        BY ProviderFacts, SubFields, Zenon DEF ShapeInv
    <2> QED BY <2>1, <2>2, Zenon
<1> HIDE DEF R, i, x, e, b
<1>9. /\ t \in Subscriber /\ t.rows = R /\ t.active = TRUE /\ t.done = k /\ t.seqno = i
      /\ t.snap = x /\ t.list = list /\ t.early = e /\ t.blind = b
      /\ t.fwd = sub[n].fwd /\ t.other = sub[n].other
    BY <1>1, <1>2, <1>3, <1>4, <1>5, <1>7, <1>8, ZenonT(40) DEF Subscriber
<1>10. (t.early <=> e) /\ (t.blind <=> b)
    BY <1>9, Zenon
<1> QED BY <1>7, <1>9, <1>10, Zenon DEF CopyResult, R, i, x, e, b

-----------------------------------------------------------------------------
(* ShapeInv is an invariant.                                               *)

LEMMA IdleFacts ==
    /\ Idle \in WorkerState /\ Idle.pc = "idle" /\ Idle.seq = 0 /\ Idle.n = 0
    /\ Idle.counted = FALSE /\ Idle.fp = FALSE
    /\ \A w : Idle \in WorkerStates(w)
<1>1. Idle \in WorkerState
    BY DEF Idle, WorkerState
<1>2. Idle.pc = "idle" /\ Idle.seq = 0 /\ Idle.n = 0 /\ Idle.counted = FALSE /\ Idle.fp = FALSE
    BY DEF Idle
<1> QED BY <1>1, <1>2, Zenon DEF WorkerStates

LEMMA RetryFacts ==
    ASSUME NEW k \in Nat, NEW v, v = [Idle EXCEPT !.seq = k]
    PROVE  /\ v \in WorkerState /\ v.pc = "idle" /\ v.counted = FALSE
           /\ \A w : v \in WorkerStates(w)
<1>1. v \in WorkerState /\ v.pc = "idle" /\ v.counted = FALSE
    BY IdleFacts, Zenon DEF WorkerState
<1> QED BY <1>1, Zenon DEF WorkerStates

LEMMA OpenedFacts ==
    ASSUME counter \in Nat, NEW w, NEW k \in Nat
    PROVE  /\ Opened(w, k) \in WorkerState
           /\ Opened(w, k).pc = "work" /\ Opened(w, k).seq = k
           /\ Archives(w) => Opened(w, k).n = counter + 1 /\ Opened(w, k).counted = TRUE
           /\ ~Archives(w) => Opened(w, k).counted = FALSE
<1> DEFINE v == Opened(w, k)
           m == counter + 1
<1>1. m \in Nat OBVIOUS
<1>2. Archives(w) =>
         v = [Idle EXCEPT !.pc = "work", !.seq = k, !.n = m, !.counted = TRUE, !.fp = TRUE]
    BY Zenon DEF Opened
<1>3. ~Archives(w) => v = [Idle EXCEPT !.pc = "work", !.seq = k]
    BY Zenon DEF Opened
<1> HIDE DEF m, v
<1>4. ASSUME Archives(w)
      PROVE  v \in WorkerState /\ v.pc = "work" /\ v.seq = k /\ v.n = m /\ v.counted = TRUE
    <2>1. v = [Idle EXCEPT !.pc = "work", !.seq = k, !.n = m, !.counted = TRUE, !.fp = TRUE]
        BY <1>2, <1>4, Zenon
    <2> QED BY <1>1, <2>1, IdleFacts, Zenon DEF WorkerState
<1>5. ASSUME ~Archives(w)
      PROVE  v \in WorkerState /\ v.pc = "work" /\ v.seq = k /\ v.counted = FALSE
    <2>1. v = [Idle EXCEPT !.pc = "work", !.seq = k]
        BY <1>3, <1>5, Zenon
    <2> QED BY <2>1, IdleFacts, Zenon DEF WorkerState
<1> QED BY <1>4, <1>5, Zenon DEF v, m

(* A step that leaves the databases alone. *)
LEMMA ShapeWork ==
    ASSUME ShapeInv, UNCHANGED copyVars, counter' \in Nat, work' \in [Worker -> WorkerState],
           \A w \in Worker : work'[w] \in WorkerStates(w)
    PROVE  ShapeInv'
BY Zenon DEF ShapeInv, copyVars, SetupOK, Receiver, Worker, WorkerStates

LEMMA ShapeWorkOne ==
    ASSUME ShapeInv, UNCHANGED <<copyVars, counter>>, NEW u \in Worker, NEW v \in WorkerStates(u),
           work' = [work EXCEPT ![u] = v]
    PROVE  ShapeInv' /\ work'[u] = v /\ \A w \in Worker : w # u => work'[w] = work[w]
<1>1. v \in WorkerState BY Zenon DEF WorkerStates
<1>2. work \in [Worker -> WorkerState] /\ counter \in Nat
    BY Zenon DEF ShapeInv
<1>3. work' \in [Worker -> WorkerState] /\ work'[u] = v
      /\ \A w \in Worker : w # u => work'[w] = work[w]
    BY <1>1, <1>2, Zenon
<1>4. \A w \in Worker : work'[w] \in WorkerStates(w)
    BY <1>3, Zenon DEF ShapeInv
<1>5. ShapeInv' BY <1>2, <1>3, <1>4, ShapeWork, Zenon
<1> QED BY <1>3, <1>5, Zenon

LEMMA WorkFacts ==
    ASSUME ShapeInv, NEW w \in Worker
    PROVE  /\ work[w] \in WorkerState /\ work[w] \in WorkerStates(w)
           /\ work[w].pc # "idle" => work[w].seq \in Nat \ {0}
           /\ work[w].pc # "idle" /\ w[2] = Origin =>
                 w = <<w[1], Origin>> /\ work[w].seq \in DOMAIN event
           /\ w[1] \in Receiver /\ sub[w[1]] \in Subscriber
<1>1. work[w] \in WorkerState /\ work[w] \in WorkerStates(w)
    BY Zenon DEF ShapeInv
<1>2. work[w].seq \in Nat
    BY <1>1, WorkFields, Zenon
<1>3. work[w].pc # "idle" => work[w].seq > 0 /\ (w[2] = Origin => work[w].seq <= Len(event))
    BY <1>1, Zenon DEF WorkerStates
<1>4. w[1] \in Receiver /\ (w[2] = Origin => w = <<w[1], Origin>>)
    BY WorkerFacts, Zenon DEF ShapeInv
<1>5. sub[w[1]] \in Subscriber
    BY <1>4, Zenon DEF ShapeInv
<1>6. work[w].pc # "idle" => work[w].seq \in Nat \ {0}
    BY <1>2, <1>3
<1>7. work[w].pc # "idle" /\ w[2] = Origin => work[w].seq \in DOMAIN event
    BY <1>2, <1>3, SeqFacts
<1> QED BY <1>1, <1>4, <1>5, <1>6, <1>7, Zenon

LEMMA ShapeBegin ==
    ASSUME ShapeInv, NEW w \in Worker, Begin(w)
    PROVE  /\ ShapeInv'
           /\ \E k \in Nat \ {0} : NextOf(w, k) /\ work'[w] = Opened(w, k)
           /\ \A v \in Worker : v # w => work'[v] = work[v]
<1>1. PICK k \in 1 .. Len(event) + setup.other :
          NextOf(w, k) /\ work' = [work EXCEPT ![w] = Opened(w, k)]
    BY Zenon DEF Begin
<1>2. UNCHANGED <<copyVars, counter>>
    BY Zenon DEF Begin
<1>3. Len(event) \in Nat /\ setup.other \in Nat /\ counter \in Nat
    BY SeqFacts, Zenon DEF ShapeInv, SetupOK
<1>4. k \in Nat /\ k > 0
    BY <1>3
<1>5. w[2] = Origin => k <= Len(event)
    BY <1>1, Zenon DEF NextOf
<1> DEFINE v == Opened(w, k)
<1>6. v \in WorkerState /\ v.pc = "work" /\ v.seq = k
    BY <1>3, <1>4, OpenedFacts, Zenon
<1>7. v \in WorkerStates(w)
    BY <1>4, <1>5, <1>6, Zenon DEF WorkerStates
<1>8. work' = [work EXCEPT ![w] = v] BY <1>1, Zenon
<1>9. k \in Nat \ {0} BY <1>4
<1> HIDE DEF v
<1>10. ShapeInv' /\ work'[w] = v /\ \A u \in Worker : u # w => work'[u] = work[u]
    BY <1>2, <1>7, <1>8, ShapeWorkOne, Zenon
<1> QED BY <1>1, <1>9, <1>10, Zenon DEF v

LEMMA ShapeWorked ==
    ASSUME ShapeInv, NEW w \in Worker, NEW res \in Subscriber, NEW out \in File,
           work[w].pc = "work", Worked(w, res, out)
    PROVE  /\ ShapeInv'
           /\ work'[w].pc = "worked" /\ work'[w].res = res /\ work'[w].out = out
           /\ work'[w].n = work[w].n /\ work'[w].counted = work[w].counted
           /\ \A v \in Worker : v # w => work'[v] = work[v]
<1> DEFINE v == [work[w] EXCEPT !.pc = "worked", !.res = res, !.out = out]
<1>1. work' = [work EXCEPT ![w] = v] /\ UNCHANGED <<copyVars, counter>>
    BY Zenon DEF Worked
<1>2. /\ v \in WorkerState /\ v.pc = "worked" /\ v.res = res /\ v.out = out
      /\ v.seq = work[w].seq /\ v.n = work[w].n /\ v.counted = work[w].counted
    <2>1. work[w] \in WorkerState BY WorkFacts, Zenon
    <2>2. v = [work[w] EXCEPT !.pc = "worked", !.res = res, !.out = out] OBVIOUS
    <2> HIDE DEF v
    <2> QED BY <2>1, <2>2, Zenon DEF WorkerState
<1> HIDE DEF v
<1>3. v \in WorkerStates(w)
    <2>1. work[w].seq > 0 /\ (w[2] = Origin => work[w].seq <= Len(event))
        BY WorkFacts, Zenon DEF WorkerStates
    <2> QED BY <1>2, <2>1, Zenon DEF WorkerStates
<1>4. ShapeInv'
    BY <1>1, <1>3, ShapeWorkOne, Zenon
<1>5. work'[w] = v /\ \A x \in Worker : x # w => work'[x] = work[x]
    BY <1>1, Zenon DEF ShapeInv
<1> QED BY <1>2, <1>4, <1>5, Zenon

(* A worker that is idle, or whose transaction is rolled back. *)
LEMMA ShapeSyncFails ==
    ASSUME ShapeInv, NEW w \in Worker, SyncFails(w)
    PROVE  /\ ShapeInv' /\ work'[w].pc = "idle" /\ work'[w].counted = FALSE
           /\ \A v \in Worker : v # w => work'[v] = work[v]
<1> DEFINE v == [Idle EXCEPT !.seq = work[w].seq]
<1>1. work' = [work EXCEPT ![w] = v] /\ UNCHANGED <<copyVars, counter>>
    BY Zenon DEF SyncFails
<1>2. work[w].seq \in Nat /\ v = [Idle EXCEPT !.seq = work[w].seq]
    BY WorkFacts, WorkFields, Zenon
<1> HIDE DEF v
<1>3. v \in WorkerStates(w) /\ v.pc = "idle" /\ v.counted = FALSE
    BY <1>2, RetryFacts, Zenon
<1> QED BY <1>1, <1>3, ShapeWorkOne, Zenon

LEMMA ShapeRolledBack ==
    ASSUME ShapeInv, NEW w \in Worker, NEW keep \in BOOLEAN, CopyRolledBack(w, keep)
    PROVE  /\ ShapeInv' /\ work'[w].pc = work[w].pc /\ work'[w].seq = work[w].seq
           /\ work'[w].res = work[w].res /\ work'[w].out = work[w].out
           /\ work'[w].n = work[w].n /\ work'[w].counted = FALSE
           /\ \A v \in Worker : v # w => work'[v] = work[v]
<1> DEFINE v == [work[w] EXCEPT !.fp = @ /\ keep, !.counted = FALSE]
<1>1. work' = [work EXCEPT ![w] = v]
    <2>1. work' = [work EXCEPT ![w] = [work[w] EXCEPT !.fp = work[w].fp /\ keep, !.counted = FALSE]]
        BY Zenon DEF CopyRolledBack
    <2> QED BY <2>1, Zenon
<1>4. UNCHANGED <<copyVars, counter>>
    BY Zenon DEF CopyRolledBack
<1>2. /\ v \in WorkerState /\ v.pc = work[w].pc /\ v.res = work[w].res /\ v.out = work[w].out
      /\ v.seq = work[w].seq /\ v.n = work[w].n /\ v.counted = FALSE
    <2>1. work[w] \in WorkerState BY WorkFacts, Zenon
    <2> DEFINE f == work[w].fp /\ keep
    <2>2. v = [work[w] EXCEPT !.fp = f, !.counted = FALSE]
        BY Zenon
    <2>3. f \in BOOLEAN
        BY <2>1, WorkFields, Zenon
    <2> HIDE DEF v, f
    <2> QED BY <2>1, <2>2, <2>3, Zenon DEF WorkerState
<1> HIDE DEF v
<1>3. v \in WorkerStates(w)
    BY <1>2, WorkFacts, Zenon DEF WorkerStates
<1> QED BY <1>1, <1>2, <1>3, <1>4, ShapeWorkOne, Zenon

(* The workers of node n are idle, the others go on. *)
StoppedAt(n) == \A w \in Worker : work'[w] = IF w[1] = n THEN Idle ELSE work[w]

LEMMA ShapeStopped ==
    ASSUME ShapeInv, NEW n, Stopped(n), UNCHANGED <<copyVars, counter>>
    PROVE  /\ ShapeInv'
           /\ StoppedAt(n)
<1>1. work' = [w \in Worker |-> IF w \in {v \in Worker : v[1] = n} THEN Idle ELSE work[w]]
    BY Zenon DEF Stopped
<1>2. \A w \in Worker : work'[w] \in WorkerStates(w) /\ work'[w] \in WorkerState
    BY <1>1, IdleFacts, WorkFacts, Zenon
<1>3. work' \in [Worker -> WorkerState]
    BY <1>1, <1>2, Zenon
<1>4. counter' \in Nat BY Zenon DEF ShapeInv
<1> QED BY <1>1, <1>2, <1>3, <1>4, ShapeWork, Zenon DEF StoppedAt

LEMMA ShapeClose ==
    ASSUME ShapeInv, NEW w \in Worker, archive_close(w)
    PROVE  /\ ShapeInv' /\ work[w].pc = "worked" /\ Archives(w)
           /\ w \in tmp =>
                 /\ work'[w].pc = "closed" /\ work'[w].res = work[w].res
                 /\ work'[w].out = work[w].out /\ work'[w].n = work[w].n
                 /\ work'[w].counted = work[w].counted
                 /\ \A v \in Worker : v # w => work'[v] = work[v]
           /\ w \notin tmp => StoppedAt(w[1])
<1> DEFINE v == [work[w] EXCEPT !.pc = "closed", !.fp = FALSE]
<1>1. UNCHANGED <<copyVars, counter>> /\ work[w].pc = "worked" /\ Archives(w)
    BY Zenon DEF archive_close
<1>2. CASE w \in tmp
    <2>1. work' = [work EXCEPT ![w] = v]
        BY <1>2, Zenon DEF archive_close
    <2>2. /\ v \in WorkerState /\ v.pc = "closed" /\ v.res = work[w].res /\ v.out = work[w].out
          /\ v.seq = work[w].seq /\ v.n = work[w].n /\ v.counted = work[w].counted
        <3>1. work[w] \in WorkerState BY WorkFacts, Zenon
        <3>2. v = [work[w] EXCEPT !.pc = "closed", !.fp = FALSE] OBVIOUS
        <3> HIDE DEF v
        <3> QED BY <3>1, <3>2, Zenon DEF WorkerState
    <2> HIDE DEF v
    <2>3. v \in WorkerStates(w)
        BY <1>1, <2>2, WorkFacts, Zenon DEF WorkerStates
    <2>4. ShapeInv' /\ work'[w] = v /\ \A u \in Worker : u # w => work'[u] = work[u]
        BY <1>1, <2>1, <2>3, ShapeWorkOne, Zenon
    <2> QED BY <1>1, <1>2, <2>2, <2>4, Zenon
<1>3. CASE w \notin tmp
    BY <1>1, <1>3, ShapeStopped, Zenon DEF archive_close
<1> QED BY <1>2, <1>3, Zenon

(* What a transaction commits: all but the other origin's rows come from the
   worker of the origin, and those from the other worker. *)
AllButOther(s, t) ==
    /\ t \in Subscriber /\ s \in Subscriber
    /\ t.rows = s.rows /\ t.fwd = s.fwd /\ t.active = s.active /\ t.done = s.done
    /\ t.seqno = s.seqno /\ t.snap = s.snap /\ t.list = s.list
    /\ t.early = s.early /\ t.blind = s.blind

LEMMA ResultFacts ==
    ASSUME ShapeInv, NEW w \in Worker, work[w].pc \in {"worked", "closed"}
    PROVE  /\ Result(w) \in Subscriber
           /\ AllButOther(IF w[2] = Origin THEN work[w].res ELSE sub[w[1]], Result(w))
           /\ Result(w).other = IF w[2] = Origin THEN sub[w[1]].other ELSE work[w].res.other
<1> DEFINE t == Result(w)
           s == IF w[2] = Origin THEN work[w].res ELSE sub[w[1]]
           o == IF w[2] = Origin THEN sub[w[1]].other ELSE work[w].res.other
<1>1. work[w].res \in Subscriber /\ sub[w[1]] \in Subscriber
    BY WorkFacts, Zenon DEF WorkerStates
<1>2. s \in Subscriber /\ o \in SUBSET Nat
    BY <1>1, SubFields, Zenon
<1>3. t = [s EXCEPT !.other = o]
    BY Zenon DEF Result
<1> HIDE DEF t, s, o
<1>4. AllButOther(s, t) /\ t.other = o /\ t \in Subscriber
    BY <1>2, <1>3, Zenon DEF Subscriber, AllButOther
<1> QED BY <1>4, Zenon DEF t, s, o

LEMMA CommittedFacts ==
    ASSUME ShapeInv, NEW w \in Worker, Commit(w)
    PROVE  /\ work[w].pc \in {"worked", "closed"} /\ (Archives(w) => work[w].pc = "closed")
           /\ ~Archives(w) => work[w].pc = "worked"
           /\ Committed(w)
           /\ sub'[w[1]] = Result(w) /\ DOMAIN sub' = Receiver
           /\ \A n \in Receiver : n # w[1] => sub'[n] = sub[n]
           /\ work'[w] = Idle /\ \A v \in Worker : v # w => work'[v] = work[v]
           /\ UNCHANGED <<setup, xact, log, event, making>>
<1>1. work[w].pc = (IF Archives(w) THEN "closed" ELSE "worked") /\ Committed(w)
    BY Zenon DEF Commit
<1>2. /\ sub' = [sub EXCEPT ![w[1]] = Result(w)] /\ work' = [work EXCEPT ![w] = Idle]
      /\ UNCHANGED <<setup, xact, log, event, making>>
    BY <1>1, Zenon DEF Committed
<1>3. sub \in [Receiver -> Subscriber] /\ work \in [Worker -> WorkerState] /\ w[1] \in Receiver
    BY WorkFacts, Zenon DEF ShapeInv
<1> QED BY <1>1, <1>2, <1>3, Zenon

LEMMA ShapeCommit ==
    ASSUME ShapeInv, NEW w \in Worker, Commit(w)
    PROVE  ShapeInv'
<1>1. Result(w) \in Subscriber
    BY CommittedFacts, ResultFacts, Zenon
<1>2. sub' \in [Receiver -> Subscriber]
    <2>1. sub' = [sub EXCEPT ![w[1]] = Result(w)] /\ sub \in [Receiver -> Subscriber]
        BY CommittedFacts, Zenon DEF Committed, ShapeInv
    <2> QED BY <1>1, <2>1, Zenon
<1>3. work' \in [Worker -> WorkerState]
    <2>1. work' = [work EXCEPT ![w] = Idle] /\ work \in [Worker -> WorkerState]
        BY CommittedFacts, Zenon DEF Committed, ShapeInv
    <2> QED BY <2>1, IdleFacts, Zenon
<1>4. \A v \in Worker : work'[v] \in WorkerStates(v)
    BY CommittedFacts, IdleFacts, WorkFacts, ZenonT(40)
<1>5. counter' \in Nat
    <2>1. work[w].n \in Nat /\ counter \in Nat
        BY WorkFacts, WorkFields, Zenon DEF ShapeInv
    <2>2. counter' = IF work[w].counted THEN work[w].n ELSE counter
        BY CommittedFacts, Zenon DEF Committed
    <2> QED BY <2>1, <2>2, Zenon
<1>6. UNCHANGED <<setup, xact, log, event, making>>
    BY CommittedFacts, Zenon
<1> QED BY <1>2, <1>3, <1>4, <1>5, <1>6, ZenonT(40)
        DEF ShapeInv, SetupOK, Receiver, Worker, WorkerStates

(* What the workers do with an event. *)
LEMMA AtFacts ==
    ASSUME ShapeInv, NEW w \in Worker, NEW type, At(w, type), type # "OTHER"
    PROVE  /\ work[w].pc = "work" /\ w = <<w[1], Origin>> /\ w[2] = Origin
           /\ work[w].seq \in DOMAIN event /\ event[work[w].seq].type = type
           /\ work[w].seq \in EventsOf(type)
<1>1. work[w].pc = "work" /\ w[2] = Origin /\ event[work[w].seq].type = type
    BY Zenon DEF At
<1> QED BY <1>1, WorkFacts, Zenon DEF EventsOf

LEMMA DoSyncFacts ==
    ASSUME ShapeInv, NEW w \in Worker, DoSync(w)
    PROVE  /\ AfterSync(w[1], work[w].seq) \in Subscriber
           /\ [kind |-> "sync", rows |-> Fetched(w[1], work[w].seq)] \in File
           /\ work[w].pc = "work"
           /\ Worked(w, AfterSync(w[1], work[w].seq),
                        [kind |-> "sync", rows |-> Fetched(w[1], work[w].seq)])
<1>1. /\ At(w, "SYNC")
      /\ Worked(w, AfterSync(w[1], work[w].seq),
                   [kind |-> "sync", rows |-> Fetched(w[1], work[w].seq)])
    BY Zenon DEF DoSync
<1>2. work[w].pc = "work" /\ work[w].seq \in DOMAIN event /\ w[1] \in Receiver
    BY <1>1, AtFacts, WorkFacts, Zenon
<1>3. AfterSync(w[1], work[w].seq) \in Subscriber
    BY <1>2, AfterSyncFacts, Zenon
<1>4. Fetched(w[1], work[w].seq) \in SUBSET Nat
    BY <1>2, LogOfType, Zenon DEF Fetched, Selected
<1>5. [kind |-> "sync", rows |-> Fetched(w[1], work[w].seq)] \in File
    BY <1>4 DEF File
<1> QED BY <1>1, <1>2, <1>3, <1>5, Zenon

LEMMA DoEnableOtherFacts ==
    ASSUME ShapeInv, NEW w \in Worker, DoEnableOther(w)
    PROVE  /\ [sub[w[1]] EXCEPT !.done = work[w].seq] \in Subscriber
           /\ [kind |-> "sync", rows |-> {}] \in File
           /\ work[w].pc = "work"
           /\ Worked(w, [sub[w[1]] EXCEPT !.done = work[w].seq], [kind |-> "sync", rows |-> {}])
<1>1. At(w, "ENABLE_SUBSCRIPTION")
      /\ Worked(w, [sub[w[1]] EXCEPT !.done = work[w].seq], [kind |-> "sync", rows |-> {}])
    BY Zenon DEF DoEnableOther
<1>2. work[w].pc = "work" /\ sub[w[1]] \in Subscriber
    BY <1>1, AtFacts, WorkFacts, Zenon
<1>3. work[w].seq \in Nat
    BY <1>2, WorkFacts, Zenon
<1>4. [sub[w[1]] EXCEPT !.done = work[w].seq] \in Subscriber
    BY <1>2, <1>3, Zenon DEF Subscriber
<1>5. [kind |-> "sync", rows |-> {}] \in File
    BY DEF File
<1> QED BY <1>1, <1>2, <1>4, <1>5, Zenon

LEMMA DoOtherFacts ==
    ASSUME ShapeInv, NEW w \in Worker, DoOther(w)
    PROVE  /\ w = <<2, 3>> /\ w[1] = 2 /\ w[2] = 3 /\ sub[2] \in Subscriber
           /\ work[w].seq \in Nat /\ sub[2].other \cup {work[w].seq} \in SUBSET Nat
           /\ [sub[2] EXCEPT !.other = @ \cup {work[w].seq}] \in Subscriber
           /\ [kind |-> "other", row |-> work[w].seq] \in File
           /\ work[w].pc = "work"
           /\ Worked(w, [sub[2] EXCEPT !.other = @ \cup {work[w].seq}],
                        [kind |-> "other", row |-> work[w].seq])
<1>1. /\ At(w, "OTHER")
      /\ Worked(w, [sub[2] EXCEPT !.other = @ \cup {work[w].seq}],
                   [kind |-> "other", row |-> work[w].seq])
    BY Zenon DEF DoOther
<1>2. work[w].pc = "work"
    BY <1>1, Zenon DEF At
<1>3. w[2] # Origin
    <2>1. ASSUME w[2] = Origin PROVE FALSE
        <3>1. work[w].seq \in DOMAIN event
            BY <1>2, <2>1, WorkFacts, Zenon
        <3>2. event[work[w].seq].type # "OTHER"
            BY <3>1, SeqFacts, EventFields, SMTT(30)
        <3> QED BY <1>1, <2>1, <3>2, Zenon DEF At
    <2> QED BY <2>1, Zenon
<1>4. w = <<2, 3>>
    BY <1>3, WorkerFacts, Zenon DEF ShapeInv
<1>5. w[1] = 2 /\ w[2] = 3
    BY <1>4
<1>6. sub[2] \in Subscriber /\ work[w].seq \in Nat
    BY <1>2, <1>5, WorkFacts, Zenon
<1>7. sub[2].other \cup {work[w].seq} \in SUBSET Nat
    BY <1>6, SubFields, Zenon
<1> DEFINE o == sub[2].other \cup {work[w].seq}
<1>8. [sub[2] EXCEPT !.other = o] \in Subscriber
    <2> HIDE DEF o
    <2>1. o \in SUBSET Nat BY <1>7, Zenon DEF o
    <2> QED BY <1>6, <2>1, Zenon DEF Subscriber
<1>9. [kind |-> "other", row |-> work[w].seq] \in File
    BY <1>6 DEF File
<1> QED BY <1>1, <1>2, <1>4, <1>5, <1>6, <1>7, <1>8, <1>9, ZenonT(40)

LEMMA DoCopyFacts ==
    ASSUME ShapeInv, NEW w \in Worker, NEW n, n = w[1], NEW k, k = work[w].seq,
           NEW p, p = setup.provider[n], DoCopy(w)
    PROVE  /\ At(w, "ENABLE_SUBSCRIPTION") /\ event[k].node = n /\ Has(p, k)
           /\ k \in DOMAIN event /\ n \in Receiver
           /\ work[w].pc = "work" /\ (Archives(w) => work[w].fp)
           /\ \E list \in Orders(ActionList(p, k)) :
                  /\ AfterCopy(n, k, list) \in Subscriber
                  /\ [kind |-> "copy", rows |-> RowsAt(p)] \in File
                  /\ Worked(w, AfterCopy(n, k, list), [kind |-> "copy", rows |-> RowsAt(p)])
<1>1. /\ At(w, "ENABLE_SUBSCRIPTION") /\ event[k].node = n /\ Has(p, k)
      /\ Archives(w) => work[w].fp
    BY Zenon DEF DoCopy, Copying, ProviderReady
<1>2. PICK list \in Orders(ActionList(p, k)) :
          Worked(w, AfterCopy(n, k, list), [kind |-> "copy", rows |-> RowsAt(p)])
    BY Zenon DEF DoCopy
<1>3. work[w].pc = "work" /\ k \in DOMAIN event /\ n \in Receiver
    BY <1>1, AtFacts, WorkFacts, Zenon
<1>4. AfterCopy(n, k, list) \in Subscriber
    BY <1>3, AfterCopyFacts, Zenon DEF CopyResult
<1>5. RowsAt(p) \in SUBSET Nat
    BY <1>3, RowsAtType, Zenon
<1>6. [kind |-> "copy", rows |-> RowsAt(p)] \in File
    BY <1>5 DEF File
<1> QED BY <1>1, <1>2, <1>3, <1>4, <1>6, Zenon

LEMMA SeqGrows ==
    ASSUME NEW S, NEW s \in Seq(S), NEW x \in S, NEW t, t = Append(s, x)
    PROVE  /\ t \in Seq(S) /\ Len(t) = Len(s) + 1 /\ t[Len(s) + 1] = x
           /\ \A i \in DOMAIN s : i \in DOMAIN t /\ t[i] = s[i]
           /\ \A i \in DOMAIN t : i \in DOMAIN s \/ i = Len(s) + 1
           /\ Len(s) + 1 \in DOMAIN t /\ Len(s) \in Nat
OBVIOUS

LEMMA SeqSet ==
    ASSUME NEW S, NEW s \in Seq(S), NEW i \in DOMAIN s, NEW x \in S, NEW t, t = [s EXCEPT ![i] = x]
    PROVE  t \in Seq(S) /\ DOMAIN t = DOMAIN s /\ Len(t) = Len(s)
OBVIOUS

(* The events are only added to. *)
LEMMA ShapeOrigin ==
    ASSUME ShapeInv, UNCHANGED <<setup, sub, work, counter>>,
           event' \in Seq(Event), Len(event) <= Len(event'),
           xact' \in Seq({"open", "done"}), log' \in Seq(Nat),
           \A a \in DOMAIN log' : log'[a] \in DOMAIN xact',
           making' \in Event \cup {NoEvent}, making' # NoEvent => making'.xid \in DOMAIN xact'
    PROVE  ShapeInv'
<1>1. Len(event) \in Nat /\ Len(event') \in Nat
    BY SeqFacts
<1>2. ASSUME NEW w \in Worker
      PROVE  work[w] \in WorkerStates(w)'
    <2>1. work[w] \in WorkerStates(w) /\ work[w] \in WorkerState /\ work[w].seq \in Nat
        BY WorkFacts, WorkFields, Zenon
    <2>2. work[w].seq <= Len(event) => work[w].seq <= Len(event')
        BY <1>1, <2>1
    <2> QED BY <2>1, <2>2, Zenon DEF WorkerStates
<1> QED BY <1>2, Zenon DEF ShapeInv, SetupOK, Receiver, Worker

LEMMA ShapeInsert ==
    ASSUME ShapeInv, Insert, UNCHANGED shipVars
    PROVE  ShapeInv'
<1>1. xact' = Append(xact, "open") /\ log' = Append(log, Len(xact) + 1)
      /\ UNCHANGED <<setup, event, making, sub>> /\ UNCHANGED <<work, counter>>
    BY Zenon DEF Insert, shipVars
<1>2. xact \in Seq({"open", "done"}) /\ log \in Seq(Nat) /\ Len(xact) \in Nat
    BY SeqFacts, Zenon DEF ShapeInv
<1>3. /\ xact' \in Seq({"open", "done"}) /\ Len(xact) + 1 \in DOMAIN xact'
      /\ \A i \in DOMAIN xact : i \in DOMAIN xact'
    BY <1>1, <1>2, SeqGrows, SMTT(30)
<1>4. /\ log' \in Seq(Nat) /\ log'[Len(log) + 1] = Len(xact) + 1
      /\ \A a \in DOMAIN log : log'[a] = log[a]
      /\ \A a \in DOMAIN log' : a \in DOMAIN log \/ a = Len(log) + 1
    BY <1>1, <1>2, SeqGrows
<1>5. \A a \in DOMAIN log' : log'[a] \in DOMAIN xact'
    BY <1>3, <1>4, SeqFacts, Zenon
<1>6. Len(event) <= Len(event') /\ event' \in Seq(Event)
    BY <1>1, SeqFacts, SMTT(30) DEF ShapeInv
<1>7. making' \in Event \cup {NoEvent} /\ (making' # NoEvent => making'.xid \in DOMAIN xact')
    BY <1>1, <1>3, Zenon DEF ShapeInv
<1> QED BY <1>1, <1>3, <1>4, <1>5, <1>6, <1>7, ShapeOrigin, ZenonT(40)

LEMMA ShapeCommitInsert ==
    ASSUME ShapeInv, CommitInsert, UNCHANGED shipVars
    PROVE  ShapeInv'
<1>1. PICK a \in DOMAIN log :
          xact' = [xact EXCEPT ![log[a]] = "done"] /\ UNCHANGED <<setup, log, event, making, sub>>
    BY Zenon DEF CommitInsert
<1>2. UNCHANGED <<work, counter>>
    BY Zenon DEF shipVars
<1>3. xact \in Seq({"open", "done"}) /\ log[a] \in DOMAIN xact
    BY SeqFacts, Zenon DEF ShapeInv
<1>4. xact' \in Seq({"open", "done"}) /\ DOMAIN xact' = DOMAIN xact
    BY <1>1, <1>3, SeqSet, SMTT(30)
<1>5. Len(event) <= Len(event')
    BY <1>1, SeqFacts, SMTT(30)
<1> QED BY <1>1, <1>2, <1>4, <1>5, ShapeOrigin, ZenonT(40) DEF ShapeInv

LEMMA CreatedFacts ==
    ASSUME ShapeInv, NEW type \in {"SYNC", "ENABLE_SUBSCRIPTION"}, NEW node \in Nat,
           createEvent(type, node)
    PROVE  /\ making = NoEvent /\ making' \in Event
           /\ making'.type = type /\ making'.node = node /\ making'.snap = Snapshot
           /\ making'.xid = Len(xact) + 1
           /\ xact' = Append(xact, "open") /\ xact' \in Seq({"open", "done"})
           /\ Len(xact) + 1 \in DOMAIN xact'
           /\ \A i \in DOMAIN xact : i \in DOMAIN xact'
           /\ UNCHANGED <<setup, log, event, sub>>
<1>1. /\ making = NoEvent
      /\ making' = [type |-> type, node |-> node, snap |-> Snapshot, xid |-> Len(xact) + 1]
      /\ xact' = Append(xact, "open")
      /\ UNCHANGED <<setup, log, event, sub>>
    BY Zenon DEF createEvent
<1>2. xact \in Seq({"open", "done"}) /\ Len(xact) + 1 \in Nat
    BY SeqFacts DEF ShapeInv
<1>3. Snapshot \in Snap
    BY <1>2, SnapshotFacts, Zenon
<1>4. making' \in Event
    BY <1>1, <1>2, <1>3, Zenon DEF Event
<1>5. /\ making'.type = type /\ making'.node = node /\ making'.snap = Snapshot
      /\ making'.xid = Len(xact) + 1
    BY <1>1
<1>6. /\ xact' \in Seq({"open", "done"}) /\ Len(xact) + 1 \in DOMAIN xact'
      /\ \A i \in DOMAIN xact : i \in DOMAIN xact'
    BY <1>1, <1>2, SeqGrows, SMTT(30)
<1> QED BY <1>1, <1>4, <1>5, <1>6, Zenon

LEMMA ShapeCreate ==
    ASSUME ShapeInv, NEW type \in {"SYNC", "ENABLE_SUBSCRIPTION"}, NEW node \in Nat,
           createEvent(type, node), UNCHANGED shipVars
    PROVE  ShapeInv'
<1>1. Len(event) <= Len(event')
    BY CreatedFacts, SeqFacts, SMTT(30)
<1>2. UNCHANGED <<work, counter>>
    BY Zenon DEF shipVars
<1>3. \A a \in DOMAIN log' : log'[a] \in DOMAIN xact'
    BY CreatedFacts, SeqFacts, Zenon
<1> QED BY <1>1, <1>2, <1>3, CreatedFacts, ShapeOrigin, ZenonT(40) DEF ShapeInv

LEMMA CommitEventFacts ==
    ASSUME ShapeInv, CommitEvent
    PROVE  /\ making \in Event /\ making.xid \in DOMAIN xact
           /\ event' = Append(event, making) /\ event' \in Seq(Event)
           /\ Len(event') = Len(event) + 1 /\ event'[Len(event) + 1] = making
           /\ \A i \in DOMAIN event : i \in DOMAIN event' /\ event'[i] = event[i]
           /\ \A i \in DOMAIN event' : i \in DOMAIN event \/ i = Len(event) + 1
           /\ Len(event) + 1 \in DOMAIN event'
           /\ xact' = [xact EXCEPT ![making.xid] = "done"]
           /\ xact' \in Seq({"open", "done"}) /\ DOMAIN xact' = DOMAIN xact
           /\ Len(xact') = Len(xact)
           /\ making' = NoEvent /\ UNCHANGED <<setup, log, sub>>
<1>1. /\ making # NoEvent /\ event' = Append(event, making)
      /\ xact' = [xact EXCEPT ![making.xid] = "done"]
      /\ making' = NoEvent /\ UNCHANGED <<setup, log, sub>>
    BY Zenon DEF CommitEvent
<1>2. making \in Event /\ making.xid \in DOMAIN xact /\ event \in Seq(Event)
      /\ xact \in Seq({"open", "done"})
    BY <1>1, Zenon DEF ShapeInv
<1>3. /\ event' \in Seq(Event)
      /\ Len(event') = Len(event) + 1 /\ event'[Len(event) + 1] = making
      /\ \A i \in DOMAIN event : i \in DOMAIN event' /\ event'[i] = event[i]
      /\ \A i \in DOMAIN event' : i \in DOMAIN event \/ i = Len(event) + 1
      /\ Len(event) + 1 \in DOMAIN event'
    BY <1>1, <1>2, SeqGrows, SMTT(30)
<1>4. xact' \in Seq({"open", "done"}) /\ DOMAIN xact' = DOMAIN xact /\ Len(xact') = Len(xact)
    BY <1>1, <1>2, SeqSet, SMTT(30)
<1> QED BY <1>1, <1>2, <1>3, <1>4, Zenon

LEMMA ShapeCommitEvent ==
    ASSUME ShapeInv, CommitEvent, UNCHANGED shipVars
    PROVE  ShapeInv'
<1>1. Len(event) <= Len(event')
    BY CommitEventFacts, SeqFacts
<1>2. UNCHANGED <<work, counter>>
    BY Zenon DEF shipVars
<1>3. \A a \in DOMAIN log' : log'[a] \in DOMAIN xact'
    BY CommitEventFacts, SeqFacts, Zenon
<1> QED BY <1>1, <1>2, <1>3, CommitEventFacts, ShapeOrigin, ZenonT(40) DEF ShapeInv

LEMMA SubscribeFacts ==
    ASSUME ShapeInv, subscribeSet
    PROVE  \E n \in Receiver : /\ n \in Nat /\ ~EnabledFor(n)
                               /\ setup.provider[n] = Origin \/ EnabledFor(setup.provider[n])
                               /\ createEvent("ENABLE_SUBSCRIPTION", n)
BY ProviderFacts, Zenon DEF subscribeSet, ShapeInv

LEMMA ShapeOriginStep ==
    ASSUME ShapeInv, OriginStep, UNCHANGED shipVars
    PROVE  ShapeInv'
<1>1. CASE Insert BY <1>1, ShapeInsert, Zenon
<1>2. CASE CommitInsert BY <1>2, ShapeCommitInsert, Zenon
<1>3. CASE CreateSync
    <2>1. createEvent("SYNC", Origin) BY <1>3, Zenon DEF CreateSync
    <2>2. Origin \in Nat BY DEF Origin
    <2> QED BY <2>1, <2>2, ShapeCreate, Zenon
<1>4. CASE subscribeSet BY <1>4, SubscribeFacts, ShapeCreate, ZenonT(40)
<1>5. CASE CommitEvent BY <1>5, ShapeCommitEvent, Zenon
<1> QED BY <1>1, <1>2, <1>3, <1>4, <1>5, Zenon DEF OriginStep

(* The steps of the logshipper daemon. *)
ShipperStays == UNCHANGED <<copyVars, work, counter, tmp, dir, past, bent>>

LEMMA ShipperFacts ==
    ASSUME ShipperStep \/ ipc_finish \/ KillShipper
    PROVE  ShipperStays
BY Zenon DEF ShipperStep, StartShipper, Rescan, process_archive, ResumeShipper, ipc_cleanup,
             ipc_finish, KillShipper, ShipperStays

LEMMA ShapeStays ==
    ASSUME ShapeInv, UNCHANGED <<copyVars, work, counter>>
    PROVE  ShapeInv'
<1>1. counter' \in Nat /\ work' \in [Worker -> WorkerState]
      /\ \A w \in Worker : work'[w] \in WorkerStates(w)
    BY Zenon DEF ShapeInv
<1> QED BY <1>1, ShapeWork, Zenon

LEMMA ShapeInit == AnyInit => ShapeInv
<1> SUFFICES ASSUME AnyInit PROVE ShapeInv
    OBVIOUS
<1>1. PICK syncs \in Nat : InitWith(setup, syncs)
    BY Zenon DEF AnyInit
<1>2. SetupOK
    BY Zenon DEF AnyInit
<1>3. /\ xact = [i \in 1 .. syncs |-> "done"] /\ log = <<>> /\ making = NoEvent
      /\ event = [i \in 1 .. syncs |->
                    [type |-> "SYNC", node |-> Origin, xid |-> i,
                     snap |-> [xmin |-> i, xmax |-> i, xip |-> {}]]]
      /\ sub = [n \in Receiver |-> NewSubscriber(syncs)]
      /\ work = [w \in Worker |-> Idle] /\ counter = 0
    BY <1>1, Zenon DEF InitWith, Receiver
<1>4. xact \in Seq({"open", "done"})
    BY <1>3
<1>5. log \in Seq(Nat) /\ DOMAIN log = {}
    BY <1>3
<1>6. event \in Seq(Event)
    <2> DEFINE e(i) == [type |-> "SYNC", node |-> Origin, xid |-> i,
                        snap |-> [xmin |-> i, xmax |-> i, xip |-> {}]]
    <2>1. \A i \in 1 .. syncs : e(i) \in Event
        <3> TAKE i \in 1 .. syncs
        <3> DEFINE x == [xmin |-> i, xmax |-> i, xip |-> {}]
        <3>1. x \in Snap BY DEF Snap
        <3>2. i \in Nat /\ Origin \in Nat BY DEF Origin
        <3> HIDE DEF x
        <3>3. [type |-> "SYNC", node |-> Origin, xid |-> i, snap |-> x] \in Event
            BY <3>1, <3>2 DEF Event
        <3> QED BY <3>3, Zenon DEF x
    <2>2. event = [i \in 1 .. syncs |-> e(i)]
        BY <1>3, Zenon
    <2> HIDE DEF e
    <2> QED BY <2>1, <2>2
<1>7. NewSubscriber(syncs) \in Subscriber
    <2>1. ZeroSnapshot \in Snap BY DEF ZeroSnapshot, Snap
    <2> QED BY <2>1 DEF NewSubscriber, Subscriber
<1>8. sub \in [Receiver -> Subscriber]
    BY <1>3, <1>7, Zenon
<1>9. work \in [Worker -> WorkerState] /\ \A w \in Worker : work[w] \in WorkerStates(w)
    BY <1>3, IdleFacts, Zenon
<1>10. counter \in Nat BY <1>3
<1> QED BY <1>2, <1>3, <1>4, <1>5, <1>6, <1>8, <1>9, <1>10, ZenonT(40) DEF ShapeInv

LEMMA ShapeWorkerStep ==
    ASSUME ShapeInv, NEW w \in Worker, WorkerStep(w) \/ WorkerFault(w)
    PROVE  ShapeInv'
<1>1. CASE Begin(w) BY <1>1, ShapeBegin, Zenon
<1>2. CASE DoSync(w) BY <1>2, DoSyncFacts, ShapeWorked, Zenon
<1>3. CASE DoOther(w) BY <1>3, DoOtherFacts, ShapeWorked, Zenon
<1>4. CASE DoEnableOther(w) BY <1>4, DoEnableOtherFacts, ShapeWorked, Zenon
<1>5. CASE DoCopy(w)
    <2> DEFINE p == setup.provider[w[1]]
               k == work[w].seq
    <2>2. work[w].pc = "work"
        BY <1>5, DoCopyFacts, Zenon
    <2>3. PICK list \in Orders(ActionList(p, k)) :
              /\ AfterCopy(w[1], k, list) \in Subscriber
              /\ [kind |-> "copy", rows |-> RowsAt(p)] \in File
              /\ Worked(w, AfterCopy(w[1], k, list), [kind |-> "copy", rows |-> RowsAt(p)])
        BY <1>5, DoCopyFacts, Zenon
    <2>1. \E t \in Subscriber, f \in File : Worked(w, t, f)
        BY <2>3, Zenon
    <2> QED BY <2>1, <2>2, ShapeWorked, Zenon
<1>6. CASE CopyTooEarly(w) \/ CopyWaits(w) \/ CopyFails(w)
    BY <1>6, ShapeRolledBack, Zenon DEF CopyTooEarly, CopyWaits, CopyFails
<1>7. CASE archive_close(w) BY <1>7, ShapeClose, Zenon
<1>8. CASE Commit(w) BY <1>8, ShapeCommit, Zenon
<1>9. CASE SyncFails(w) BY <1>9, ShapeSyncFails, Zenon
<1> QED BY <1>1, <1>2, <1>3, <1>4, <1>5, <1>6, <1>7, <1>8, <1>9, ZenonT(40) DEF WorkerStep, WorkerFault

LEMMA ShapeNext == ShapeInv /\ [Next]_vars => ShapeInv'
<1> SUFFICES ASSUME ShapeInv, [Next]_vars PROVE ShapeInv'
    OBVIOUS
<1>1. CASE OriginStep /\ UNCHANGED shipVars BY <1>1, ShapeOriginStep, Zenon
<1>2. CASE \E w \in Worker : WorkerStep(w) \/ WorkerFault(w) BY <1>2, ShapeWorkerStep, Zenon
<1>3. CASE \E n \in Receiver : RestartSlon(n)
    BY <1>3, ShapeStopped, Zenon DEF RestartSlon
<1>4. CASE ShipperStep \/ ipc_finish \/ KillShipper
    BY <1>4, ShipperFacts, ShapeStays, Zenon DEF ShipperStays
<1>5. CASE UNCHANGED vars
    BY <1>5, ShapeStays, Zenon DEF vars, shipVars
<1> QED BY <1>1, <1>2, <1>3, <1>4, <1>5, Zenon DEF Next
=============================================================================
