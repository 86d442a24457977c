-------------------------- MODULE ShippingTheorems --------------------------
(***************************************************************************)
(* What follows from the invariants of the copy and of the archives        *)
(* together.                                                               *)
(***************************************************************************)
EXTENDS SetCopyProofs, ShippingProofs

(* The inductive invariants hold together, for any cluster and in every
   situation. *)
THEOREM ShippingSafety == ShippingSpec => []ShippingInv
<1>1. ShapeInv /\ CopyInv /\ ArchiveInv => ShippingInv
    BY Zenon DEF ShippingInv
<1> QED BY <1>1, CopyInvariant, ArchiveInvariant, PTL

LEMMA TypeEnough == ShippingInv => TypeOK
<1> SUFFICES ASSUME ShapeInv, CopyInv, NumberInv, ShipperInv PROVE TypeOK
    BY Zenon DEF ShippingInv, ArchiveInv
<1>1. ASSUME NEW n \in Receiver
      PROVE  /\ sub[n].done \in 0 .. Len(event) /\ sub[n].seqno \in 0 .. Len(event)
             /\ sub[n].rows \cup sub[n].fwd \subseteq DOMAIN log
             /\ Range(sub[n].list) \subseteq sub[n].rows
    <2>1. SubOK(n, sub[n])
        BY Zenon DEF CopyInv, GoodStates
    <2>2. sub[n].done \in 0 .. Len(event) /\ sub[n].seqno \in 0 .. Len(event)
        BY <2>1, Zenon DEF SubOK, PlaceOK
    <2>3. /\ sub[n].rows \subseteq RowsDone /\ sub[n].fwd \subseteq sub[n].rows
          /\ Range(sub[n].list) \subseteq sub[n].rows
        BY <2>1, Zenon DEF SubOK, RowsOK
    <2>4. RowsDone \subseteq DOMAIN log BY Zenon DEF RowsDone
    <2> QED BY <2>2, <2>3, <2>4, Zenon
<1>2. ASSUME NEW w \in Worker
      PROVE  /\ work[w].pc \in {"idle", "work", "worked", "closed"}
             /\ work[w].counted => work[w].n = counter + 1
    <2>1. work[w].pc \in {"idle", "work", "worked", "closed"}
        BY WorkFacts, WorkFields, Zenon
    <2>2. NumberOK(w) BY Zenon DEF NumberInv
    <2> QED BY <2>1, <2>2, Zenon DEF NumberOK
<1>3. /\ Files \subseteq 1 .. counter + 1
      /\ ship.pc \in {"none", "run", "resume", "dead"} /\ ship.q \subseteq Files
      /\ offline.at \in 0 .. counter + 1 /\ bent \subseteq {"lost", "retried", "unheard"}
    <2>1. ship.q \in SUBSET Files /\ ship.pc \in {"none", "run", "resume", "dead"}
          /\ offline.at \in 0 .. counter + 1
        BY ShipFields, Zenon
    <2> QED BY <2>1, Zenon DEF NumberInv, ShipperInv
<1> QED BY <1>1, <1>2, <1>3, Zenon DEF TypeOK

(* The types of LogShipping, for any cluster: a subscriber is never beyond the
   events of the origin and holds only rows that were inserted, the worker
   that counts has the next number, and at most one archive is beyond the
   counter. *)
THEOREM ShippingTypes == ShippingSpec => []TypeOK
BY ShippingSafety, TypeEnough, PTL
=============================================================================
