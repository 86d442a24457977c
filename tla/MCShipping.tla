----------------------------- MODULE MCShipping -----------------------------
(***************************************************************************)
(* Instances for TLC: node 2 subscribes to node 1, or to node 3, which     *)
(* subscribes to node 1.                                                   *)
(***************************************************************************)
EXTENDS LogShippingInv

Direct == [n \in {2} |-> 1]
Cascade == [n \in {2, 3} |-> IF n = 2 THEN 3 ELSE 1]

Setup(p, a, c, r, s, o, f) ==
    [provider |-> p, archives |-> a, command |-> c, rows |-> r, syncs |-> s, other |-> o, faults |-> f]

(* The copy among SYNCs, directly and in a cascade; the archives, with faults,
   with rows of two origins, and with a provider that is behind. *)
Init ==
    \/ InitWith(Setup(Direct, {}, FALSE, 3, 2, 0, 0), 0)
    \/ InitWith(Setup(Cascade, {}, FALSE, 1, 2, 0, 0), 0)
    \/ InitWith(Setup(Direct, {2}, TRUE, 1, 1, 1, 1), 0)
    \/ InitWith(Setup(Direct, {2}, FALSE, 0, 1, 1, 2), 0)
    \/ InitWith(Setup(Cascade, {2}, TRUE, 0, 1, 1, 0), 1)

Spec == Init /\ [][Next]_vars /\ Fairness

(* A copy and the SYNCs around it, nothing else. *)
OneCopy == InitWith(Setup(Direct, {}, FALSE, 1, 3, 0, 0), 1) /\ [][Next]_vars
=============================================================================
