------------------------------ MODULE Delivery ------------------------------
(***************************************************************************)
(* What the delivery of events promises, without listeners, queues,        *)
(* groups, connections and restarts.  Events are committed on their        *)
(* origin; every other node processes them in the order of their numbers,  *)
(* each once and none left out, and a SYNC only after the nodes it gets    *)
(* its data from; what a node hears about the progress of another one is   *)
(* true and only moves forward.                                            *)
(***************************************************************************)
EXTENDS Integers

CONSTANTS Node,   \* the nodes of the cluster
          Event   \* [seq, kind]

VARIABLES
    feeds,     \* feeds[n][o]: the other nodes that n gets data of o from
    made,      \* made[o]: the events committed on their origin
    got,       \* got[n][o]: the events of o that n has processed
    confirmed  \* confirmed[n][o][r]: how far r is, as n knows

abstractVars == <<feeds, made, got, confirmed>>

Init ==
    /\ feeds \in [Node -> [Node -> SUBSET Node]]
    /\ made = [o \in Node |-> {}]
    /\ got = [n \in Node |-> [o \in Node \ {n} |-> {}]]
    /\ confirmed = [n \in Node |-> [o \in Node |-> [r \in Node |-> 0]]]

Make(o) ==
    \E e \in Event :
        /\ \A f \in made[o] : f.seq < e.seq
        /\ made' = [made EXCEPT ![o] = @ \cup {e}]
        /\ UNCHANGED <<feeds, got, confirmed>>

Process(n, o) ==
    \E e \in made[o] :
        /\ confirmed[n][o][n] < e.seq
        /\ e.kind = "SYNC" => \A p \in feeds[n][o] : e \in got[p][o]
        /\ got' = [got EXCEPT ![n][o] = {f \in made[o] : f.seq <= e.seq}]
        /\ confirmed' = [confirmed EXCEPT ![n][o][n] = e.seq]
        /\ UNCHANGED <<feeds, made>>

Hear(n, o, r) ==
    \E k \in confirmed[n][o][r] + 1 .. confirmed[r][o][r] :
        /\ confirmed' = [confirmed EXCEPT ![n][o][r] = k]
        /\ UNCHANGED <<feeds, made, got>>

Next ==
    \/ \E o \in Node : Make(o)
    \/ \E n \in Node : \E o \in Node \ {n} : Process(n, o)
    \/ \E n, o \in Node : \E r \in Node \ {n} : Hear(n, o, r)

Spec == Init /\ [][Next]_abstractVars
=============================================================================
