------------------------------- MODULE Replica -------------------------------
(***************************************************************************)
(* What asynchronous replication of one set promises, without logs, log    *)
(* tables, snapshots or confirmations.  The origin's tables change with    *)
(* every commit; from time to time their contents are published; every     *)
(* subscriber shows one of the published contents, moves only forward, and *)
(* is never ahead of the node it gets its data from.                       *)
(***************************************************************************)
EXTENDS Integers, Sequences

CONSTANTS Origin, Receiver, Provider, Key, Value

VARIABLES
    db,         \* the committed tables at the origin
    published,  \* the contents published so far
    pos,        \* which of them a subscriber shows
    copy        \* the tables of the subscribers

abstractVars == <<db, published, pos, copy>>

(* How far the provider of n can serve it. *)
Available(n) ==
    IF Provider[n] = Origin THEN Len(published) ELSE pos[Provider[n]]

Init ==
    /\ db \in [Key -> Value]
    /\ published = <<db>>
    /\ pos = [n \in Receiver |-> 1]
    /\ copy = [n \in Receiver |-> db]

Commit ==
    /\ db' \in [Key -> Value]
    /\ UNCHANGED <<published, pos, copy>>

Publish ==
    /\ published' = Append(published, db)
    /\ UNCHANGED <<db, pos, copy>>

CatchUp(n) ==
    \E e \in pos[n] + 1 .. Available(n) :
        /\ pos' = [pos EXCEPT ![n] = e]
        /\ copy' = [copy EXCEPT ![n] = published[e]]
        /\ UNCHANGED <<db, published>>

Next == Commit \/ Publish \/ \E n \in Receiver : CatchUp(n)

Spec == Init /\ [][Next]_abstractVars
=============================================================================
