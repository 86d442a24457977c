----------------------------- MODULE ListenPaths -----------------------------
(***************************************************************************)
(* Which nodes a node listens at for the events of an origin: the contents *)
(* of sl_listen that RebuildListenEntries() derives from sl_node, sl_path, *)
(* sl_set and sl_subscribe.                                                *)
(*                                                                         *)
(* A path is <<server, client>>.  A subscription is a record of the set's  *)
(* origin, the provider, the receiver and sub_active.  A listen entry is   *)
(* <<origin, provider, receiver>>.                                         *)
(***************************************************************************)
EXTENDS Naturals, FiniteSets

Entry(origin, provider, receiver) == <<origin, provider, receiver>>

(* "select pa_server, pa_server, pa_client": listen at every origin there is
   a path to. *)
DirectEntries(path) == {Entry(p[1], p[1], p[2]) : p \in path}

(* One round of the loop: the receiver of an event can pass it on along a
   path whose conninfo is known. *)
RelayedEntries(listen, path, pending) ==
    {Entry(x[1][1], x[2][1], x[2][2]) :
        x \in {y \in listen \X (path \ pending) :
                  y[1][3] = y[2][1] /\ y[1][1] # y[2][2]}}

(* The loop runs until a round adds nothing; with n nodes that is after at
   most n rounds. *)
FullNetwork(node, path, pending) ==
    LET net[i \in 0 .. Cardinality(node)] ==
            IF i = 0 THEN DirectEntries(path)
            ELSE net[i - 1] \cup RelayedEntries(net[i - 1], path, pending)
    IN  net[Cardinality(node)]

(* The data providers of receiver n for the sets that originate on o. *)
DataProviders(sub, o, n) ==
    {s.provider : s \in {t \in sub : t.origin = o /\ t.receiver = n /\ t.active}}

(* What the loop over receivers and origins makes of the entries for o at n:
   the origin itself if it is an active data provider; else the data
   providers if one of them has not failed; else the full network. *)
ChosenProviders(net, sub, active, failed, o, n) ==
    LET providers == DataProviders(sub, o, n)
    IN  IF o \in providers /\ o \in active THEN {o}
        ELSE IF providers \ failed # {} THEN providers
        ELSE {e[2] : e \in {f \in net : f[1] = o /\ f[3] = n}}

(* For a failed origin with subscribers, only providers of its sets stay. *)
SurvivingProviders(sub, failed, o, chosen) ==
    LET providing == {s.provider : s \in {t \in sub : t.origin = o}}
    IN  IF o \in failed /\ providing # {} THEN chosen \cap providing ELSE chosen

RebuildListenEntries(node, path, pending, sub, active, failed) ==
    LET net == FullNetwork(node, path, pending)
        At(o, n) == SurvivingProviders(sub, failed, o,
                        ChosenProviders(net, sub, active, failed, o, n))
    IN  UNION {{Entry(q[1], p, q[2]) : p \in At(q[1], q[2])} :
                  q \in {r \in node \X node : r[1] # r[2]}}
=============================================================================
