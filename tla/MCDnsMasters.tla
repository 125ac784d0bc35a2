---------------------------- MODULE MCDnsMasters ----------------------------
(***************************************************************************)
(* Two names, two addresses and two remote masters: five operations while  *)
(* nothing fails; with faults three operations, which register, remove or  *)
(* synchronise two hosts with an address each.  After a second fault the   *)
(* third operation is followed where only one of the hosts has records.    *)
(***************************************************************************)
EXTENDS DnsMasters

CONSTANTS n1, n2, i1, i2, m1, m2

TwoMasters == <<m1, m2>>

\* No record's text contains another's.
Apart == [r \in Records |-> {}]

FaultOps == {<<"add", n1, i1>>, <<"add", n2, i2>>, <<"del", n1, i1>>, <<"sync", n1, i1>>}

\* Every operation, on an address that changes hands and a name that moves.
EveryOp == FaultOps \cup {<<"add", n2, i1>>, <<"replace", n1, i2>>, <<"service", n1, i1>>,
                          <<"named_rr", n1, i1>>, <<"prune", n1, i1>>}

Bounds ==
    /\ faults > 0 => /\ started <= 3
                     /\ \A p \in Procs : pc[p] = "idle" \/ op[p] \in FaultOps
                     /\ \A s \in Servers : Recs(zone[s]) \subseteq {"A", "PTR"} \X {n1, n2} \X {i1, i2}
                     /\ \A s \in Servers : \A r \in Recs(zone[s]) : r[2] = n1 <=> r[3] = i1
    /\ faults > 1 => started <= 2 \/ \A s \in Servers : \A r \in Recs(zone[s]) : r[2] = n1
=============================================================================
