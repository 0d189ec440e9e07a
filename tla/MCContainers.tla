---------------------------- MODULE MCContainers ----------------------------
(* The three containers side by side, on small instances: a behaviour uses *)
(* one of them and leaves the other two alone.                             *)
EXTENDS TplList, HashList, UtilMap, TLC

VARIABLE part

Init ==
    /\ part \in {"list", "hash list", "map"}
    /\ ListInit /\ HashInit /\ MapInit

Next ==
    /\ \/ part = "list" /\ ListNext /\ UNCHANGED <<hashVars, mapVars>>
       \/ part = "hash list" /\ HashNext /\ UNCHANGED <<listVars, mapVars>>
       \/ part = "map" /\ MapNext /\ UNCHANGED <<listVars, hashVars>>
    /\ UNCHANGED part

Spec == Init /\ [][Next]_<<listVars, hashVars, mapVars, part>>

\* Odd keys share a chain, and so do even ones.
Parity == [k \in Keys |-> k % 2]

Symmetry == Permutations(Cells)

\* In every container the pointers agree with each other, with the memory in
\* use and with the counts, between any two calls and in the middle of a walk.
WellFormed == ListWellFormed /\ HashWellFormed /\ MapWellFormed

\* The hash list and the map are tables (see HashIsTable and MapIsTable): a key
\* finds what was stored for it and nothing else, as long as it is stored, and
\* the data that the map is to free is freed once, when it leaves the map.
TablesHold == HashIsTable /\ MapIsTable
=============================================================================
