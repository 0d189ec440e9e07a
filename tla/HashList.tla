------------------------------ MODULE HashList ------------------------------
(***************************************************************************)
(* The hash list of tpl_utils_hlist.c, which the runtime keeps its         *)
(* displays in: chains of nodes, each with the next node and the address   *)
(* of the pointer that leads to it, be that a head's or another node's.    *)
(* The functions nobody calls (add_before, add_behind, get_tail_node) are  *)
(* not modelled.                                                           *)
(***************************************************************************)
EXTENDS Containers

\* The places a pointer to a node is kept in.
Slots == Heads \cup Cells

VARIABLES
    hNext,          \* heads[h].first, or next of a node
    hPprev,         \* pprev of a node
    hKey, hData,
    hUsed,          \* the nodes in use
    found           \* the last key looked up, and what was returned

hashVars == <<hNext, hPprev, hKey, hData, hUsed, found>>

HashInit ==
    /\ hNext = [s \in Slots |-> Null]
    /\ hPprev = [n \in Cells |-> Null]
    /\ hKey = [n \in Cells |-> Null]
    /\ hData = [n \in Cells |-> Null]
    /\ hUsed = {}
    /\ found = <<Null, Null>>

\* The nodes of the chain that begins at head h, in order.
HChain(h) == Path(hNext[h], hNext)

\* __tpl_hlist_get_node
GetNode(k) == FirstIn(HChain(HashOf[k]), {n \in hUsed : hKey[n] = k})

\* A new node goes to the head of its chain; a key that is there is refused.
HashInsert(k, d) ==
    /\ GetNode(k) = Null
    /\ \E n \in Cells \ hUsed : LET h == HashOf[k] IN
         /\ hUsed' = hUsed \cup {n}
         /\ hKey' = [hKey EXCEPT ![n] = k]
         /\ hData' = [hData EXCEPT ![n] = d]
         /\ hNext' = [hNext EXCEPT ![n] = hNext[h], ![h] = n]
         /\ hPprev' = [m \in Cells |->
               IF m = n THEN h ELSE IF m = hNext[h] THEN n ELSE hPprev[m]]
    /\ UNCHANGED found

\* Mutant: the next node keeps the address of the freed node's pointer.
HashDelete_KeepsPprev(k) == LET n == GetNode(k) IN
    /\ n # Null
    /\ hUsed' = hUsed \ {n}
    /\ hNext' = [hNext EXCEPT ![hPprev[n]] = hNext[n], ![n] = Null]
    /\ hPprev' = [hPprev EXCEPT ![n] = Null]
    /\ hKey' = [hKey EXCEPT ![n] = Null]
    /\ hData' = [hData EXCEPT ![n] = Null]
    /\ UNCHANGED found

\* __tpl_hlist_del and free
HashDelete(k) == LET n == GetNode(k) IN
    /\ n # Null
    /\ hUsed' = hUsed \ {n}
    /\ hNext' = [hNext EXCEPT ![hPprev[n]] = hNext[n], ![n] = Null]
    /\ hPprev' = [m \in Cells |->
          IF m = n THEN Null ELSE IF m = hNext[n] THEN hPprev[n] ELSE hPprev[m]]
    /\ hKey' = [hKey EXCEPT ![n] = Null]
    /\ hData' = [hData EXCEPT ![n] = Null]
    /\ UNCHANGED found

HashLookup(k) ==
    /\ found' = <<k, IF GetNode(k) = Null THEN Null ELSE hData[GetNode(k)]>>
    /\ UNCHANGED <<hNext, hPprev, hKey, hData, hUsed>>

\* Every node of every chain is unlinked and freed.
HashDestroy ==
    /\ hUsed' = hUsed \ UNION {On(HChain(h)) : h \in Heads}
    /\ hNext' = [s \in Slots |-> Null]
    /\ hPprev' = [n \in Cells |-> Null]
    /\ hKey' = [n \in Cells |-> Null]
    /\ hData' = [n \in Cells |-> Null]
    /\ UNCHANGED found

HashNext ==
    \/ \E k \in Keys, d \in Data : HashInsert(k, d)
    \/ \E k \in Keys : HashDelete(k) \/ HashLookup(k)
    \/ HashDestroy

HashSpec == HashInit /\ [][HashNext]_hashVars

-----------------------------------------------------------------------------
(* Properties                                                              *)

\* Each node in use is on the chain of its key and pprev is the slot that points
\* to it: unlinking it needs no search and no head.
HashWellFormed ==
    /\ \A n \in hUsed :
         /\ n \in On(HChain(HashOf[hKey[n]]))
         /\ hNext[hPprev[n]] = n
    /\ \A s \in Slots : hNext[s] # Null => hNext[s] \in hUsed /\ hPprev[hNext[s]] = s

HashStored == [k \in Keys |->
    LET n == {x \in hUsed : hKey[x] = k} IN
    IF n = {} THEN Null ELSE hData[CHOOSE x \in n : TRUE]]

HTable == INSTANCE KeyedStore WITH
    NoData <- Null, store <- HashStored, owned <- [k \in Keys |-> FALSE],
    live <- Data, answer <- found

\* The hash list is a table that owns nothing, whatever keys share a chain.
HashIsTable == HTable!Spec
=============================================================================
