----------------------------- MODULE KeyedStore -----------------------------
(***************************************************************************)
(* What a table promises: at most one datum per key, which a look-up finds *)
(* until the key is given another or is deleted; and a datum the table     *)
(* owns is destroyed when it leaves the table, no sooner and no later.     *)
(***************************************************************************)
CONSTANTS Keys, Data, NoData

VARIABLES
    store,      \* the datum of each key, or NoData
    owned,      \* does the table own it?
    live,       \* the data that exist
    answer      \* the last key looked up, and what was found

Init ==
    /\ store = [k \in Keys |-> NoData]
    /\ owned = [k \in Keys |-> FALSE]
    /\ live \subseteq Data
    /\ answer = <<NoData, NoData>>

Create(d) ==
    /\ d \notin live /\ live' = live \cup {d}
    /\ UNCHANGED <<store, owned, answer>>

\* What the keys K own is destroyed; it existed until now.
Dispose(K) ==
    LET D == {store[k] : k \in {x \in K : owned[x]}} IN
    D \subseteq live /\ live' = live \ D

Put(k, d, own) ==
    /\ Dispose({k})
    /\ store' = [store EXCEPT ![k] = d]
    /\ owned' = [owned EXCEPT ![k] = own]
    /\ d \in live'
    /\ UNCHANGED answer

Delete(K) ==
    /\ Dispose(K)
    /\ store' = [k \in Keys |-> IF k \in K THEN NoData ELSE store[k]]
    /\ owned' = [k \in Keys |-> owned[k] /\ k \notin K]
    /\ UNCHANGED answer

Lookup(k) == answer' = <<k, store[k]>> /\ UNCHANGED <<store, owned, live>>

Next ==
    \/ \E d \in Data : Create(d)
    \/ \E k \in Keys, d \in Data, own \in BOOLEAN : Put(k, d, own)
    \/ \E k \in Keys : Delete({k}) \/ Lookup(k)
    \/ Delete(Keys)

Spec == Init /\ [][Next]_<<store, owned, live, answer>>
=============================================================================
