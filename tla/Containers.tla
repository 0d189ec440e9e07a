----------------------------- MODULE Containers -----------------------------
(***************************************************************************)
(* What the three containers of libtpl-egl have in common: their nodes are *)
(* cells of memory that hold a datum and point to each other.              *)
(***************************************************************************)
EXTENDS Naturals, FiniteSets, Sequences

CONSTANTS
    Cells,          \* memory for nodes
    Data,           \* what they may hold
    Keys,           \* pointers, as numbers
    Heads,          \* the chains of a hash table
    HashOf,         \* the hash function and its mask
    Null

ASSUME ContainerAssumption ==
    /\ IsFiniteSet(Cells)
    /\ Keys \subseteq Nat
    /\ HashOf \in [Keys -> Heads]
    /\ Heads \cap Cells = {}
    /\ Null \notin Cells \cup Data \cup Heads

\* The cells that the pointers p lead to from n on, n included if it is one.
Path(n, p) ==
    LET at[i \in 0..Cardinality(Cells)] ==
            IF i = 0 THEN n
            ELSE IF at[i - 1] \in Cells THEN p[at[i - 1]] ELSE Null
    IN  [i \in 1..Cardinality({j \in DOMAIN at : at[j] \in Cells}) |-> at[i - 1]]

\* The cells of path c.
On(c) == {c[i] : i \in DOMAIN c}

\* The first cell of path c that is in S, or Null.
FirstIn(c, S) ==
    LET hits == {i \in DOMAIN c : c[i] \in S}
    IN  IF hits = {} THEN Null ELSE c[CHOOSE i \in hits : \A j \in hits : i <= j]
=============================================================================
