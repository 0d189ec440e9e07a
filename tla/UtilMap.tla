------------------------------- MODULE UtilMap -------------------------------
(***************************************************************************)
(* The map of tpl_utils_map.c, which holds the user data of every          *)
(* tpl_object: tpl_object_set_user_data and get_user_data call it with the *)
(* object's lock, and __tpl_object_fini clears it.  An entry may have a    *)
(* function that frees its data.                                           *)
(***************************************************************************)
EXTENDS Containers

CONSTANTS
    IntRange,       \* number of values of an int: 2^32
    SetsFresh       \* data is set when it exists and is not in the map

ASSUME MapAssumption == IntRange \in Nat \ {0} /\ SetsFresh \in BOOLEAN

VARIABLES
    mNext,          \* buckets[b], or next of an entry
    mKey, mData,
    mFree,          \* free_func is set
    mUsed,          \* the entries in use
    existing,       \* the data of the application that exist
    got             \* the last key asked for, and what get returned

mapVars == <<mNext, mKey, mData, mFree, mUsed, existing, got>>

MapInit ==
    /\ mNext = [s \in Heads \cup Cells |-> Null]
    /\ mKey = [e \in Cells |-> Null]
    /\ mData = [e \in Cells |-> Null]
    /\ mFree = [e \in Cells |-> FALSE]
    /\ mUsed = {} /\ existing = {} /\ got = <<Null, Null>>

\* The compare functions return the difference of the keys as an int.
SameKey(j, k) == (IF j > k THEN j - k ELSE k - j) % IntRange = 0

\* The loop of get and set: the entry it finds for key k, or Null, ...
EntryFor(k) == FirstIn(Path(mNext[HashOf[k]], mNext), {e \in mUsed : SameKey(mKey[e], k)})

\* ... and what leads to it, an entry or the bucket.
SlotOf(k) == CHOOSE s \in DOMAIN mNext : mNext[s] = EntryFor(k)

\* The data of the entries E is freed.
Freed(E) == {mData[e] : e \in {x \in E : mFree[x]}}

Create(d) ==
    /\ d \notin existing
    /\ existing' = existing \cup {d}
    /\ UNCHANGED <<mNext, mKey, mData, mFree, mUsed, got>>

MaySet(d) == SetsFresh => d \in existing /\ \A e \in mUsed : mData[e] # d

\* Mutant: the data that is replaced is not freed.
Replace_Leaks(k, d, own) == LET e == EntryFor(k) IN
    /\ EntryFor(k) # Null /\ MaySet(d)
    /\ mData' = [mData EXCEPT ![e] = d]
    /\ mFree' = [mFree EXCEPT ![e] = own]
    /\ UNCHANGED <<mNext, mKey, mUsed, existing, got>>

\* set with data: of an existing entry the data is freed and replaced, ...
Replace(k, d, own) == LET e == EntryFor(k) IN
    /\ EntryFor(k) # Null /\ MaySet(d)
    /\ existing' = existing \ Freed({e})
    /\ mData' = [mData EXCEPT ![e] = d]
    /\ mFree' = [mFree EXCEPT ![e] = own]
    /\ UNCHANGED <<mNext, mKey, mUsed, got>>

\* ... else a new entry goes to the head of the bucket, if there is memory.
Add(k, d, own) ==
    /\ EntryFor(k) = Null /\ MaySet(d)
    /\ \E e \in Cells \ mUsed : LET b == HashOf[k] IN
         /\ mUsed' = mUsed \cup {e}
         /\ mKey' = [mKey EXCEPT ![e] = k]
         /\ mData' = [mData EXCEPT ![e] = d]
         /\ mFree' = [mFree EXCEPT ![e] = own]
         /\ mNext' = [mNext EXCEPT ![e] = mNext[b], ![b] = e]
    /\ UNCHANGED <<existing, got>>

\* The memory of the entries E is free again.
Erase(E) ==
    /\ mUsed' = mUsed \ E
    /\ existing' = existing \ Freed(E)
    /\ mKey' = [e \in Cells |-> IF e \in E THEN Null ELSE mKey[e]]
    /\ mData' = [e \in Cells |-> IF e \in E THEN Null ELSE mData[e]]
    /\ mFree' = [e \in Cells |-> mFree[e] /\ e \notin E]
    /\ UNCHANGED got

\* set without data deletes the entry: the previous one, or the bucket, leads on.
Unset(k) == LET e == EntryFor(k) IN
    /\ e # Null
    /\ mNext' = [mNext EXCEPT ![SlotOf(k)] = mNext[e], ![e] = Null]
    /\ Erase({e})

\* tpl_util_map_clear
Clear ==
    /\ mNext' = [s \in DOMAIN mNext |-> Null]
    /\ Erase(mUsed)

Get(k) ==
    /\ got' = <<k, IF EntryFor(k) = Null THEN Null ELSE mData[EntryFor(k)]>>
    /\ UNCHANGED <<mNext, mKey, mData, mFree, mUsed, existing>>

MapNext ==
    \/ \E d \in Data : Create(d)
    \/ \E k \in Keys, d \in Data, own \in BOOLEAN : Replace(k, d, own) \/ Add(k, d, own)
    \/ \E k \in Keys : Unset(k) \/ Get(k)
    \/ Clear

MapSpec == MapInit /\ [][MapNext]_mapVars

-----------------------------------------------------------------------------
(* Properties                                                              *)

EntryOf(k) == {e \in mUsed : mKey[e] = k}

\* Each key has one entry, in its bucket, and the buckets lead to no other.
MapWellFormed ==
    /\ \A k \in Keys : Cardinality(EntryOf(k)) <= 1
    /\ \A e \in mUsed : e \in On(Path(mNext[HashOf[mKey[e]]], mNext))
    /\ \A s \in DOMAIN mNext : mNext[s] # Null => mNext[s] \in mUsed

MTable == INSTANCE KeyedStore WITH
    NoData <- Null,
    store <- [k \in Keys |->
        IF EntryOf(k) = {} THEN Null ELSE mData[CHOOSE e \in EntryOf(k) : TRUE]],
    owned <- [k \in Keys |-> \E e \in EntryOf(k) : mFree[e]],
    live <- existing, answer <- got

\* The map is a table: a look-up of a key finds the datum set for that key and
\* no other's, and a datum with a free function is freed when it is replaced,
\* deleted or cleared, once, and is never found afterwards.
MapIsTable == MTable!Spec
=============================================================================
