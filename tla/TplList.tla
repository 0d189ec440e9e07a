------------------------------- MODULE TplList -------------------------------
(***************************************************************************)
(* The doubly linked list of tpl_utils.h, which every backend tracks its   *)
(* buffers with, as nodes and pointers.  A walk over the list is a loop of *)
(* one step per node; the cursor is read before the node under it is       *)
(* freed, since the memory of a freed node says nothing any more.          *)
(***************************************************************************)
EXTENDS Containers

CONSTANTS HeadNode, TailNode    \* the fields head and tail

Nodes == Cells \cup {HeadNode, TailNode}

ASSUME ListAssumption ==
    /\ HeadNode \notin Cells /\ TailNode \notin Cells
    /\ HeadNode # TailNode /\ HeadNode # Null /\ TailNode # Null

VARIABLES
    next, prev,     \* the pointers of each node
    data,           \* what each cell points to
    count,
    used,           \* the cells in use
    walk,           \* the removal a call is doing, of what, and where it is
    popped          \* the datum a call has returned, or has freed

listVars == <<next, prev, data, count, used, walk, popped>>

NoWalk == [kind |-> "none", want |-> Null, cursor |-> Null]

\* __tpl_list_init
EmptyNext == [n \in Nodes |-> IF n = HeadNode THEN TailNode ELSE Null]
EmptyPrev == [n \in Nodes |-> IF n = TailNode THEN HeadNode ELSE Null]

ListInit ==
    /\ next = EmptyNext /\ prev = EmptyPrev /\ count = 0
    /\ data = [c \in Cells |-> Null]
    /\ used = {}
    /\ walk = NoWalk
    /\ popped = Null

Calling == walk = NoWalk

-----------------------------------------------------------------------------
\* __tpl_list_insert: a new node behind pos, if there is memory.
Insert(pos, d) ==
    \/ /\ used = Cells
       /\ UNCHANGED <<next, prev, data, count, used>>
    \/ \E c \in Cells \ used :
         /\ used' = used \cup {c}
         /\ data' = [data EXCEPT ![c] = d]
         /\ prev' = [prev EXCEPT ![next[pos]] = c, ![c] = pos]
         /\ next' = [next EXCEPT ![c] = next[pos], ![pos] = c]
         /\ count' = count + 1

\* free(node)
FreeCell(n, p, q) ==
    /\ used' = used \ {n}
    /\ next' = [p EXCEPT ![n] = Null]
    /\ prev' = [q EXCEPT ![n] = Null]
    /\ data' = [data EXCEPT ![n] = Null]

\* __tpl_list_remove
Remove(n) ==
    /\ FreeCell(n, [next EXCEPT ![prev[n]] = next[n]], [prev EXCEPT ![next[n]] = prev[n]])
    /\ count' = count - 1
    /\ popped' = data[n]

PushFront(d) == Calling /\ Insert(HeadNode, d) /\ UNCHANGED <<walk, popped>>

PushBack(d) == Calling /\ Insert(prev[TailNode], d) /\ UNCHANGED <<walk, popped>>

PopFront == Calling /\ count # 0 /\ Remove(next[HeadNode]) /\ UNCHANGED walk

PopBack == Calling /\ count # 0 /\ Remove(prev[TailNode]) /\ UNCHANGED walk

\* __tpl_list_remove_data and __tpl_list_fini
BeginWalk(kind, d) ==
    /\ Calling
    /\ walk' = [kind |-> kind, want |-> d,
                cursor |-> IF kind = "last" THEN prev[TailNode] ELSE next[HeadNode]]
    /\ UNCHANGED <<next, prev, data, count, used, popped>>

Onward(n) == IF walk.kind = "last" THEN prev[n] ELSE next[n]

\* Mutant: every kind of walk goes on after a removal.
Step_GoesOn ==
    LET n == walk.cursor IN
    /\ n \in used
    /\ IF walk.kind = "fini"
       THEN FreeCell(n, next, prev) /\ popped' = data[n] /\ UNCHANGED count
       ELSE IF data[n] = walk.want THEN Remove(n)
       ELSE UNCHANGED <<next, prev, data, count, used, popped>>
    /\ walk' = [walk EXCEPT !.cursor = Onward(n)]

\* One round of the loop.  remove_data removes a match and, if one was asked for,
\* returns; fini frees every node and touches no other pointer.
Step ==
    LET n == walk.cursor IN
    /\ n \in used
    /\ IF walk.kind = "fini"
       THEN FreeCell(n, next, prev) /\ popped' = data[n] /\ UNCHANGED count
       ELSE IF data[n] = walk.want THEN Remove(n)
       ELSE UNCHANGED <<next, prev, data, count, used, popped>>
    /\ walk' = IF data[n] = walk.want /\ walk.kind \in {"first", "last"}
               THEN NoWalk ELSE [walk EXCEPT !.cursor = Onward(n)]

\* The loop reaches the other end; fini makes the list empty.
EndWalk ==
    /\ walk.cursor \in {HeadNode, TailNode}
    /\ walk' = NoWalk
    /\ IF walk.kind = "fini"
       THEN next' = EmptyNext /\ prev' = EmptyPrev /\ count' = 0
       ELSE UNCHANGED <<next, prev, count>>
    /\ UNCHANGED <<data, used, popped>>

ListNext ==
    \/ \E d \in Data : PushFront(d) \/ PushBack(d)
    \/ PopFront \/ PopBack
    \/ \E kind \in {"first", "last", "all"}, d \in Data : BeginWalk(kind, d)
    \/ BeginWalk("fini", Null)
    \/ Step \/ EndWalk

ListSpec == ListInit /\ [][ListNext]_listVars

-----------------------------------------------------------------------------
(* Properties                                                              *)

Chain == Path(next[HeadNode], next)

\* Between calls, and at every step of a removal, the list is the same read
\* from either end, its nodes are all the memory in use, and count is their
\* number (pop and get_front believe count alone, tpl_utils.h:368).
ListWellFormed ==
    walk.kind # "fini" =>
        LET back == Path(prev[TailNode], prev) IN
        /\ Len(back) = Len(Chain)
        /\ \A i \in 1..Len(Chain) : back[Len(Chain) + 1 - i] = Chain[i]
        /\ used = On(Chain)
        /\ count = Len(Chain)
        /\ walk.cursor \in used \cup {HeadNode, TailNode, Null}

\* During fini the list is what the walk has still to free.
Remaining == IF walk.kind = "fini" THEN Path(walk.cursor, next) ELSE Chain

Sequence == INSTANCE Deque WITH
    NoData <- Null,
    elems <- [i \in 1..Len(Remaining) |-> data[Remaining[i]]],
    removing <- <<walk.kind, walk.want>>,
    out <- popped

\* Pushes, pops, removals and fini do to the sequence of data what a deque does:
\* no element is lost, doubled or moved, whatever order calls come in.
ListIsDeque == Sequence!Spec
=============================================================================
