-------------------------------- MODULE Deque --------------------------------
(***************************************************************************)
(* What the list of tpl_utils.h promises its users: a sequence with two    *)
(* ends, from which occurrences of a datum can be removed.                 *)
(***************************************************************************)
EXTENDS SequencesExt

CONSTANTS Data, NoData

VARIABLES
    elems,      \* the sequence
    removing,   \* the removal in progress: which occurrences, of what
    out         \* the datum removed last

Idle == <<"none", NoData>>

Init == elems = <<>> /\ removing = Idle /\ out = NoData

PushFront(d) == removing = Idle /\ elems' = <<d>> \o elems /\ UNCHANGED <<removing, out>>

PushBack(d) == removing = Idle /\ elems' = Append(elems, d) /\ UNCHANGED <<removing, out>>

PopFront ==
    /\ removing = Idle /\ elems # <<>>
    /\ out' = Head(elems) /\ elems' = Tail(elems)
    /\ UNCHANGED removing

PopBack ==
    /\ removing = Idle /\ elems # <<>>
    /\ out' = Last(elems) /\ elems' = Front(elems)
    /\ UNCHANGED removing

Begin(which, d) ==
    /\ removing = Idle
    /\ removing' = <<which, d>>
    /\ UNCHANGED <<elems, out>>

\* The first or the last occurrence, or one after the other of all of them, or
\* one after the other of all elements.
Remove1(d) ==
    \/ /\ removing = <<"first", d>>
       /\ elems' = RemoveFirst(elems, d) /\ removing' = Idle
    \/ /\ removing = <<"last", d>>
       /\ elems' = Reverse(RemoveFirst(Reverse(elems), d)) /\ removing' = Idle
    \/ /\ removing = <<"all", d>>
       /\ elems' = RemoveFirst(elems, d) /\ UNCHANGED removing
    \/ /\ removing = <<"fini", NoData>> /\ d = Head(elems)
       /\ elems' = Tail(elems) /\ UNCHANGED removing

Take(d) == d \in Range(elems) /\ Remove1(d) /\ out' = d

\* A removal is over when it finds nothing more.
End ==
    /\ removing # Idle
    /\ removing[2] \notin Range(elems)
    /\ removing[1] = "fini" => elems = <<>>
    /\ removing' = Idle
    /\ UNCHANGED <<elems, out>>

Next ==
    \/ PopFront \/ PopBack \/ End
    \/ \E d \in Data : PushFront(d) \/ PushBack(d) \/ Take(d)
    \/ \E which \in {"first", "last", "all"}, d \in Data : Begin(which, d)
    \/ Begin("fini", NoData)

Spec == Init /\ [][Next]_<<elems, removing, out>>
=============================================================================
