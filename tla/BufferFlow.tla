----------------------------- MODULE BufferFlow -----------------------------
(***************************************************************************)
(* What a window surface promises about its buffers, whatever queues, lists *)
(* and reference counts it keeps: at any time a buffer is with the client,  *)
(* which may draw in it, or with the display, which may read it, or with    *)
(* neither.  It reaches the display only from the client, once per time the *)
(* client got it, and the client never gets it from the display directly.   *)
(***************************************************************************)
CONSTANT Buffers
VARIABLE owner

Owners == {"nobody", "client", "display"}

Init == owner = [b \in Buffers |-> "nobody"]

\* dequeue hands a buffer to the client.
Get(b) == owner[b] = "nobody" /\ owner' = [owner EXCEPT ![b] = "client"]

\* enqueue shows the client's buffer ...
Show(b) == owner[b] = "client" /\ owner' = [owner EXCEPT ![b] = "display"]

\* ... or fails: the frame is gone.
Drop(b) == owner[b] = "client" /\ owner' = [owner EXCEPT ![b] = "nobody"]

\* The display releases buffers, or the client withdraws them all at once.
GiveBack(S) ==
    /\ S # {} /\ \A b \in S : owner[b] = "display"
    /\ owner' = [b \in Buffers |-> IF b \in S THEN "nobody" ELSE owner[b]]

Next ==
    \/ \E b \in Buffers : Get(b) \/ Show(b) \/ Drop(b)
    \/ \E S \in SUBSET Buffers : GiveBack(S)

Spec == Init /\ [][Next]_owner
=============================================================================
