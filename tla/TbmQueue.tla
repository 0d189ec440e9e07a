------------------------------ MODULE TbmQueue ------------------------------
(***************************************************************************)
(* The part of libtbm every backend leans on: the tbm_surface_queue and    *)
(* the reference count of a tbm_surface.  libtbm is not part of this       *)
(* repository, so each operator states what the callers in src/ rely on    *)
(* (tpl_wayland_egl.c, tpl_wayland_vk_wsi.c, tpl_tbm.c, tpl_gbm.c).        *)
(*                                                                         *)
(* A queue is a function `node' from buffers to the state of the buffer's  *)
(* node; a buffer the queue does not track has the node "none".  Each      *)
(* queue call takes the queue's own mutex, so it is one step.              *)
(***************************************************************************)
EXTENDS Naturals, FiniteSets

NodeState == {"none", "free", "dequeued", "dirty", "acquired"}

\* The buffers the queue tracks; it holds one reference on each of them.
Tracked(node) == {b \in DOMAIN node : node[b] # "none"}

InState(node, s) == {b \in DOMAIN node : node[b] = s}

\* The buffers a dequeue may return: a free one, or, when none is free and
\* fewer than `size' are attached, one allocated now (alive says which
\* addresses are in use).
Dequeuable(node, alive, size) ==
    IF InState(node, "free") # {} THEN InState(node, "free")
    ELSE IF Cardinality(Tracked(node)) < size THEN {b \in DOMAIN node : ~alive[b]}
    ELSE {}

\* tbm_surface_queue_release: any tracked buffer outside the free and the
\* dirty list goes back to the free list; an unknown surface is an error.
Released(node, b) ==
    IF node[b] \in {"acquired", "dequeued"} THEN [node EXCEPT ![b] = "free"] ELSE node

\* tbm_surface_queue_reset, _flush and _destroy all forget every buffer.
Cleared(node) == [b \in DOMAIN node |-> "none"]

\* One reference less, never below zero: libtbm validates the surface it is
\* given, so an unref of a destroyed surface has no effect on a count.
Decremented(n) == IF n = 0 THEN 0 ELSE n - 1
=============================================================================
