---------------------------- MODULE MCWaylandEgl ----------------------------
(* Instances of WaylandEgl for TLC: who runs which callback.               *)
EXTENDS WaylandEgl, TLC

CONSTANTS t1, t2, d1

\* One thread does everything, as a single-threaded EGL client does.
Solo == t1 :> Activity

\* A second thread dispatches the shared event queue for another surface, so
\* it may run this surface's release callbacks at any time.
Shared == (t1 :> Activity \ {"flush", "fini"}) @@ (d1 :> {"release"})

\* One thread dequeues and renders, two post the frames: itself and another
\* (tpl.h:509).
Pair == (t1 :> {"dequeue", "enqueue", "release", "vblank", "resize"})
        @@ (t2 :> {"enqueue", "vblank"})

Frames == {"dequeue", "enqueue", "release", "vblank"}

\* The main thread dispatches the default queue, where the flusher lives.
FlushElsewhere == (t1 :> Frames) @@ (d1 :> {"flush"})

\* Another surface's thread handles the events of the shared tdm client.
VblankElsewhere == (t1 :> Frames) @@ (d1 :> {"vblank"})

\* Another thread dispatches the wl_tbm events that make libtbm reset the queue.
ResetElsewhere == (t1 :> Frames) @@ (d1 :> {"reset"})

\* Another thread resizes the wl_egl_window.
ResizeElsewhere == (t1 :> Frames) @@ (d1 :> {"resize"})

Symmetry == Permutations(Buffers)
=============================================================================
