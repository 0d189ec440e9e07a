---------------------------- MODULE WindowSurface ----------------------------
(***************************************************************************)
(* A wl_egl_window (wayland-egl.c), the tpl_surface made of it             *)
(* (tpl_surface.c) and the Wayland-EGL backend under both                  *)
(* (tpl_wayland_egl.c), over the life of the window: it is resized and     *)
(* rotated, surfaces are made of it and destroyed, and a surface switches  *)
(* to front-buffer mode and back.  Module WaylandEgl has the same backend  *)
(* under several threads and with its faults; here one thread makes all    *)
(* the calls and dispatches all the events, so each call is one step.  Of  *)
(* the calls only the creation of a surface fails here.  A dequeue that    *)
(* has to wait is a dequeue that is not enabled until an event gives it a  *)
(* buffer.                                                                 *)
(***************************************************************************)
EXTENDS TbmQueue

CONSTANTS
    Buffers,        \* tbm_surface addresses
    QueueSize,      \* CLIENT_QUEUE_SIZE
    Lengths,        \* the widths and heights a window may have
    Rotations,      \* the rotations the application uses, in degrees
    OldRotations,   \* what the memory malloc returns may hold as a rotation
    MaxLost,        \* buffers the application gives up
    Rules,          \* the rules the application and the compositor keep
    NoBuffer

\* "settled": the mode is switched when the application has no buffer.
\* "quiet flush": no flush event arrives in front-buffer mode.
\* "front kept": in that mode the compositor keeps the buffer it shows.
\* "hooked rotation": a window without a surface is not rotated.
\* "live window": a window whose surface was destroyed, or was not completed, is
\* neither resized nor rotated before it has another.
AllRules == {"settled", "quiet flush", "front kept", "hooked rotation", "live window"}

ASSUME WindowAssumption ==
    /\ IsFiniteSet(Buffers) /\ NoBuffer \notin Buffers
    /\ QueueSize \in Nat \ {0}
    /\ Lengths \subseteq Nat \ {0}
    /\ Rotations \subseteq {0, 90, 180, 270} /\ 0 \in Rotations
    /\ OldRotations \subseteq {0, 90, 180, 270} /\ 0 \in OldRotations
    /\ MaxLost \in Nat
    /\ Rules \subseteq AllRules

VARIABLES
    exists,         \* the wl_egl_window exists
    winSize,        \* its width and height
    rotation,
    attachedSize,   \* attached_width and attached_height
    hooked,         \* resize_callback and rotate_callback are set
    asked,          \* the size the application asked for, before rotation
    alive,          \* the surface exists, and is the window's private
    size, angle,    \* width and height, and rotation, of the tpl_surface
    mode,           \* is_frontbuffer_mode
    frontbuffer,
    resized, reset, \* flags of the tpl_wayland_egl_surface
    qSize,          \* size of the buffers of its queue
    node,           \* the queue's nodes
    ref,            \* reference count of each tbm_surface
    bufSize,        \* its width and height
    bufReset,       \* reset flag of its tpl_wayland_egl_buffer
    attached,       \* entries of each buffer in attached_buffers
    dequeued,       \* entries of each buffer in dequeued_buffers
    held,           \* buffers the application may draw into
    lost,           \* buffers it has given up without an enqueue
    shown,          \* buffers the compositor has not released
    front,          \* the one it shows
    aborted         \* an assertion failed, or a callback met a freed surface

windowVars == <<exists, winSize, rotation, attachedSize, hooked, asked>>
surfaceVars == <<alive, size, angle, mode, frontbuffer>>
flagVars == <<resized, reset>>
queueVars == <<qSize, node>>
bufferVars == <<ref, bufSize, bufReset, shown>>
listVars == <<attached, dequeued>>
vars == <<windowVars, surfaceVars, flagVars, queueVars, bufferVars, listVars, held, front,
          lost, aborted>>

NoSize == <<0, 0>>
Sizes == Lengths \X Lengths

Swapped(s) == <<s[2], s[1]>>

Turned(r) == r \in {90, 270}

\* The width and height of a window of size s before rotation, rotated by r;
\* and back.
Oriented(s, r) == IF Turned(r) THEN Swapped(s) ELSE s

\* tpl_surface_validate
Valid == ~(resized \/ reset)

Init ==
    /\ exists = FALSE
    /\ winSize = NoSize /\ rotation = 0 /\ attachedSize = NoSize
    /\ hooked = FALSE /\ asked = NoSize
    /\ alive = FALSE
    /\ size = NoSize /\ angle = 0
    /\ mode = FALSE /\ frontbuffer = NoBuffer
    /\ resized = FALSE /\ reset = FALSE
    /\ qSize = NoSize
    /\ node = [b \in Buffers |-> "none"]
    /\ ref = [b \in Buffers |-> 0]
    /\ bufSize = [b \in Buffers |-> NoSize]
    /\ bufReset = [b \in Buffers |-> FALSE]
    /\ attached = [b \in Buffers |-> 0]
    /\ dequeued = [b \in Buffers |-> 0]
    /\ held = {} /\ lost = {} /\ shown = {} /\ front = NoBuffer
    /\ aborted = FALSE

-----------------------------------------------------------------------------
(* Buffers and the queue                                                   *)

\* The reference counts become r, the sizes s and the reset flags f, but a
\* buffer left without a reference is destroyed, with its wl_buffer.
BuffersBecome(r, s, f) ==
    /\ ref' = r
    /\ bufSize' = [b \in Buffers |-> IF r[b] > 0 THEN s[b] ELSE NoSize]
    /\ bufReset' = [b \in Buffers |-> r[b] > 0 /\ f[b]]

Forgotten == [b \in Buffers |-> IF node[b] = "none" THEN ref[b] ELSE Decremented(ref[b])]

\* The reset callback flags the buffers that are attached or dequeued.
Flagged == [b \in Buffers |-> bufReset[b] \/ attached[b] > 0 \/ dequeued[b] > 0]

\* Pop attached_buffers until it is empty, with an unref for each entry.
DropAttached(r) == [b \in Buffers |-> IF attached[b] >= r[b] THEN 0 ELSE r[b] - attached[b]]

\* The front buffer is lent to the application on the reference of its entry in
\* attached_buffers; any other buffer comes with a reference of its own ...
Lent(b) == mode /\ frontbuffer = b

\* ... which nobody drops if the application never enqueues the buffer.
GiveUp ==
    /\ held' = {}
    /\ lost' = lost \cup {b \in held : ~Lent(b)}
    /\ Cardinality(lost') <= MaxLost

Survivors(r) == {b \in shown : r[b] > 0}

-----------------------------------------------------------------------------
(* The window                                                              *)

\* wl_egl_window_create.  The size is set by wl_egl_window_resize, which reads
\* the rotation, the width and the height of the window before anything was
\* written there; whatever it finds, the size it leaves is oriented by the
\* rotation the memory held.
WindowCreate(s) ==
    /\ ~exists
    /\ exists' = TRUE
    /\ asked' = s
    /\ \E r \in OldRotations : winSize' = Oriented(s, r)
    /\ rotation' = 0 /\ attachedSize' = NoSize /\ hooked' = FALSE
    /\ UNCHANGED <<surfaceVars, flagVars, queueVars, bufferVars, listVars, held, front,
                   lost, aborted>>

WindowDestroy ==
    /\ exists /\ ~alive
    /\ exists' = FALSE
    /\ winSize' = NoSize /\ rotation' = 0 /\ attachedSize' = NoSize
    /\ hooked' = FALSE /\ asked' = NoSize
    /\ UNCHANGED <<surfaceVars, flagVars, queueVars, bufferVars, listVars, held, front,
                   lost, aborted>>

\* Mutant: the size before the resize is compared.
ResizeCallback_SizeBefore ==
    IF alive
    THEN /\ resized' = (winSize # qSize)
         /\ UNCHANGED aborted
    ELSE aborted' = TRUE /\ UNCHANGED resized

\* The resize callback marks the surface when the window has not the size of
\* the queue's buffers.  Both callbacks assert that the window has a private,
\* which after a surface that was not completed is freed memory.
ResizeCallback ==
    IF alive
    THEN /\ resized' = (resized \/ winSize' # qSize)
         /\ UNCHANGED aborted
    ELSE aborted' = TRUE /\ UNCHANGED resized

\* wl_egl_window_resize takes the size before rotation.  It runs no callback when
\* the window has that size already.
WindowResize(s) ==
    /\ exists
    /\ "live window" \in Rules => hooked = alive
    /\ asked' = s
    /\ winSize' = Oriented(s, rotation)
    /\ IF winSize' # winSize /\ hooked THEN ResizeCallback ELSE UNCHANGED <<resized, aborted>>
    /\ UNCHANGED <<exists, rotation, attachedSize, hooked, surfaceVars, reset, queueVars,
                   bufferVars, listVars, held, front, lost>>

\* wl_egl_window_set_rotation: the rotate callback, and, if width and height
\* change places, the resize callback.  They change places only if it is set.
WindowRotate(r) ==
    /\ exists /\ r # rotation
    /\ "live window" \in Rules => hooked = alive
    /\ "hooked rotation" \in Rules => alive
    /\ rotation' = r
    /\ angle' = IF alive THEN r ELSE angle
    /\ winSize' = IF hooked /\ Turned(r) # Turned(rotation) THEN Swapped(winSize) ELSE winSize
    /\ IF hooked /\ (~alive \/ Turned(r) # Turned(rotation))
       THEN ResizeCallback
       ELSE UNCHANGED <<resized, aborted>>
    /\ UNCHANGED <<exists, attachedSize, hooked, asked, alive, size, mode, frontbuffer, reset,
                   queueVars, bufferVars, listVars, held, front, lost>>

-----------------------------------------------------------------------------
(* The surface                                                             *)

SurfaceInit ==
    /\ exists /\ ~alive
    /\ alive' = TRUE /\ hooked' = TRUE
    /\ qSize' = winSize /\ size' = winSize /\ angle' = rotation
    /\ mode' = FALSE /\ frontbuffer' = NoBuffer
    /\ resized' = FALSE /\ reset' = FALSE
    /\ UNCHANGED <<exists, winSize, rotation, attachedSize, asked, node, bufferVars, listVars,
                   held, front, lost, aborted>>

\* The last call of init that may fail, the creation of the vblank, comes when
\* the window has the surface as its private and has the callbacks.  The error
\* path undoes neither, and fini returns early for a surface without a backend,
\* so that the window points to a freed surface from then on.  A call that fails
\* before leaves the window as it was.
SurfaceInitFails ==
    /\ exists /\ ~alive
    /\ hooked' = TRUE
    /\ UNCHANGED <<exists, winSize, rotation, attachedSize, asked, surfaceVars, flagVars,
                   queueVars, bufferVars, listVars, held, front, lost, aborted>>

\* fini: the window loses its private, but keeps the callbacks.
SurfaceFini ==
    /\ alive
    /\ GiveUp
    /\ alive' = FALSE
    /\ node' = Cleared(node)
    /\ BuffersBecome(DropAttached(Forgotten), bufSize, bufReset)
    /\ shown' = Survivors(ref')
    /\ attached' = [b \in Buffers |-> 0] /\ dequeued' = [b \in Buffers |-> 0]
    /\ front' = NoBuffer
    /\ qSize' = NoSize /\ size' = NoSize /\ angle' = 0
    /\ mode' = FALSE /\ frontbuffer' = NoBuffer
    /\ resized' = FALSE /\ reset' = FALSE
    /\ UNCHANGED <<windowVars, aborted>>

\* Mutant: the front buffer outlives the mode.
SetMode_KeepsFront ==
    /\ alive
    /\ "settled" \in Rules => held = {}
    /\ mode' = ~mode
    /\ UNCHANGED <<windowVars, alive, size, angle, frontbuffer, flagVars, queueVars, bufferVars,
                   listVars, held, front, lost, aborted>>

\* tpl_surface_set_frontbuffer_mode
SetMode ==
    /\ alive
    /\ "settled" \in Rules => held = {}
    /\ mode' = ~mode
    /\ frontbuffer' = NoBuffer
    /\ UNCHANGED <<windowVars, alive, size, angle, flagVars, queueVars, bufferVars, listVars,
                   held, front, lost, aborted>>

\* In front-buffer mode dequeue returns the front buffer as long as the surface
\* is valid.
HasFront == mode /\ frontbuffer # NoBuffer

DequeueFront ==
    /\ alive /\ held = {}
    /\ HasFront /\ Valid
    /\ held' = {frontbuffer}
    /\ size' = bufSize[frontbuffer]
    /\ UNCHANGED <<windowVars, alive, angle, mode, frontbuffer, flagVars, queueVars, bufferVars,
                   listVars, front, lost, aborted>>

\* Otherwise the backend is asked.  After a resize it resets the queue first,
\* which libtbm may skip if the queue has that size already.
Dequeue ==
    /\ alive /\ held = {}
    /\ ~(HasFront /\ Valid)
    /\ frontbuffer' = IF mode THEN NoBuffer ELSE frontbuffer
    /\ \E clear \in {resized, resized /\ qSize # winSize} :
         LET n == IF clear THEN Cleared(node) ELSE node
             r == IF clear THEN Forgotten ELSE ref
             f == IF clear THEN Flagged ELSE bufReset
             q == IF resized THEN winSize ELSE qSize
         IN  \E b \in Dequeuable(n, [x \in Buffers |-> r[x] > 0], QueueSize) :
               /\ node' = [n EXCEPT ![b] = "dequeued"]
               /\ BuffersBecome([r EXCEPT ![b] = IF n[b] = "none" THEN 2 ELSE @ + 1],
                                IF n[b] = "none" THEN [bufSize EXCEPT ![b] = q] ELSE bufSize,
                                [f EXCEPT ![b] = FALSE])
               /\ shown' = Survivors(r)
               /\ qSize' = q
               /\ dequeued' = [dequeued EXCEPT ![b] = @ + 1]
               /\ held' = {b}
               /\ size' = bufSize'[b]
    /\ resized' = FALSE /\ reset' = FALSE
    /\ UNCHANGED <<windowVars, alive, angle, mode, attached, front, lost, aborted>>

\* The application starts the frame anew with another buffer, when
\* tpl_surface_validate tells it to (tpl.h:466).
Abandon ==
    /\ held # {} /\ ~Valid
    /\ GiveUp
    /\ UNCHANGED <<windowVars, surfaceVars, flagVars, queueVars, bufferVars, listVars, front,
                   aborted>>

\* Nothing is to be done for the front buffer: the compositor shows it.
EnqueueFront(b) ==
    /\ b \in held
    /\ mode /\ frontbuffer = b
    /\ held' = {}
    /\ UNCHANGED <<windowVars, surfaceVars, flagVars, queueVars, bufferVars, listVars, front,
                   lost, aborted>>

\* Mutant: the front buffer goes through the backend, too.
Enqueue_Again(b) ==
    /\ b \in held /\ ref[b] > 0
    /\ held' = {}
    /\ frontbuffer' = IF mode THEN b ELSE frontbuffer
    /\ dequeued' = [dequeued EXCEPT ![b] = Decremented(@)]
    /\ node' = IF bufReset[b] \/ node[b] = "none" THEN node ELSE [node EXCEPT ![b] = "acquired"]
    /\ attached' = [attached EXCEPT ![b] = @ + 1]
    /\ shown' = shown \cup {b} /\ front' = b
    /\ attachedSize' = winSize
    /\ UNCHANGED <<exists, winSize, rotation, hooked, asked, alive, size, angle, mode, flagVars,
                   qSize, ref, bufSize, bufReset, lost, aborted>>

\* Any other buffer becomes it, in that mode, and goes through the backend: into
\* the queue and out again, in which it changes one reference for another, or
\* past the queue if it was reset; then it is committed.
Enqueue(b) ==
    /\ b \in held /\ ref[b] > 0
    /\ ~(mode /\ frontbuffer = b)
    /\ held' = {}
    /\ frontbuffer' = IF mode THEN b ELSE frontbuffer
    /\ dequeued' = [dequeued EXCEPT ![b] = Decremented(@)]
    /\ node' = IF bufReset[b] \/ node[b] = "none" THEN node ELSE [node EXCEPT ![b] = "acquired"]
    /\ attached' = [attached EXCEPT ![b] = @ + 1]
    /\ shown' = shown \cup {b} /\ front' = b
    /\ attachedSize' = winSize
    /\ UNCHANGED <<exists, winSize, rotation, hooked, asked, alive, size, angle, mode, flagVars,
                   qSize, ref, bufSize, bufReset, lost, aborted>>

-----------------------------------------------------------------------------
(* Events                                                                  *)

\* Mutant: a buffer of an earlier queue is not unreferenced.
Release_Unref(b) ==
    /\ alive /\ b \in shown
    /\ "front kept" \in Rules => ~(mode /\ b = front)
    /\ attached' = [attached EXCEPT ![b] = Decremented(@)]
    /\ node' = IF bufReset[b] THEN node ELSE Released(node, b)
    /\ BuffersBecome([ref EXCEPT ![b] = IF bufReset[b] THEN @ ELSE Decremented(@)],
                     bufSize, bufReset)
    /\ shown' = Survivors(ref') \ {b}
    /\ UNCHANGED <<windowVars, surfaceVars, flagVars, qSize, dequeued, held, front, lost,
                   aborted>>

\* wl_buffer.release
Release(b) ==
    /\ alive /\ b \in shown
    /\ "front kept" \in Rules => ~(mode /\ b = front)
    /\ attached' = [attached EXCEPT ![b] = Decremented(@)]
    /\ node' = IF bufReset[b] THEN node ELSE Released(node, b)
    /\ BuffersBecome([ref EXCEPT ![b] = Decremented(@)], bufSize, bufReset)
    /\ shown' = Survivors(ref') \ {b}
    /\ UNCHANGED <<windowVars, surfaceVars, flagVars, qSize, dequeued, held, front, lost,
                   aborted>>

\* The compositor has libtbm reset the queue; the reset callback follows.
ResetEvent ==
    /\ alive
    /\ node' = Cleared(node)
    /\ BuffersBecome(Forgotten, bufSize, Flagged)
    /\ shown' = Survivors(ref')
    /\ reset' = TRUE
    /\ UNCHANGED <<windowVars, surfaceVars, resized, qSize, listVars, held, front, lost,
                   aborted>>

\* The flusher empties the queue, which libtbm may report as a reset, and drops
\* the attached buffers.
Flush ==
    /\ alive
    /\ "quiet flush" \in Rules => ~mode
    /\ node' = Cleared(node)
    /\ \/ BuffersBecome(DropAttached(Forgotten), bufSize, Flagged) /\ reset' = TRUE
       \/ BuffersBecome(DropAttached(Forgotten), bufSize, bufReset) /\ UNCHANGED reset
    /\ shown' = Survivors(ref')
    /\ attached' = [b \in Buffers |-> 0]
    /\ UNCHANGED <<windowVars, surfaceVars, resized, qSize, dequeued, held, front, lost,
                   aborted>>

-----------------------------------------------------------------------------
Next ==
    \/ \E s \in Sizes : WindowCreate(s) \/ WindowResize(s)
    \/ \E r \in Rotations : WindowRotate(r)
    \/ WindowDestroy
    \/ SurfaceInit \/ SurfaceInitFails \/ SurfaceFini \/ SetMode
    \/ DequeueFront \/ Dequeue \/ Abandon
    \/ \E b \in Buffers : EnqueueFront(b) \/ Enqueue(b) \/ Release(b)
    \/ ResetEvent \/ Flush

Spec == Init /\ [][Next]_vars

-----------------------------------------------------------------------------
(* Properties                                                              *)

WindowTypes ==
    /\ exists \in BOOLEAN /\ hooked \in BOOLEAN
    /\ {winSize, attachedSize, asked} \subseteq Sizes \cup {NoSize}
    /\ rotation \in Rotations

SurfaceTypes ==
    /\ {alive, mode, resized, reset, aborted} \subseteq BOOLEAN
    /\ {size, qSize} \subseteq Sizes \cup {NoSize}
    /\ angle \in Rotations
    /\ {frontbuffer, front} \subseteq Buffers \cup {NoBuffer}

BufferTypes ==
    /\ node \in [Buffers -> NodeState]
    /\ ref \in [Buffers -> 0..2]
    /\ bufSize \in [Buffers -> Sizes \cup {NoSize}]
    /\ bufReset \in [Buffers -> BOOLEAN]
    /\ attached \in [Buffers -> {0, 1}] /\ dequeued \in [Buffers -> {0, 1}]
    /\ held \cup lost \cup shown \subseteq Buffers

\* Every variable has its type: a buffer has at most the queue's reference and
\* one more, and is listed at most once in each list, however often it is drawn
\* into as the front buffer.
TypeOK == WindowTypes /\ SurfaceTypes /\ BufferTypes

Owned(b) ==
    (IF node[b] # "none" THEN 1 ELSE 0) + attached[b]
    + (IF b \in lost \/ (b \in held /\ ~Lent(b)) THEN 1 ELSE 0)

\* No change of mode, size or rotation, no reset and no flush makes a reference
\* too many or too few (tpl_surface.c:217 and 280 go round the backend, which
\* counts): a buffer is destroyed when the queue, the compositor and the
\* application are all done with it, and then at once.
RefsExact == \A b \in Buffers : ref[b] = Owned(b)

\* The buffer the application draws into exists, in front-buffer mode ("render
\* to only frontbuffer", tpl.h:719) it is the one on the screen from the second
\* frame on, and no callback of a window reaches a destroyed surface
\* (tpl_wayland_egl.c:1256, 1280) or one whose creation failed.
DrawsOnLive ==
    /\ \A b \in held : ref[b] > 0
    /\ HasFront /\ Valid => ref[frontbuffer] > 0 /\ frontbuffer = front /\ front \in shown
    /\ ~aborted

\* A dequeued buffer has the size the application asked the window for, turned
\* as the window is turned at that moment, and the surface reports that size and
\* rotation ("every time when a buffer is queried", tpl.h:418), whatever resizes,
\* rotations and resets came since the last one.
BufferFitsWindow ==
    [][\A b \in Buffers : b \in held' \ held =>
         /\ bufSize'[b] = Oriented(asked, rotation)
         /\ size' = bufSize'[b]
         /\ angle' = rotation]_vars
=============================================================================
