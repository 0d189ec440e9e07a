----------------------------- MODULE WaylandEgl -----------------------------
(***************************************************************************)
(* One window surface of the Wayland-EGL backend (tpl_wayland_egl.c): its  *)
(* buffer queue, the lists of dequeued and attached buffers, the reference *)
(* counts, the reset, resize and flush callbacks, the vblank gate and the  *)
(* compositor that scans the buffers out.                                  *)
(*                                                                         *)
(* AppThreads call tpl_surface_dequeue_buffer and                          *)
(* tpl_surface_enqueue_buffer on the surface.  Dispatchers are the other   *)
(* threads of the client: they dispatch the wl_tbm_event_queue and the     *)
(* tdm client that all surfaces of the display share, or the default       *)
(* queue.  Runs says which calls and callbacks happen on which thread.     *)
(*                                                                         *)
(* tpl_surface.c holds the object lock of the surface around every backend *)
(* call ("lock"); the base lock of the backend's own object only guards    *)
(* short list operations, so each of those is a single step here.          *)
(***************************************************************************)
EXTENDS TbmQueue

CONSTANTS
    AppThreads,     \* threads that call TPL on this surface
    Dispatchers,    \* other threads that run this client's event callbacks
    Runs,           \* Runs[x]: the calls and callbacks that happen on thread x
    Buffers,        \* tbm_surface addresses
    QueueSize,      \* CLIENT_QUEUE_SIZE
    MaxHeld,        \* buffers the application dequeues before it enqueues one
    Faults,         \* which calls may fail: a subset of FaultKind
    EarlyRelease,   \* the compositor may release before commit() has returned
    NoThread, NoBuffer

Threads == AppThreads \cup Dispatchers
Activity == {"dequeue", "enqueue", "fini", "release", "reset", "flush", "vblank", "resize"}
FaultKind == {"connection", "wl_buffer", "vblank"}
Sizes == {0, 1}     \* two window sizes are enough to tell "changed" from "same"

ASSUME SurfaceAssumption ==
    /\ AppThreads \cap Dispatchers = {}
    /\ Runs \in [Threads -> SUBSET Activity]
    /\ IsFiniteSet(Buffers)
    /\ QueueSize \in Nat \ {0}
    /\ MaxHeld \in Nat \ {0}
    /\ Faults \subseteq FaultKind
    /\ EarlyRelease \in BOOLEAN
    /\ NoThread \notin Threads
    /\ NoBuffer \notin Buffers

VARIABLES
    node,           \* the tbm_surface_queue
    qSize, winSize, \* size of the queue's buffers, size of the wl_egl_window
    ref,            \* reference count of each tbm_surface
    wlBuffer,       \* has the tbm_surface a tpl_wayland_egl_buffer?
    bufReset,       \* tpl_wayland_egl_buffer.reset
    attached,       \* attached_buffers: how often each buffer is listed
    dequeued,       \* dequeued_buffers, likewise
    reset, resized, \* flags of tpl_wayland_egl_surface
    vblankDone,     \* vblank_done
    vblankWaiting,  \* a tdm_client_vblank_wait is registered
    lock,           \* owner of the surface's object lock
    pc, buf,        \* where each thread is, and the buffer it works on
    cb, cbBuf,      \* the callback a dispatching thread runs, and its buffer
    held,           \* buffers the application may render to
    scanout,        \* what the compositor does with the wl_buffer
    front,          \* the last buffer committed
    woken,          \* threads that wait for events and have seen one arrive
    connected,      \* FALSE once the connection to the compositor is lost
    alive           \* FALSE once the surface is finalised

queueVars == <<node, qSize>>
bufferVars == <<ref, wlBuffer, bufReset, scanout>>
listVars == <<attached, dequeued>>
flagVars == <<reset, resized, winSize>>
vblankVars == <<vblankDone, vblankWaiting>>
threadVars == <<pc, buf>>
callbackVars == <<cb, cbBuf>>
envVars == <<front, woken, connected, alive>>
vars == <<queueVars, bufferVars, listVars, flagVars, vblankVars, threadVars,
          callbackVars, envVars, lock, held>>

\* Where a thread can be while it owns the surface's object lock ...
LockedPC == {"deqReset", "deqPend", "deqQueue", "deqRef", "deqFlag", "deqPush",
             "enqTrack", "enqCheck", "enqUnref", "enqAcquire", "enqRef", "commit",
             "track", "arm", "armed"}
\* ... and while it does not.
UnlockedPC == {"idle", "deqTest", "deqWait", "deqRelock", "deqFail", "vblCall",
               "vblWait", "vblRelock", "flushPend", "flushDrop", "finiPend", "finiDrop"}
CallbackPC == {"none", "relTrack", "relQueue", "relUnref", "resetCb"}
Scanout == {"idle", "shown", "released"}

-----------------------------------------------------------------------------
(* Reference counts and the life of a buffer                               *)

IsAlive == [b \in Buffers |-> ref[b] > 0]

\* The reference counts become `r'.  A buffer left without one is destroyed,
\* with its tpl_wayland_egl_buffer and wl_buffer proxy: the compositor's later
\* events for it are dropped.
CountsBecome(r) ==
    /\ ref' = r
    /\ wlBuffer' = [b \in Buffers |-> wlBuffer[b] /\ r[b] > 0]
    /\ bufReset' = [b \in Buffers |-> bufReset[b] /\ r[b] > 0]
    /\ scanout' = [b \in Buffers |-> IF r[b] > 0 THEN scanout[b] ELSE "idle"]

Unref(b) == CountsBecome([ref EXCEPT ![b] = Decremented(@)])

\* Mutant: the queue's reference is dropped on buffers it does not track.
QueueRefsDropped_Untracked ==
    [b \in Buffers |-> ref[b] - 1]

\* One reference less on every buffer the queue tracks.
QueueRefsDropped ==
    [b \in Buffers |-> IF node[b] = "none" THEN ref[b] ELSE Decremented(ref[b])]

ClearQueue == node' = Cleared(node) /\ CountsBecome(QueueRefsDropped)

\* Pop attached_buffers until it is empty, with an unref for each entry.
DropAttached ==
    /\ attached' = [b \in Buffers |-> 0]
    /\ CountsBecome([b \in Buffers |->
          IF attached[b] >= ref[b] THEN 0 ELSE ref[b] - attached[b]])

-----------------------------------------------------------------------------
(* Threads                                                                 *)

Ready(x) == cb[x] = "none"

At(x, label) == pc[x] = label /\ Ready(x)

Goto(x, label) == pc' = [pc EXCEPT ![x] = label]

GotoWith(x, label, b) == Goto(x, label) /\ buf' = [buf EXCEPT ![x] = b]

Return(x) == GotoWith(x, "idle", NoBuffer) /\ lock' = NoThread

Acquire(x) == lock = NoThread /\ lock' = x

Callback(x, label, b) ==
    /\ cb' = [cb EXCEPT ![x] = label]
    /\ cbBuf' = [cbBuf EXCEPT ![x] = b]

\* x is inside wl_display_dispatch_queue[_pending] on wl_tbm_event_queue.
Dispatching(x) ==
    /\ Ready(x)
    /\ \/ pc[x] \in {"deqPend", "deqWait", "flushPend", "finiPend"}
       \/ x \in Dispatchers /\ pc[x] = "idle"

\* Reading an event wakes every thread that polls the same connection, whoever
\* goes on to dispatch it.
WakeAll(label) == woken' = woken \cup {x \in Threads : pc[x] = label}

Others(x) == Threads \ {x}

-----------------------------------------------------------------------------
(* __tpl_wayland_egl_surface_init: an empty queue, empty lists, and no     *)
(* vblank to wait for.                                                     *)
Init ==
    /\ node = [b \in Buffers |-> "none"]
    /\ qSize = 0 /\ winSize = 0
    /\ ref = [b \in Buffers |-> 0]
    /\ wlBuffer = [b \in Buffers |-> FALSE]
    /\ bufReset = [b \in Buffers |-> FALSE]
    /\ attached = [b \in Buffers |-> 0]
    /\ dequeued = [b \in Buffers |-> 0]
    /\ reset = FALSE /\ resized = FALSE
    /\ vblankDone = TRUE /\ vblankWaiting = FALSE
    /\ lock = NoThread
    /\ pc = [x \in Threads |-> "idle"]
    /\ buf = [x \in Threads |-> NoBuffer]
    /\ cb = [x \in Threads |-> "none"]
    /\ cbBuf = [x \in Threads |-> NoBuffer]
    /\ held = {}
    /\ scanout = [b \in Buffers |-> "idle"]
    /\ front = NoBuffer
    /\ woken = {}
    /\ connected = TRUE
    /\ alive = TRUE

-----------------------------------------------------------------------------
(* tpl_surface_dequeue_buffer                                              *)

\* The call takes the object lock.  If the window was resized since the last
\* call, tbm_surface_queue_reset forgets every buffer and runs the reset
\* callback; libtbm may find that the queue has that size already and do nothing.
DequeueCall(t) ==
    /\ alive /\ At(t, "idle") /\ "dequeue" \in Runs[t] /\ Acquire(t)
    /\ Cardinality(held) < MaxHeld
    /\ \/ /\ resized
          /\ ClearQueue
          /\ qSize' = winSize
          /\ Goto(t, "deqReset")
          /\ UNCHANGED <<reset, resized>>
       \/ /\ resized /\ qSize = winSize
          /\ resized' = FALSE /\ reset' = FALSE
          /\ Goto(t, "deqPend")
          /\ UNCHANGED <<queueVars, bufferVars>>
       \/ /\ ~resized
          /\ Goto(t, "deqPend")
          /\ UNCHANGED <<queueVars, bufferVars, reset, resized>>
    /\ UNCHANGED <<listVars, winSize, vblankVars, buf, callbackVars, envVars, held>>

\* The buffers that attached_buffers and dequeued_buffers list are flagged:
\* they belong to the queue as it was before the reset.
Flagged ==
    [b \in Buffers |-> \/ bufReset[b]
                       \/ (attached[b] > 0 \/ dequeued[b] > 0) /\ wlBuffer[b]]

\* The reset callback of the queue this thread has just reset (it sets the
\* surface's reset flag), and then the resize is over.
DequeueReset(t) ==
    /\ At(t, "deqReset")
    /\ bufReset' = Flagged
    /\ resized' = FALSE /\ reset' = FALSE
    /\ Goto(t, "deqPend")
    /\ UNCHANGED <<queueVars, ref, wlBuffer, scanout, listVars, winSize, vblankVars,
                   buf, callbackVars, envVars, lock, held>>

CanDequeue == Dequeuable(node, IsAlive, QueueSize) # {}

\* wait_dequeuable: after the events already read have been dispatched, go on
\* with the lock held if a buffer is free, else give the lock up.
DequeuePend(t) ==
    /\ At(t, "deqPend")
    /\ IF CanDequeue
       THEN Goto(t, "deqQueue") /\ UNCHANGED lock
       ELSE Goto(t, "deqTest") /\ lock' = NoThread
    /\ UNCHANGED <<queueVars, bufferVars, listVars, flagVars, vblankVars, buf,
                   callbackVars, envVars, held>>

\* The loop ends when a buffer is free; else wl_display_dispatch_queue is entered.
\* What another thread dispatched up to here does not wake it.
DequeueTest(t) ==
    /\ At(t, "deqTest")
    /\ IF CanDequeue
       THEN Goto(t, "deqRelock")
       ELSE Goto(t, "deqWait")
    /\ UNCHANGED <<queueVars, bufferVars, listVars, flagVars, vblankVars, buf,
                   callbackVars, envVars, lock, held>>

\* wl_display_dispatch_queue returns once an event has arrived, and fails once
\* the connection is lost.
DequeueWait(t) ==
    /\ At(t, "deqWait")
    /\ \/ t \in woken /\ Goto(t, "deqTest")
       \/ ~connected /\ Goto(t, "deqFail")
    /\ woken' = woken \ {t}
    /\ UNCHANGED <<queueVars, bufferVars, listVars, flagVars, vblankVars, buf,
                   callbackVars, front, connected, alive, lock, held>>

DequeueRelock(t) ==
    /\ At(t, "deqRelock") /\ Acquire(t)
    /\ Goto(t, "deqQueue")
    /\ UNCHANGED <<queueVars, bufferVars, listVars, flagVars, vblankVars, buf,
                   callbackVars, envVars, held>>

\* The wait failed: lock, unlock, and return NULL.
DequeueFail(t) ==
    /\ At(t, "deqFail") /\ lock = NoThread
    /\ Return(t)
    /\ UNCHANGED <<queueVars, bufferVars, listVars, flagVars, vblankVars,
                   callbackVars, envVars, held>>

\* tbm_surface_queue_dequeue.  Another thread may have taken the buffer the
\* loop saw: then the call returns NULL.
DequeueQueue(t) ==
    /\ At(t, "deqQueue")
    /\ \/ \E b \in Dequeuable(node, IsAlive, QueueSize) :
            /\ node' = [node EXCEPT ![b] = "dequeued"]
            /\ ref' = [ref EXCEPT ![b] = IF node[b] = "none" THEN 1 ELSE @]
            /\ GotoWith(t, "deqRef", b)
            /\ UNCHANGED lock
       \/ ~CanDequeue /\ Return(t) /\ UNCHANGED <<node, ref>>
    /\ UNCHANGED <<qSize, wlBuffer, bufReset, scanout, listVars, flagVars, vblankVars,
                   callbackVars, envVars, held>>

\* tbm_surface_internal_ref.
DequeueRef(t) ==
    /\ At(t, "deqRef") /\ ref[buf[t]] > 0
    /\ ref' = [ref EXCEPT ![buf[t]] = @ + 1]
    /\ Goto(t, "deqFlag")
    /\ UNCHANGED <<queueVars, wlBuffer, bufReset, scanout, listVars, flagVars,
                   vblankVars, buf, callbackVars, envVars, lock, held>>

\* Mutant: the reference is kept when no wl_buffer could be created.
DequeueFlag_KeepsRef(t) ==
    LET b == buf[t] IN
    /\ At(t, "deqFlag")
    /\ \/ /\ wlBuffer' = [wlBuffer EXCEPT ![b] = TRUE]
          /\ bufReset' = [bufReset EXCEPT ![b] = FALSE]
          /\ reset' = FALSE
          /\ Goto(t, "deqPush")
          /\ UNCHANGED <<lock, buf>>
       \/ /\ ~wlBuffer[b] /\ "wl_buffer" \in Faults
          /\ Return(t)
          /\ UNCHANGED <<wlBuffer, bufReset, reset>>
    /\ UNCHANGED <<queueVars, ref, scanout, listVars, resized, winSize, vblankVars,
                   callbackVars, envVars, held>>

\* The buffer and the surface are up to date: a reset that ran on another thread
\* since the buffer left the queue is forgotten here.  A buffer seen for the
\* first time gets its wl_buffer; if that fails the reference is dropped and
\* the call returns NULL.
DequeueFlag(t) ==
    LET b == buf[t] IN
    /\ At(t, "deqFlag")
    /\ \/ /\ wlBuffer' = [wlBuffer EXCEPT ![b] = TRUE]
          /\ bufReset' = [bufReset EXCEPT ![b] = FALSE]
          /\ reset' = FALSE
          /\ Goto(t, "deqPush")
          /\ UNCHANGED <<ref, scanout, lock, buf>>
       \/ /\ ~wlBuffer[b] /\ "wl_buffer" \in Faults
          /\ Unref(b)
          /\ Return(t)
          /\ UNCHANGED reset
    /\ UNCHANGED <<queueVars, listVars, resized, winSize, vblankVars, callbackVars,
                   envVars, held>>

\* Track the buffer until it is enqueued, unlock, return it.
DequeuePush(t) ==
    LET b == buf[t] IN
    /\ At(t, "deqPush")
    /\ dequeued' = [dequeued EXCEPT ![b] = @ + 1]
    /\ held' = held \cup {b}
    /\ Return(t)
    /\ UNCHANGED <<queueVars, bufferVars, attached, flagVars, vblankVars, callbackVars,
                   envVars>>

-----------------------------------------------------------------------------
(* tpl_surface_enqueue_buffer                                              *)

\* Mutant: the vblank of the previous commit is not waited for.
EnqueueCall_NoVblankWait(t, b) ==
    /\ alive /\ At(t, "idle") /\ "enqueue" \in Runs[t] /\ b \in held
    /\ held' = held \ {b}
    /\ Acquire(t)
    /\ ref[b] > 0
    /\ GotoWith(t, "enqTrack", b)
    /\ UNCHANGED <<queueVars, bufferVars, listVars, flagVars, vblankVars, callbackVars,
                   envVars>>

\* The call takes the object lock, refuses a destroyed buffer, and gives the
\* lock up while it waits for the vblank of the previous commit.
EnqueueCall(t, b) ==
    /\ alive /\ At(t, "idle") /\ "enqueue" \in Runs[t] /\ b \in held
    /\ held' = held \ {b}
    /\ lock = NoThread
    /\ \/ ref[b] = 0 /\ UNCHANGED <<threadVars, lock>>
       \/ ref[b] > 0 /\ vblankDone /\ lock' = t /\ GotoWith(t, "enqTrack", b)
       \/ ref[b] > 0 /\ ~vblankDone /\ GotoWith(t, "vblCall", b) /\ UNCHANGED lock
    /\ UNCHANGED <<queueVars, bufferVars, listVars, flagVars, vblankVars, callbackVars,
                   envVars>>

\* tdm_client_handle_events is entered, whatever was dispatched up to here.
VblankCall(t) ==
    /\ At(t, "vblCall")
    /\ Goto(t, "vblWait")
    /\ UNCHANGED <<queueVars, bufferVars, listVars, flagVars, vblankVars, buf,
                   callbackVars, envVars, lock, held>>

\* It returns once an event has arrived, and is called again until vblank_done
\* or until it fails.
VblankWait(t) ==
    /\ At(t, "vblWait")
    /\ \/ t \in woken /\ Goto(t, IF vblankDone THEN "vblRelock" ELSE "vblCall")
       \/ "vblank" \in Faults /\ Goto(t, "vblRelock")
    /\ woken' = woken \ {t}
    /\ UNCHANGED <<queueVars, bufferVars, listVars, flagVars, vblankVars, buf,
                   callbackVars, front, connected, alive, lock, held>>

\* Mutant: the lock is not taken again after the wait.
VblankRelock_NoLock(t) ==
    /\ At(t, "vblRelock")
    /\ Goto(t, "enqTrack")
    /\ UNCHANGED <<queueVars, bufferVars, listVars, flagVars, vblankVars, buf,
                   callbackVars, envVars, lock, held>>

VblankRelock(t) ==
    /\ At(t, "vblRelock") /\ Acquire(t)
    /\ Goto(t, "enqTrack")
    /\ UNCHANGED <<queueVars, bufferVars, listVars, flagVars, vblankVars, buf,
                   callbackVars, envVars, held>>

\* Stop tracking the buffer as dequeued.
EnqueueTrack(t) ==
    LET b == buf[t] IN
    /\ At(t, "enqTrack")
    /\ dequeued' = [dequeued EXCEPT ![b] = Decremented(@)]
    /\ Goto(t, "enqCheck")
    /\ UNCHANGED <<queueVars, bufferVars, attached, flagVars, vblankVars, buf,
                   callbackVars, envVars, lock, held>>

\* A buffer flagged by a reset, or one the queue does not know any more, is
\* committed past the queue; otherwise tbm_surface_queue_enqueue takes it.
EnqueueCheck(t) ==
    LET b == buf[t] IN
    /\ At(t, "enqCheck")
    /\ \/ ~wlBuffer[b] /\ Return(t) /\ UNCHANGED node
       \/ /\ wlBuffer[b] /\ (bufReset[b] \/ node[b] = "none")
          /\ Goto(t, "commit")
          /\ UNCHANGED <<node, lock, buf>>
       \/ /\ wlBuffer[b] /\ ~bufReset[b] /\ node[b] # "none"
          /\ node' = [node EXCEPT ![b] = "dirty"]
          /\ Goto(t, "enqUnref")
          /\ UNCHANGED <<lock, buf>>
    /\ UNCHANGED <<qSize, bufferVars, listVars, flagVars, vblankVars, callbackVars,
                   envVars, held>>

\* Mutant: the reference taken by dequeue is never dropped.
EnqueueUnref_Keeps(t) ==
    /\ At(t, "enqUnref")
    /\ Goto(t, "enqAcquire")
    /\ UNCHANGED <<queueVars, bufferVars, listVars, flagVars, vblankVars, buf,
                   callbackVars, envVars, lock, held>>

\* The queue's reference is enough until the buffer is acquired again.
EnqueueUnref(t) ==
    /\ At(t, "enqUnref")
    /\ Unref(buf[t])
    /\ Goto(t, "enqAcquire")
    /\ UNCHANGED <<queueVars, listVars, flagVars, vblankVars, buf, callbackVars,
                   envVars, lock, held>>

\* Mutant: the buffer goes back to the free list as soon as it is acquired.
EnqueueAcquire_Frees(t) ==
    /\ At(t, "enqAcquire")
    /\ \E b \in InState(node, "dirty") :
         /\ node' = [node EXCEPT ![b] = "free"]
         /\ GotoWith(t, "enqRef", b)
    /\ UNCHANGED <<qSize, bufferVars, listVars, flagVars, vblankVars, callbackVars,
                   envVars, lock, held>>

\* tbm_surface_queue_acquire.  It fails only if the queue was cleared since.
EnqueueAcquire(t) ==
    /\ At(t, "enqAcquire")
    /\ \/ \E b \in InState(node, "dirty") :
            /\ node' = [node EXCEPT ![b] = "acquired"]
            /\ GotoWith(t, "enqRef", b)
            /\ UNCHANGED lock
       \/ InState(node, "dirty") = {} /\ Return(t) /\ UNCHANGED node
    /\ UNCHANGED <<qSize, bufferVars, listVars, flagVars, vblankVars, callbackVars,
                   envVars, held>>

\* Mutant: nothing is referenced for the compositor's use of the buffer.
EnqueueRef_None(t) ==
    /\ At(t, "enqRef") /\ ref[buf[t]] > 0
    /\ Goto(t, "commit")
    /\ UNCHANGED <<queueVars, bufferVars, listVars, flagVars, vblankVars, buf,
                   callbackVars, envVars, lock, held>>

EnqueueRef(t) ==
    /\ At(t, "enqRef") /\ ref[buf[t]] > 0
    /\ ref' = [ref EXCEPT ![buf[t]] = @ + 1]
    /\ Goto(t, "commit")
    /\ UNCHANGED <<queueVars, wlBuffer, bufReset, scanout, listVars, flagVars,
                   vblankVars, buf, callbackVars, envVars, lock, held>>

\* __tpl_wayland_egl_surface_commit: attach, damage, commit and flush.  It
\* asserts that the buffer still has its wl_buffer.
Commit(t) ==
    LET b == buf[t] IN
    /\ At(t, "commit") /\ wlBuffer[b]
    /\ scanout' = [scanout EXCEPT ![b] = "shown"]
    /\ front' = b
    /\ Goto(t, "track")
    /\ UNCHANGED <<queueVars, ref, wlBuffer, bufReset, listVars, flagVars, vblankVars,
                   buf, callbackVars, woken, connected, alive, lock, held>>

\* Start tracking the buffer until its release callback.
CommitTrack(t) ==
    LET b == buf[t] IN
    /\ At(t, "track")
    /\ attached' = [attached EXCEPT ![b] = @ + 1]
    /\ GotoWith(t, "arm", NoBuffer)
    /\ UNCHANGED <<queueVars, bufferVars, dequeued, flagVars, vblankVars, callbackVars,
                   envVars, lock, held>>

\* tdm_client_vblank_wait registers the vblank callback, or fails.
CommitArm(t) ==
    /\ At(t, "arm")
    /\ \/ vblankWaiting' = TRUE /\ Goto(t, "armed") /\ UNCHANGED <<lock, buf>>
       \/ "vblank" \in Faults /\ Return(t) /\ UNCHANGED vblankWaiting
    /\ UNCHANGED <<queueVars, bufferVars, listVars, flagVars, vblankDone, callbackVars,
                   envVars, held>>

\* Only after the registration is the vblank marked as outstanding.
CommitArmed(t) ==
    /\ At(t, "armed")
    /\ vblankDone' = FALSE
    /\ Return(t)
    /\ UNCHANGED <<queueVars, bufferVars, listVars, flagVars, vblankWaiting,
                   callbackVars, envVars, held>>

-----------------------------------------------------------------------------
(* Callbacks                                                               *)

\* A wl_buffer.release event is dispatched on x.  (The compositor's events for
\* a destroyed buffer were dropped with its proxy.)
ReleaseCallback(x) ==
    /\ Dispatching(x) /\ "release" \in Runs[x]
    /\ \E b \in Buffers :
         /\ scanout[b] = "released"
         /\ scanout' = [scanout EXCEPT ![b] = "idle"]
         /\ Callback(x, "relTrack", b)
    /\ WakeAll("deqWait")
    /\ UNCHANGED <<queueVars, ref, wlBuffer, bufReset, listVars, flagVars, vblankVars,
                   threadVars, front, connected, alive, lock, held>>

\* Mutant: the released buffer stays in attached_buffers.
ReleaseTrack_Keeps(x) ==
    /\ cb[x] = "relTrack"
    /\ Callback(x, "relQueue", cbBuf[x])
    /\ UNCHANGED <<queueVars, bufferVars, listVars, flagVars, vblankVars, threadVars,
                   envVars, lock, held>>

\* Stop tracking the released buffer as attached.
ReleaseTrack(x) ==
    LET b == cbBuf[x] IN
    /\ cb[x] = "relTrack"
    /\ IF wlBuffer[b]
       THEN attached' = [attached EXCEPT ![b] = Decremented(@)] /\ Callback(x, "relQueue", b)
       ELSE Callback(x, "relUnref", b) /\ UNCHANGED attached
    /\ UNCHANGED <<queueVars, bufferVars, dequeued, flagVars, vblankVars, threadVars,
                   envVars, lock, held>>

\* Mutant: the test of the reset flag is inverted.
ReleaseQueue_Inverted(x) ==
    LET b == cbBuf[x] IN
    /\ cb[x] = "relQueue"
    /\ node' = IF bufReset[b] THEN Released(node, b) ELSE node
    /\ Callback(x, "relUnref", b)
    /\ UNCHANGED <<qSize, bufferVars, listVars, flagVars, vblankVars, threadVars,
                   envVars, lock, held>>

\* A buffer of the current queue is free again.
ReleaseQueue(x) ==
    LET b == cbBuf[x] IN
    /\ cb[x] = "relQueue"
    /\ node' = IF bufReset[b] THEN node ELSE Released(node, b)
    /\ Callback(x, "relUnref", b)
    /\ UNCHANGED <<qSize, bufferVars, listVars, flagVars, vblankVars, threadVars,
                   envVars, lock, held>>

ReleaseUnref(x) ==
    /\ cb[x] = "relUnref"
    /\ Unref(cbBuf[x])
    /\ Callback(x, "none", NoBuffer)
    /\ UNCHANGED <<queueVars, listVars, flagVars, vblankVars, threadVars, envVars, lock,
                   held>>

\* A wl_tbm_queue event (active, deactive) makes libtbm reset the queue while
\* x dispatches; the reset callback follows.
ResetEvent(x) ==
    /\ alive /\ Dispatching(x) /\ "reset" \in Runs[x]
    /\ ClearQueue
    /\ Callback(x, "resetCb", NoBuffer)
    /\ WakeAll("deqWait")
    /\ UNCHANGED <<qSize, listVars, flagVars, vblankVars, threadVars, front, connected,
                   alive, lock, held>>

\* An event of another surface arrives while x waits for one.
OtherEvent(x) ==
    /\ pc[x] \in {"deqWait", "vblWait"} /\ x \notin woken
    /\ woken' = woken \cup {x}
    /\ UNCHANGED <<queueVars, bufferVars, listVars, flagVars, vblankVars, threadVars,
                   callbackVars, front, connected, alive, lock, held>>

\* Mutant: the reset callback flags the buffers and forgets the surface.
ResetCallback_SurfaceForgotten(x) ==
    /\ cb[x] = "resetCb"
    /\ bufReset' = Flagged
    /\ Callback(x, "none", NoBuffer)
    /\ UNCHANGED <<queueVars, ref, wlBuffer, scanout, listVars, flagVars,
                   vblankVars, threadVars, envVars, lock, held>>

\* __cb_tbm_surface_queue_reset_callback
ResetCallback(x) ==
    /\ cb[x] = "resetCb"
    /\ reset' = TRUE
    /\ bufReset' = Flagged
    /\ Callback(x, "none", NoBuffer)
    /\ UNCHANGED <<queueVars, ref, wlBuffer, scanout, listVars, resized, winSize,
                   vblankVars, threadVars, envVars, lock, held>>

\* The tdm client reports the vblank on whichever thread handles its events.
VblankCallback(x) ==
    /\ "vblank" \in Runs[x] /\ vblankWaiting
    /\ At(x, "vblWait") \/ (x \in Dispatchers /\ At(x, "idle"))
    /\ vblankDone' = TRUE /\ vblankWaiting' = FALSE
    /\ WakeAll("vblWait")
    /\ UNCHANGED <<queueVars, bufferVars, listVars, flagVars, threadVars, callbackVars,
                   front, connected, alive, lock, held>>

\* Mutant: the queue's size is compared with the size before the resize.
ResizeCallback_OldSize(x) ==
    /\ alive /\ At(x, "idle") /\ "resize" \in Runs[x]
    /\ \E s \in Sizes \ {winSize} :
         /\ winSize' = s
         /\ resized' = (resized \/ winSize # qSize)
    /\ UNCHANGED <<queueVars, bufferVars, listVars, reset, vblankVars, threadVars,
                   callbackVars, envVars, lock, held>>

\* wl_egl_window_resize on x: no lock is taken.
ResizeCallback(x) ==
    /\ alive /\ At(x, "idle") /\ "resize" \in Runs[x]
    /\ \E s \in Sizes \ {winSize} :
         /\ winSize' = s
         /\ resized' = (resized \/ s # qSize)
    /\ UNCHANGED <<queueVars, bufferVars, listVars, reset, vblankVars, threadVars,
                   callbackVars, envVars, lock, held>>

\* The flusher's flush event: dispatch what is pending, ...
FlushCallback(x) ==
    /\ alive /\ At(x, "idle") /\ "flush" \in Runs[x]
    /\ Goto(x, "flushPend")
    /\ UNCHANGED <<queueVars, bufferVars, listVars, flagVars, vblankVars, buf,
                   callbackVars, envVars, lock, held>>

\* ... tbm_surface_queue_flush (libtbm may report it as a reset), ...
FlushQueue(x) ==
    /\ At(x, "flushPend")
    /\ \/ /\ ClearQueue
          /\ Goto(x, "flushDrop")
          /\ Callback(x, "resetCb", NoBuffer) \/ UNCHANGED callbackVars
       \/ /\ ~connected /\ Goto(x, "idle")     \* the dispatch failed
          /\ UNCHANGED <<node, bufferVars, callbackVars>>
    /\ UNCHANGED <<qSize, listVars, flagVars, vblankVars, buf, envVars, lock, held>>

\* ... and drop the attached buffers without waiting for their release.
FlushDrop(x) ==
    /\ At(x, "flushDrop")
    /\ DropAttached
    /\ Goto(x, "idle")
    /\ UNCHANGED <<queueVars, dequeued, flagVars, vblankVars, buf, callbackVars, envVars,
                   lock, held>>

-----------------------------------------------------------------------------
(* Destruction: __tpl_wayland_egl_surface_fini runs when the last reference *)
(* to the surface is dropped, so no thread is inside a call of its own.     *)

FiniCall(t) ==
    /\ alive /\ At(t, "idle") /\ "fini" \in Runs[t]
    /\ \A x \in Others(t) \cap AppThreads : At(x, "idle")
    /\ Goto(t, "finiPend")
    /\ UNCHANGED <<queueVars, bufferVars, listVars, flagVars, vblankVars, buf,
                   callbackVars, envVars, lock, held>>

FiniQueue(t) ==
    /\ At(t, "finiPend")
    /\ ClearQueue
    /\ vblankWaiting' = FALSE
    /\ Goto(t, "finiDrop")
    /\ UNCHANGED <<qSize, listVars, flagVars, vblankDone, buf, callbackVars, envVars, lock,
                   held>>

\* Mutant: the attached buffers are forgotten, not unreferenced.
FiniDrop_KeepsRefs(t) ==
    /\ At(t, "finiDrop")
    /\ attached' = [b \in Buffers |-> 0] /\ dequeued' = [b \in Buffers |-> 0]
    /\ alive' = FALSE
    /\ Goto(t, "idle")
    /\ UNCHANGED <<queueVars, bufferVars, flagVars, vblankVars, buf, callbackVars, front,
                   woken, connected, lock, held>>

FiniDrop(t) ==
    /\ At(t, "finiDrop")
    /\ DropAttached
    /\ dequeued' = [b \in Buffers |-> 0]
    /\ alive' = FALSE
    /\ Goto(t, "idle")
    /\ UNCHANGED <<queueVars, flagVars, vblankVars, buf, callbackVars, front, woken,
                   connected, lock, held>>

-----------------------------------------------------------------------------
(* The compositor and the connection to it                                 *)

\* The compositor is done with a buffer.
ServerRelease(b) ==
    /\ connected /\ scanout[b] = "shown"
    /\ EarlyRelease \/ \A t \in AppThreads : ~(pc[t] = "track" /\ buf[t] = b)
    /\ scanout' = [scanout EXCEPT ![b] = "released"]
    /\ UNCHANGED <<queueVars, ref, wlBuffer, bufReset, listVars, flagVars, vblankVars,
                   threadVars, callbackVars, envVars, lock, held>>

Disconnect ==
    /\ connected /\ "connection" \in Faults
    /\ connected' = FALSE
    /\ UNCHANGED <<queueVars, bufferVars, listVars, flagVars, vblankVars, threadVars,
                   callbackVars, front, woken, alive, lock, held>>

Finished == ~alive /\ (\A x \in Threads : At(x, "idle")) /\ UNCHANGED vars

-----------------------------------------------------------------------------
\* The steps of a call that has begun: a thread inside a call keeps going.
CallStep(t) ==
    \/ DequeueReset(t) \/ DequeuePend(t) \/ DequeueTest(t) \/ DequeueWait(t)
    \/ DequeueRelock(t) \/ DequeueFail(t) \/ DequeueQueue(t) \/ DequeueRef(t)
    \/ DequeueFlag(t) \/ DequeuePush(t)
    \/ VblankCall(t) \/ VblankWait(t) \/ VblankRelock(t)
    \/ EnqueueTrack(t) \/ EnqueueCheck(t)
    \/ EnqueueUnref(t) \/ EnqueueAcquire(t) \/ EnqueueRef(t)
    \/ Commit(t) \/ CommitTrack(t) \/ CommitArm(t) \/ CommitArmed(t)
    \/ FiniQueue(t) \/ FiniDrop(t)

\* The steps of a callback that has begun.
CallbackStep(x) ==
    \/ ReleaseTrack(x) \/ ReleaseQueue(x) \/ ReleaseUnref(x) \/ ResetCallback(x)
    \/ FlushQueue(x) \/ FlushDrop(x)

\* What begins a call or a callback.
Begin(x) ==
    \/ ReleaseCallback(x) \/ ResetEvent(x) \/ VblankCallback(x) \/ ResizeCallback(x)
    \/ FlushCallback(x) \/ OtherEvent(x)

Next ==
    \/ \E t \in AppThreads : CallStep(t)
    \/ \E t \in AppThreads : DequeueCall(t)
    \/ \E t \in AppThreads, b \in Buffers : EnqueueCall(t, b)
    \/ \E t \in AppThreads : FiniCall(t)
    \/ \E x \in Threads : CallbackStep(x) \/ Begin(x)
    \/ \E b \in Buffers : ServerRelease(b)
    \/ Disconnect
    \/ Finished

Spec == Init /\ [][Next]_vars

\* A thread inside a call or a callback is scheduled, and a dispatch runs only
\* finitely many callbacks before the call it is part of goes on, and takes the
\* events in their order (hence SF); the compositor releases a buffer once it
\* shows a later one.  No fairness is asked of the application or of any other
\* event, and none of a wake-up that is not due.
Fairness ==
    /\ \A t \in AppThreads : SF_vars(CallStep(t))
    /\ \A x \in Threads : WF_vars(CallbackStep(x))
    /\ \A t \in AppThreads : SF_vars(ReleaseCallback(t)) /\ SF_vars(VblankCallback(t))
    /\ \A b \in Buffers : WF_vars(b # front /\ ServerRelease(b))

FairSpec == Spec /\ Fairness

-----------------------------------------------------------------------------
(* Who holds a buffer                                                      *)

\* Thread t works on b inside enqueue or dequeue with the reference it took
\* over from the application, or is about to hand to the application.
InHand(t, b) ==
    /\ buf[t] = b
    /\ pc[t] \in {"deqFlag", "deqPush", "vblCall", "vblWait", "vblRelock", "enqTrack",
                   "enqCheck", "enqUnref", "commit", "track"}

\* The release callback has taken b out of attached_buffers and has still to
\* drop the reference that stood for its entry.
Releasing(x, b) == cbBuf[x] = b /\ cb[x] \in {"relQueue", "relUnref"}

\* A release event for b has been sent and its callback has not run to the end.
ReleaseDue(b) == scanout[b] = "released" \/ \E x \in Threads : cbBuf[x] = b

One(p) == IF p THEN 1 ELSE 0

\* The references the code means to own on b: the queue's, the one of each
\* attached_buffers entry, and the one that travels with the application's use.
Owned(b) ==
    One(node[b] # "none") + attached[b]
    + One(b \in held) + Cardinality({t \in AppThreads : InHand(t, b)})
    + Cardinality({x \in Threads : Releasing(x, b)})

-----------------------------------------------------------------------------
(* Invariants                                                              *)

QueueTypes ==
    /\ node \in [Buffers -> NodeState]
    /\ qSize \in Sizes /\ winSize \in Sizes

BufferTypes ==
    /\ ref \in [Buffers -> Nat]
    /\ wlBuffer \in [Buffers -> BOOLEAN] /\ bufReset \in [Buffers -> BOOLEAN]
    /\ scanout \in [Buffers -> Scanout]
    /\ front \in Buffers \cup {NoBuffer}

ListTypes ==
    /\ attached \in [Buffers -> Nat] /\ dequeued \in [Buffers -> Nat]
    /\ held \in SUBSET Buffers

FlagTypes ==
    /\ reset \in BOOLEAN /\ resized \in BOOLEAN
    /\ vblankDone \in BOOLEAN /\ vblankWaiting \in BOOLEAN
    /\ woken \subseteq Threads
    /\ connected \in BOOLEAN /\ alive \in BOOLEAN

ThreadTypes ==
    /\ lock \in AppThreads \cup {NoThread}
    /\ pc \in [Threads -> LockedPC \cup UnlockedPC]
    /\ buf \in [Threads -> Buffers \cup {NoBuffer}]
    /\ cb \in [Threads -> CallbackPC]
    /\ cbBuf \in [Threads -> Buffers \cup {NoBuffer}]

\* Every variable has its type.
TypeOK == QueueTypes /\ BufferTypes /\ ListTypes /\ FlagTypes /\ ThreadTypes

\* The reference count of a buffer is the number of its owners: no path of
\* enqueue, dequeue, release, reset, flush or fini drops a reference twice or
\* keeps one (the discipline the comment at tpl_wayland_egl.c:863-869 argues).
RefCountBalanced == \A b \in Buffers : ref[b] = Owned(b)

\* No thread goes on with a destroyed tbm_surface: not the application with a
\* buffer it was given ("valid until next tpl_surface_dequeue_buffer()",
\* tpl.h:463), not a call, not a callback.
NoUseAfterDestroy ==
    /\ \A b \in held : ref[b] > 0
    /\ \A t \in AppThreads : buf[t] \in Buffers /\ pc[t] # "enqAcquire" => ref[buf[t]] > 0
    /\ \A x \in Threads : cbBuf[x] \in Buffers => ref[cbBuf[x]] > 0

\* A slot of the tbm_surface_queue is never lost: a buffer the queue counts as
\* dequeued is with the application or a call, and one it counts as acquired is
\* being committed, is with the compositor, or is being released.
NoSlotLost ==
    \A b \in Buffers :
        /\ node[b] = "dequeued" =>
              \/ b \in held \/ \E t \in AppThreads : buf[t] = b
        /\ node[b] = "dirty" => \E t \in AppThreads : buf[t] = b
        /\ node[b] = "acquired" =>
              \/ scanout[b] = "shown" \/ ReleaseDue(b)
              \/ \E t \in AppThreads : buf[t] = b

\* attached_buffers tracks a buffer "until release_cb called"
\* (tpl_wayland_egl.c:768): whatever it lists is still with the compositor.
TrackedUntilReleased ==
    \A b \in Buffers : attached[b] > 0 => scanout[b] = "shown" \/ ReleaseDue(b)

\* enqueue commits the buffer it was given: between its queue_enqueue and its
\* queue_acquire no other frame is in the queue, with any number of threads.
AcquiresOwnFrame ==
    \A b \in InState(node, "dirty") :
        \E t \in AppThreads : lock = t /\ buf[t] = b /\ pc[t] \in {"enqUnref", "enqAcquire"}

\* A stale buffer is not taken for a good one.  A dequeue that has forgotten the
\* resets so far hands out a buffer the queue still knows; and one that a later
\* reset, flush or resize flags in the application's hands (one buffer per frame)
\* means that tpl_surface_validate says FALSE until it is given back.
StaleMeansInvalid ==
    /\ \A t \in AppThreads : pc[t] \in {"deqFlag", "deqPush"} => node[buf[t]] # "none"
    /\ (lock = NoThread /\ \A x \in Threads : Ready(x)) =>
          \A b \in held : bufReset[b] => resized \/ reset

\* A new window size is acted on: either the queue has it, or the next dequeue
\* will reset the queue ("TPL updates such size information every time when a
\* buffer is queried", tpl.h:418).
ResizeNotLost == winSize # qSize => resized

\* Nothing of a destroyed surface is left with the compositor or in a callback,
\* whose listeners would reach freed memory, and the only buffers left are the
\* ones the application never enqueued.
FiniLeavesNothing ==
    ~alive => \A b \in Buffers :
        /\ scanout[b] = "idle" /\ \A x \in Threads : cbBuf[x] # b
        /\ ref[b] > 0 => b \in held

(* Action properties                                                       *)

\* The compositor gets at most one frame per vblank: each commit finds the
\* vblank of the previous one over.
OneCommitPerVblank ==
    [][\A t \in AppThreads : pc[t] = "commit" /\ pc'[t] = "track" => vblankDone]_vars

(* Refinement                                                              *)

\* The client has a buffer from tbm_surface_queue_dequeue to the wl_surface
\* commit or the failure of the enqueue; the display has it from the commit to
\* its release event.
WithClient(b) ==
    \/ b \in held
    \/ \E t \in AppThreads : buf[t] = b /\ pc[t] # "track"

Owner == [b \in Buffers |->
             IF scanout[b] = "shown" THEN "display"
             ELSE IF WithClient(b) THEN "client" ELSE "nobody"]

Flow == INSTANCE BufferFlow WITH owner <- Owner

\* The queue, the lists, the counts and the callbacks together keep the promise
\* of BufferFlow: no buffer goes straight from the display to the client, and
\* every frame shown is one the client had.
ImplementsBufferFlow == Flow!Spec

(* Liveness                                                                *)

\* A dequeue polls although a buffer is free: another thread dispatched the
\* release between the test of can_dequeue and the poll (tpl_wayland_egl.c:959-962),
\* and no other event has arrived since.
Overslept(t) == At(t, "deqWait") /\ CanDequeue

\* Every call returns, a dequeue that waits for a buffer and an enqueue that waits
\* for a vblank, unless the wake-up of a dequeue was lost for good.
CallsReturn ==
    \A t \in AppThreads : []<>(pc[t] = "idle") \/ <>[]Overslept(t)
=============================================================================
