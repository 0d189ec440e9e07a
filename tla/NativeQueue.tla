----------------------------- MODULE NativeQueue -----------------------------
(***************************************************************************)
(* One window surface whose buffers come from a tbm_surface_queue that     *)
(* belongs to somebody else: the native window is the queue (tpl_tbm.c,    *)
(* for EGL "tbm" and for Vulkan "tbm_vulkan") or a gbm_surface that holds  *)
(* one (tpl_gbm.c, "gbm").  The consumer at the other end acquires the     *)
(* frames, releases them and may reset the queue.                          *)
(*                                                                         *)
(* For EGL enqueue waits for the drawing fence and puts the frame in the   *)
(* queue.  For Vulkan it puts the frame in draw_waiting_queue, and the     *)
(* worker thread (tpl_worker_thread.c) takes it from there, waits for the  *)
(* fence and puts it in the queue.  tpl_surface.c holds the object lock of *)
(* the surface around every call.                                          *)
(*                                                                         *)
(* create_swapchain forces the mailbox mode (365), so the vblank list is   *)
(* dead code and is not modelled; the failures of epoll_ctl and of         *)
(* tbm_sync_fence_wait are those of module VkWsi.                          *)
(***************************************************************************)
EXTENDS TbmQueue, Sequences, Functions

CONSTANTS
    Renderers,      \* threads that dequeue, and call everything but enqueue
    Posters,        \* threads that enqueue
    Backends,       \* the backends the surface may have
    Buffers,        \* tbm_surface addresses
    QueueSize,      \* size of the consumer's queue
    MaxHeld,        \* buffers the application holds at once
    Rules,          \* the rules the application and the consumer keep
    NoThread, NoBuffer

Threads == Renderers \cup Posters

\* "oneAtATime": the worker pops no frame while one is pushed.
\* "idleDestroy": the swapchain is destroyed when every frame is queued.
\* "quietConsumer": the queue is not reset while a dequeue is in the backend,
\* nor, for Vulkan, while the application has buffers.
\* "wholeFini": see FiniCall.
AllRules == {"oneAtATime", "idleDestroy", "quietConsumer", "wholeFini"}

ASSUME NativeAssumption ==
    /\ Backends \subseteq {"gbm", "tbm", "tbm_vulkan"}
    /\ IsFiniteSet(Buffers)
    /\ QueueSize \in Nat \ {0} /\ MaxHeld \in Nat \ {0}
    /\ Rules \subseteq AllRules
    /\ NoThread \notin Threads
    /\ NoBuffer \notin Buffers

VARIABLES
    backend,        \* backend.type of the surface
    alive,          \* the surface exists
    swapchain,      \* it is on the worker's surface_list
    node, dirty,    \* the queue's nodes, and its frames in order
    shown,          \* the frame the consumer acquired last
    ref,            \* reference count of each tbm_surface
    data,           \* has it a tpl_tbm_buffer or tpl_gbm_buffer?
    robbed,         \* buffers of the queue whose reference fini has dropped
    current,        \* current_buffer (gbm)
    sync,           \* drawing fence of each buffer; for Vulkan its wait_sync
    waiting,        \* draw_waiting_queue
    count,          \* its field count
    seen,           \* what the pushing thread has read of it
    held,           \* buffers the application may draw into
    pc, buf,        \* where each thread is and the buffer it works on
    taken,          \* swapchain_buffers of get_swapchain_buffers
    lock,           \* owner of the surface's object lock
    wpc, wbuf,      \* the same for the worker
    scanning,       \* the worker walks surface_list and holds surface_mutex
    drawWait,       \* draw_wait_buffer: its fence is in the epoll set
    event           \* the worker's event fd is readable

surfaceVars == <<backend, alive, swapchain, current>>
queueVars == <<node, dirty, shown>>
bufferVars == <<ref, data, robbed>>
listVars == <<waiting, count, seen>>
callVars == <<held, pc, buf, taken, lock>>
workerVars == <<wpc, wbuf, scanning, drawWait, event>>
vars == <<surfaceVars, queueVars, bufferVars, sync, listVars, callVars, workerVars>>

\* Where a thread can be: it waits for the object lock, ...
Waiting == {"deqLock", "enqLock"}
\* ... has it, ...
Owning == {"deqRef", "asleep", "enqFence", "push", "pushCount", "notify",
           "getTake", "getGive", "unlist", "drop"}
\* ... or finalises the surface, which no other thread may use any more.
Finalising == {"finiUnlist", "finiDrop"}
WorkerPC == {"epoll", "look", "pop", "drawDone"}

Vulkan == backend = "tbm_vulkan"

Init ==
    /\ backend \in Backends
    /\ alive = TRUE /\ swapchain = FALSE /\ current = NoBuffer
    /\ node = [b \in Buffers |-> "none"]
    /\ dirty = <<>> /\ shown = NoBuffer
    /\ ref = [b \in Buffers |-> 0]
    /\ data = [b \in Buffers |-> FALSE]
    /\ robbed = {}
    /\ sync = [b \in Buffers |-> "none"]
    /\ waiting = <<>> /\ count = 0 /\ seen = 0
    /\ held = {}
    /\ pc = [t \in Threads |-> "idle"]
    /\ buf = [t \in Threads |-> NoBuffer]
    /\ taken = {}
    /\ lock = NoThread
    /\ wpc = "look" /\ wbuf = NoBuffer
    /\ scanning = FALSE /\ drawWait = NoBuffer /\ event = FALSE

-----------------------------------------------------------------------------
(* Helpers                                                                 *)

Goto(t, label) == pc' = [pc EXCEPT ![t] = label]

Acquire(t) == lock = NoThread /\ lock' = t

Return(t) ==
    /\ Goto(t, "idle")
    /\ buf' = [buf EXCEPT ![t] = NoBuffer]
    /\ lock' = IF lock = t THEN NoThread ELSE lock

\* The reference counts become `r'; a buffer without one is destroyed with its
\* user data.
CountsBecome(r) ==
    /\ ref' = r
    /\ data' = [b \in Buffers |-> data[b] /\ r[b] > 0]

IsAlive == [b \in Buffers |-> ref[b] > 0]

Obtainable == Dequeuable(node, IsAlive, QueueSize)

\* tbm_surface_queue_dequeue gives b; a buffer allocated for it has the queue's
\* reference.
QueueDequeue(b) ==
    /\ b \in Obtainable
    /\ node' = [node EXCEPT ![b] = "dequeued"]
    /\ ref' = [ref EXCEPT ![b] = IF node[b] = "none" THEN 1 ELSE @]

\* tbm_surface_queue_enqueue refuses a buffer it does not track.
QueueEnqueue(b) ==
    IF node[b] = "dequeued"
    THEN node' = [node EXCEPT ![b] = "dirty"] /\ dirty' = Append(dirty, b)
    ELSE UNCHANGED <<node, dirty>>

Out == held \cup {buf[t] : t \in {x \in Threads : buf[x] # NoBuffer}}

Dequeuing == {t \in Threads : pc[t] \in {"deqLock", "deqRef", "asleep"}}

Idle == \A t \in Threads : pc[t] = "idle"

\* No thread destroys the surface or its swapchain; while one does, no other
\* may use it (Vulkan calls the swapchain externally synchronized there).
InUse == \A t \in Threads : pc[t] \notin {"unlist", "drop"} \cup Finalising

\* Every frame has gone from draw_waiting_queue to the consumer's queue.
WorkerDone == waiting = <<>> /\ drawWait = NoBuffer /\ wbuf = NoBuffer

-----------------------------------------------------------------------------
(* Creation and destruction of the surface and of its swapchain            *)

SurfaceInit(t) ==
    /\ t \in Renderers /\ Idle /\ ~alive
    /\ InState(node, "dequeued") = {} /\ robbed = {} \* the window is used again if whole
    /\ alive' = TRUE /\ current' = NoBuffer
    /\ UNCHANGED <<backend, swapchain, queueVars, bufferVars, sync, listVars, callVars,
                   workerVars>>

CreateSwapchain(t) ==
    /\ t \in Renderers /\ pc[t] = "idle" /\ alive /\ Vulkan /\ InUse
    /\ ~swapchain               \* the application creates one at a time
    /\ lock = NoThread
    /\ ~scanning                \* surface_mutex
    /\ swapchain' = TRUE
    /\ waiting' = <<>> /\ count' = 0
    /\ drawWait' = NoBuffer
    /\ UNCHANGED <<backend, alive, current, queueVars, bufferVars, sync, seen, callVars,
                   wpc, wbuf, scanning, event>>

DestroyCall(t) ==
    /\ t \in Renderers /\ Idle /\ held = {} /\ swapchain
    /\ "idleDestroy" \in Rules => WorkerDone
    /\ Acquire(t)
    /\ Goto(t, "unlist")
    /\ UNCHANGED <<surfaceVars, queueVars, bufferVars, sync, listVars, held, buf, taken,
                   workerVars>>

\* "wholeFini": the application has given every buffer back before it destroys
\* the surface, but perhaps the one that gbm gives back for it.
FiniCall(t) ==
    /\ t \in Renderers /\ Idle /\ alive
    /\ "idleDestroy" \in Rules => WorkerDone
    /\ "wholeFini" \in Rules =>
          held \subseteq (IF backend = "gbm" THEN {current} ELSE {})
    /\ Goto(t, IF swapchain THEN "finiUnlist" ELSE "finiDrop")
    /\ UNCHANGED <<surfaceVars, queueVars, bufferVars, sync, listVars, held, buf, taken, lock,
                   workerVars>>

\* __tpl_worker_surface_list_remove, for destroy_swapchain and for fini, which
\* calls it if the surface has a swapchain (need_worker_clear).
Unlist(t) ==
    /\ pc[t] \in {"unlist", "finiUnlist"}
    /\ ~scanning
    /\ swapchain' = FALSE
    /\ Goto(t, IF pc[t] = "unlist" THEN "drop" ELSE "finiDrop")
    /\ UNCHANGED <<backend, alive, current, queueVars, bufferVars, sync, listVars, held,
                   buf, taken, lock, workerVars>>

\* draw_waiting_queue is freed, without a call for its elements.
DropList(t) ==
    /\ pc[t] = "drop"
    /\ waiting' = <<>> /\ count' = 0
    /\ Return(t)
    /\ UNCHANGED <<surfaceVars, queueVars, bufferVars, sync, seen, held, taken, workerVars>>

\* Mutant: fini drops the references of the queue, too.
FiniRest_QueueRefs(t) ==
    /\ pc[t] = "finiDrop"
    /\ waiting' = <<>> /\ count' = 0
    /\ CountsBecome([b \in Buffers |-> ref[b] - 1])
    /\ alive' = FALSE /\ held' = {}
    /\ Return(t)
    /\ UNCHANGED <<backend, swapchain, current, queueVars, robbed, sync, seen, taken, workerVars>>

\* gbm drops a reference on current_buffer (326), the last buffer it has met for
\* the first time.  It is the application's if the application has that buffer;
\* if enqueue has given it back (374), it is the queue's.
FiniRest(t) ==
    /\ pc[t] = "finiDrop"
    /\ waiting' = <<>> /\ count' = 0
    /\ CountsBecome([b \in Buffers |->
          IF b = current THEN Decremented(ref[b]) ELSE ref[b]])
    /\ robbed' = {b \in Tracked(node) : b = current /\ b \notin held}
    /\ alive' = FALSE /\ held' = {}
    /\ Return(t)
    /\ UNCHANGED <<backend, swapchain, current, queueVars, sync, seen, taken, workerVars>>

GetCall(t) ==
    /\ t \in Renderers /\ pc[t] = "idle" /\ swapchain /\ InUse
    /\ Acquire(t)
    /\ Goto(t, "getTake")
    /\ UNCHANGED <<surfaceVars, queueVars, bufferVars, sync, listVars, held, buf, taken,
                   workerVars>>

\* The first loop dequeues as many buffers as the queue has, or all it can get.
GetTake(t) ==
    /\ pc[t] = "getTake"
    /\ IF Cardinality(taken) < QueueSize /\ Obtainable # {}
       THEN /\ \E b \in Obtainable : QueueDequeue(b) /\ taken' = taken \cup {b}
            /\ UNCHANGED pc
       ELSE Goto(t, "getGive") /\ UNCHANGED <<node, ref, taken>>
    /\ UNCHANGED <<surfaceVars, dirty, shown, data, robbed, sync, listVars, held, buf, lock,
                   workerVars>>

\* The second loop, or get_buffer_fail, releases them.
GetGive(t) ==
    /\ pc[t] = "getGive"
    /\ IF taken # {}
       THEN /\ \E b \in taken : node' = Released(node, b) /\ taken' = taken \ {b}
            /\ UNCHANGED <<pc, buf, lock>>
       ELSE Return(t) /\ UNCHANGED <<node, taken>>
    /\ UNCHANGED <<surfaceVars, dirty, shown, bufferVars, sync, listVars, held, workerVars>>

-----------------------------------------------------------------------------
(* dequeue_buffer                                                          *)

DequeueCall(t) ==
    /\ t \in Renderers /\ pc[t] = "idle" /\ alive /\ InUse
    /\ Vulkan => swapchain
    /\ Cardinality(Out) + Cardinality(Dequeuing) < MaxHeld
    /\ Goto(t, "deqLock")
    /\ UNCHANGED <<surfaceVars, queueVars, bufferVars, sync, listVars, held, buf, taken,
                   lock, workerVars>>

\* queue_dequeue, at once or after can_dequeue has waited for a buffer.
DequeueTake(t) ==
    /\ \/ pc[t] = "deqLock" /\ Acquire(t)
       \/ pc[t] = "asleep" /\ UNCHANGED lock
    /\ \E b \in Buffers : QueueDequeue(b) /\ buf' = [buf EXCEPT ![t] = b]
    /\ Goto(t, "deqRef")
    /\ UNCHANGED <<surfaceVars, dirty, shown, data, robbed, sync, listVars, held, taken,
                   workerVars>>

\* There is none: can_dequeue waits, object lock in hand, whatever the timeout.
DequeueSleep(t) ==
    /\ pc[t] = "deqLock"
    /\ Acquire(t)
    /\ Obtainable = {}
    /\ Goto(t, "asleep")
    /\ UNCHANGED <<surfaceVars, queueVars, bufferVars, sync, listVars, held, buf, taken,
                   workerVars>>

\* The reference for the application.  gbm remembers a buffer it meets for the
\* first time as current_buffer; libtbm refuses a buffer that is gone.
DequeueRef(t) ==
    LET b == buf[t] IN
    /\ pc[t] = "deqRef"
    /\ ref' = [ref EXCEPT ![b] = IF @ = 0 THEN 0 ELSE @ + 1]
    /\ data' = [data EXCEPT ![b] = backend # "tbm" /\ ref[b] > 0]
    /\ current' = IF backend = "gbm" /\ ~data[b] THEN b ELSE current
    /\ held' = held \cup {b}
    /\ Return(t)
    /\ UNCHANGED <<backend, alive, swapchain, queueVars, robbed, sync, listVars, taken,
                   workerVars>>
-----------------------------------------------------------------------------
(* enqueue_buffer                                                          *)

EnqueueCall(t) ==
    /\ t \in Posters /\ pc[t] = "idle" /\ alive /\ InUse
    /\ \E b \in held : held' = held \ {b} /\ buf' = [buf EXCEPT ![t] = b]
    /\ Goto(t, "enqLock")
    /\ UNCHANGED <<surfaceVars, queueVars, bufferVars, sync, listVars, taken, lock,
                   workerVars>>

\* The caller's fence: the buffer is still drawn into, or it gives none.
Fences == {"none", "pending"}

\* Vulkan: dequeue's reference goes and one for the list comes (536, 550); a
\* buffer that nothing else refers to would be gone before its wait_sync is set.
EnqueueKeep(t) ==
    /\ pc[t] = "enqLock" /\ Vulkan
    /\ Acquire(t)
    /\ ref[buf[t]] > 1
    /\ \E f \in Fences : sync' = [sync EXCEPT ![buf[t]] = f]
    /\ Goto(t, "push")
    /\ UNCHANGED <<surfaceVars, queueVars, bufferVars, listVars, held, buf, taken, workerVars>>

\* __tpl_list_push_back, without the mutex the worker takes: line 551 makes a
\* new mutex of it instead of locking it.  Of the push's writes only count++ is
\* taken apart, into its read and its write; a pop that overlaps the others can
\* also lose the node or write to a freed one, and only "oneAtATime", under which
\* none does, makes one step of them faithful.
Push(t) ==
    /\ pc[t] = "push"
    /\ waiting' = Append(waiting, buf[t])
    /\ seen' = count
    /\ Goto(t, "pushCount")
    /\ UNCHANGED <<surfaceVars, queueVars, bufferVars, sync, count, held, buf, taken, lock,
                   workerVars>>

PushCount(t) ==
    /\ pc[t] = "pushCount"
    /\ count' = seen + 1
    /\ Goto(t, "notify")
    /\ UNCHANGED <<surfaceVars, queueVars, bufferVars, sync, waiting, seen, held, buf, taken,
                   lock, workerVars>>

\* Mutant: the worker is not told.
Notify_Silent(t) ==
    /\ pc[t] = "notify"
    /\ event' = event
    /\ Return(t)
    /\ UNCHANGED <<surfaceVars, queueVars, bufferVars, sync, listVars, held, taken,
                   wpc, wbuf, scanning, drawWait>>

\* __tpl_worker_new_buffer_notify.
Notify(t) ==
    /\ pc[t] = "notify"
    /\ event' = TRUE
    /\ Return(t)
    /\ UNCHANGED <<surfaceVars, queueVars, bufferVars, sync, listVars, held, taken,
                   wpc, wbuf, scanning, drawWait>>

\* EGL: a buffer that is gone is refused; dequeue's reference goes.
EnqueueUnref(t) ==
    LET b == buf[t] IN
    /\ pc[t] = "enqLock" /\ ~Vulkan
    /\ IF ref[b] = 0
       THEN Return(t) /\ lock = NoThread /\ UNCHANGED <<bufferVars, sync>>
       ELSE /\ Acquire(t)
            /\ CountsBecome([ref EXCEPT ![b] = Decremented(@)])
            /\ \E f \in Fences : sync' = [sync EXCEPT ![b] = f]
            /\ Goto(t, "enqFence")
            /\ UNCHANGED <<buf, robbed>>
    /\ UNCHANGED <<surfaceVars, queueVars, listVars, held, taken, workerVars>>

\* Mutant: the fence is closed before it has signalled.
EnqueueQueue_NoWait(t) ==
    /\ pc[t] = "enqFence"
    /\ QueueEnqueue(buf[t])
    /\ Return(t)
    /\ UNCHANGED <<surfaceVars, shown, bufferVars, sync, listVars, held, taken, workerVars>>

\* Mutant: the error path of the queue keeps the object lock.
EnqueueQueue_KeepsLock(t) ==
    LET b == buf[t] IN
    /\ pc[t] = "enqFence" /\ sync[b] # "pending"
    /\ sync' = [sync EXCEPT ![b] = "none"]
    /\ QueueEnqueue(b)
    /\ IF node[b] = "dequeued"
       THEN Return(t)
       ELSE Goto(t, "idle") /\ buf' = [buf EXCEPT ![t] = NoBuffer] /\ UNCHANGED lock
    /\ UNCHANGED <<surfaceVars, shown, bufferVars, listVars, held, taken, workerVars>>

\* The fence has signalled: it is closed and the frame is the consumer's.  A
\* queue that was reset refuses it, and the frame is lost.
EnqueueQueue(t) ==
    LET b == buf[t] IN
    /\ pc[t] = "enqFence" /\ sync[b] # "pending"
    /\ sync' = [sync EXCEPT ![b] = "none"]
    /\ QueueEnqueue(b)
    /\ Return(t)
    /\ UNCHANGED <<surfaceVars, shown, bufferVars, listVars, held, taken, workerVars>>

-----------------------------------------------------------------------------
(* The worker thread                                                       *)

\* epoll_wait reports the event fd.
WorkerNotified ==
    /\ wpc = "epoll" /\ event
    /\ event' = FALSE
    /\ wpc' = "look"
    /\ UNCHANGED <<surfaceVars, queueVars, bufferVars, sync, listVars, callVars, wbuf,
                   scanning, drawWait>>

\* epoll_wait reports the fence of draw_wait_buffer, and it has signalled.
WorkerFence ==
    /\ wpc = "epoll" /\ drawWait # NoBuffer
    /\ sync[drawWait] = "signalled"
    /\ wbuf' = drawWait
    /\ wpc' = "drawDone"
    /\ UNCHANGED <<surfaceVars, queueVars, bufferVars, sync, listVars, callVars, scanning,
                   drawWait, event>>

\* Mutant: a notification makes the worker look although it waits for a fence.
WorkerLook_Overwrites ==
    /\ wpc = "look"
    /\ IF swapchain
       THEN scanning' = TRUE /\ wpc' = "pop"
       ELSE wpc' = "epoll" /\ UNCHANGED scanning
    /\ UNCHANGED <<surfaceVars, queueVars, bufferVars, sync, listVars, callVars, wbuf,
                   drawWait, event>>

\* The loop starts over: with surface_mutex, prepare_draw_wait_buffer for a
\* listed surface that waits for no buffer.
WorkerLook ==
    /\ wpc = "look"
    /\ IF swapchain /\ drawWait = NoBuffer
       THEN scanning' = TRUE /\ wpc' = "pop"
       ELSE wpc' = "epoll" /\ UNCHANGED scanning
    /\ UNCHANGED <<surfaceVars, queueVars, bufferVars, sync, listVars, callVars, wbuf,
                   drawWait, event>>

\* draw_wait_buffer_get finds the list empty by its count.
WorkerDrained ==
    /\ wpc = "pop" /\ count = 0
    /\ scanning' = FALSE
    /\ wpc' = "epoll"
    /\ UNCHANGED <<surfaceVars, queueVars, bufferVars, sync, listVars, callVars, wbuf,
                   drawWait, event>>

\* It pops a frame; the frame's fence goes into the epoll set, and a frame
\* without one counts as drawn.
WorkerPop ==
    /\ wpc = "pop" /\ count > 0 /\ waiting # <<>>
    /\ "oneAtATime" \in Rules => \A t \in Threads : pc[t] # "pushCount"
    /\ waiting' = Tail(waiting) /\ count' = count - 1
    /\ LET b == Head(waiting) IN
       \/ /\ sync[b] # "none"
          /\ drawWait' = b /\ scanning' = FALSE
          /\ wpc' = "epoll"
          /\ UNCHANGED wbuf
       \/ /\ sync[b] = "none"
          /\ wbuf' = b
          /\ wpc' = "drawDone"
          /\ UNCHANGED <<drawWait, scanning>>
    /\ UNCHANGED <<surfaceVars, queueVars, bufferVars, sync, seen, callVars, event>>

\* Mutant: the reference of the list is kept.
WorkerDrawDone_KeepsRef ==
    /\ wpc = "drawDone"
    /\ ref[wbuf] > 0 /\ data[wbuf]
    /\ sync' = [sync EXCEPT ![wbuf] = "none"]
    /\ UNCHANGED bufferVars
    /\ QueueEnqueue(wbuf)
    /\ wpc' = IF scanning THEN "pop" ELSE "look"
    /\ drawWait' = IF scanning THEN drawWait ELSE NoBuffer
    /\ wbuf' = NoBuffer
    /\ UNCHANGED <<surfaceVars, shown, listVars, callVars, scanning, event>>

\* draw_done: the fence is closed, the list's reference goes, and the frame is
\* the consumer's.  Then the worker pops the next one, or clears
\* draw_wait_buffer and starts its loop over.
WorkerDrawDone ==
    /\ wpc = "drawDone"
    /\ ref[wbuf] > 0 /\ data[wbuf]
    /\ sync' = [sync EXCEPT ![wbuf] = "none"]
    /\ CountsBecome([ref EXCEPT ![wbuf] = Decremented(@)])
    /\ QueueEnqueue(wbuf)
    /\ wpc' = IF scanning THEN "pop" ELSE "look"
    /\ drawWait' = IF scanning THEN drawWait ELSE NoBuffer
    /\ wbuf' = NoBuffer
    /\ UNCHANGED <<surfaceVars, shown, robbed, listVars, callVars, scanning, event>>

-----------------------------------------------------------------------------
(* The GPU and the consumer                                                *)

FenceSignals(b) ==
    /\ sync[b] = "pending"
    /\ sync' = [sync EXCEPT ![b] = "signalled"]
    /\ UNCHANGED <<surfaceVars, queueVars, bufferVars, listVars, callVars, workerVars>>

ConsumerAcquire ==
    /\ dirty # <<>>
    /\ node' = [node EXCEPT ![Head(dirty)] = "acquired"]
    /\ shown' = Head(dirty)
    /\ dirty' = Tail(dirty)
    /\ UNCHANGED <<surfaceVars, bufferVars, sync, listVars, callVars, workerVars>>

ConsumerRelease(b) ==
    /\ node[b] = "acquired"
    /\ node' = Released(node, b)
    /\ UNCHANGED <<surfaceVars, dirty, shown, bufferVars, sync, listVars, callVars,
                   workerVars>>

\* The consumer resets its queue, which forgets every buffer; the surface is
\* not told.
ConsumerReset ==
    /\ Tracked(node) # {}
    /\ "quietConsumer" \in Rules =>
          /\ \A t \in Threads : pc[t] \notin {"deqRef", "getTake", "getGive"}
          /\ Vulkan => Out = {}
    /\ node' = Cleared(node)
    /\ dirty' = <<>>
    /\ CountsBecome([b \in Buffers |->
          IF node[b] = "none" THEN ref[b] ELSE Decremented(ref[b])])
    /\ robbed' = {}
    /\ UNCHANGED <<surfaceVars, shown, sync, listVars, callVars, workerVars>>

Lifecycle(t) ==
    \/ SurfaceInit(t) \/ CreateSwapchain(t) \/ DestroyCall(t) \/ FiniCall(t)
    \/ Unlist(t) \/ DropList(t) \/ FiniRest(t) \/ GetCall(t) \/ GetTake(t) \/ GetGive(t)

Dequeue(t) == DequeueCall(t) \/ DequeueTake(t) \/ DequeueSleep(t) \/ DequeueRef(t)

Enqueue(t) ==
    \/ EnqueueCall(t) \/ EnqueueKeep(t) \/ Push(t) \/ PushCount(t) \/ Notify(t)
    \/ EnqueueUnref(t) \/ EnqueueQueue(t)

Worker ==
    \/ WorkerNotified \/ WorkerFence \/ WorkerLook \/ WorkerDrained \/ WorkerPop
    \/ WorkerDrawDone

Environment ==
    \/ ConsumerAcquire \/ ConsumerReset
    \/ \E b \in Buffers : FenceSignals(b) \/ ConsumerRelease(b)

Next ==
    \/ Worker \/ Environment
    \/ \E t \in Threads : Lifecycle(t) \/ Dequeue(t) \/ Enqueue(t)

Spec == Init /\ [][Next]_vars

-----------------------------------------------------------------------------
(* Safety                                                                  *)

\* Every variable has the type its C declaration gives it.
TypeOK ==
    /\ backend \in Backends
    /\ {alive, swapchain, scanning, event} \subseteq BOOLEAN
    /\ node \in [Buffers -> NodeState]
    /\ {dirty, waiting} \subseteq Seq(Buffers)
    /\ ref \in [Buffers -> Nat]
    /\ data \in [Buffers -> BOOLEAN] /\ robbed \subseteq Buffers
    /\ sync \in [Buffers -> {"none", "pending", "signalled"}]
    /\ {count, seen} \subseteq Nat
    /\ held \subseteq Buffers /\ taken \subseteq Buffers
    /\ pc \in [Threads -> {"idle"} \cup Waiting \cup Owning \cup Finalising]
    /\ buf \in [Threads -> Buffers \cup {NoBuffer}]
    /\ lock \in Threads \cup {NoThread}
    /\ wpc \in WorkerPC
    /\ {current, shown, wbuf, drawWait} \subseteq Buffers \cup {NoBuffer}

One(p) == IF p THEN 1 ELSE 0

CalledWith(b, labels) == \E t \in Threads : pc[t] \in labels /\ buf[t] = b

\* The frame the worker has in hand, not queued yet.
InHand ==
    IF wpc = "drawDone" THEN <<wbuf>>
    ELSE IF drawWait # NoBuffer THEN <<drawWait>>
    ELSE <<>>

\* The reference count of a buffer is exactly what its holders add up to: the
\* queue, the application between dequeue (tpl_tbm.c:634, tpl_gbm.c:445) and
\* enqueue (536, 374) or the destruction of a gbm surface, and for Vulkan the
\* waiting list (550) until draw_done (280), whatever order the application,
\* the worker and a consumer that resets the queue take.  The one exception is
\* current_buffer of a gbm surface destroyed after it was enqueued: fini (326)
\* drops the queue's reference, and the queue is left with a buffer that is gone.
RefsExact ==
    \A b \in Buffers :
        ref[b] + One(b \in robbed)
             = One(node[b] # "none") + One(b \in held \/ CalledWith(b, {"enqLock", "push"}))
               + One(b \in Range(waiting)) + One(b \in Range(InHand))

\* The places outside the queue a buffer can be in.
Places(b) ==
      One(b \in held) + One(CalledWith(b, {"deqRef", "enqLock", "enqFence", "push"}))
    + One(b \in Range(waiting)) + One(b \in Range(InHand)) + One(b \in taken)

\* A buffer is in one place.  One that the queue takes for dequeued is with the
\* application, waits in draw_waiting_queue, is with the worker or in the hands
\* of get_swapchain_buffers, unless the surface is gone; any other buffer of
\* the queue is nowhere else, and a frame the consumer may see is drawn.  So
\* none is queued twice, none is lost between the list, draw_wait_buffer and
\* the queue, and enqueue (564) or the worker has waited for the right fence.
EachFrameOnce ==
    /\ \A b \in Buffers :
          /\ Places(b) <= 1
          /\ node[b] = "dequeued" =>
                Places(b) = 1 \/ ~alive
          /\ node[b] \in {"free", "dirty", "acquired"} => Places(b) = 0
          /\ node[b] \in {"dirty", "acquired"} => sync[b] # "pending"
    /\ \A s \in {dirty, waiting} : Cardinality(Range(s)) = Len(s)
    /\ {b \in Buffers : node[b] = "dirty"} = Range(dirty)

\* __tpl_list_remove has a node to remove (tpl_utils.h:514, 515 assert that it
\* has neighbours, which the list's head and tail have not both).
PopHasNode == wpc = "pop" /\ count > 0 => waiting # <<>>

\* Frames reach the consumer in the order they were enqueued, each once, except
\* those a reset of the queue forgets; no buffer is the application's while it
\* is on its way.
Frames == INSTANCE FrameOrder WITH
    Images <- Buffers, NoImage <- NoBuffer, Forgetful <- TRUE,
    client <- held \cup {b \in Buffers : CalledWith(b, {"enqLock", "enqFence", "push"})},
    line <- dirty \o InHand \o waiting

ImplementsFrameOrder == Frames!Spec

-----------------------------------------------------------------------------
(* Liveness                                                                *)

\* A consumer keeps a frame until it has acquired the next one.
ConsumerReplaces(b) == b # shown /\ ConsumerRelease(b)

\* The threads and the worker run, drawing ends, the consumer takes frames and
\* gives back those it has replaced; a thread that waits for the object lock
\* gets it if it is free again and again.
Fairness ==
    /\ WF_vars(Worker) /\ SF_vars(WorkerPop) /\ WF_vars(ConsumerAcquire)
    /\ \A t \in Threads :
          /\ WF_vars(Unlist(t) \/ DropList(t) \/ FiniRest(t) \/ GetTake(t) \/ GetGive(t))
          /\ SF_vars(DequeueTake(t) \/ DequeueSleep(t)) /\ WF_vars(DequeueRef(t))
          /\ SF_vars(EnqueueKeep(t) \/ EnqueueUnref(t))
          /\ WF_vars(EnqueueQueue(t) \/ Push(t) \/ PushCount(t) \/ Notify(t))
    /\ \A b \in Buffers : WF_vars(FenceSignals(b)) /\ WF_vars(ConsumerReplaces(b))

FairSpec == Spec /\ Fairness

\* A renderer sleeps in can_dequeue, and nothing is on its way that could wake it:
\* what is not with the application is the frame the consumer keeps.  The lock the
\* renderer has shuts out the poster that would give a buffer back.
ShutOut ==
    /\ \E t \in Renderers : pc[t] = "asleep"
    /\ held # {} \/ \E t \in Posters : pc[t] = "enqLock"
    /\ Obtainable = {} /\ dirty = <<>> /\ waiting = <<>> /\ InHand = <<>>
    /\ InState(node, "acquired") \subseteq {shown}

\* Every call returns, dequeue included, which waits with the object lock, unless
\* the application lets a renderer sleep for a buffer that only it can give back.
CallsReturn == (\A t \in Threads : pc[t] # "idle" ~> pc[t] = "idle") \/ <>[]ShutOut

\* Every frame in draw_waiting_queue gets to the consumer, unless the queue is
\* reset: the worker misses no notification and no fence.
FramesReachConsumer ==
    \A b \in Buffers : b \in Range(waiting) ~> shown = b \/ node[b] = "none"
=============================================================================
