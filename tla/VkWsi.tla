-------------------------------- MODULE VkWsi --------------------------------
(***************************************************************************)
(* One window surface of the Vulkan WSI backend (tpl_wayland_vk_wsi.c)     *)
(* with the worker thread that presents its images (tpl_worker_thread.c).  *)
(*                                                                         *)
(* The application's threads create and destroy the swapchain, dequeue     *)
(* images and enqueue frames; tpl_surface.c holds the object lock of the   *)
(* surface ("lock") around each of these calls.  The worker takes the      *)
(* frames from the queue, waits until they are drawn and commits them.     *)
(*                                                                         *)
(* The build is the default one, with USE_WORKER_THREAD 1.  create_        *)
(* swapchain forces the mailbox mode (917), which the display always       *)
(* supports (232), so draw_done always commits at once; the vblank list    *)
(* of the fifo modes is dead code and is not modelled.                     *)
(***************************************************************************)
EXTENDS Integers, Sequences, FiniteSets, Functions

CONSTANTS
    Renderers,      \* threads that create the swapchain and dequeue images
    Posters,        \* threads that enqueue frames
    Impatient,      \* renderers that pass a timeout
    Buffers,        \* tbm_surface addresses
    BufferCount,    \* buffer_count of the swapchain
    MaxHeld,        \* images the application holds at once
    Calls,          \* the calls beside dequeue and enqueue it makes
    Rules,          \* the rules it keeps
    Faults,         \* which calls may fail
    MaxCommits,     \* bound: commits of one buffer that may be unreleased at once
    OtherDispatch,  \* other threads dispatch the client's default queue
    NoThread, NoBuffer

Threads == Renderers \cup Posters

ASSUME SwapchainAssumption ==
    /\ Impatient \subseteq Renderers
    /\ IsFiniteSet(Buffers)
    /\ BufferCount \in 2..3             \* surface_capabilities, 230
    /\ MaxHeld \in Nat \ {0} /\ MaxCommits \in Nat \ {0}
    /\ Calls \subseteq {"get", "destroy"}
    /\ Rules \subseteq {"imagesFirst", "idleDestroy"}
    /\ Faults \subseteq {"epoll", "wl_buffer", "fence"}
    /\ OtherDispatch \in BOOLEAN
    /\ NoThread \notin Threads
    /\ NoBuffer \notin Buffers

VARIABLES
    created,        \* the surface has a tbm_queue
    listed,         \* the surface is on the worker's surface_list
    attached,       \* the buffers the tbm_queue owns
    free, dirty,    \* its free list and its list of frames
    ref,            \* reference count of each tbm_surface
    wl,             \* has it a tpl_wayland_vk_wsi_buffer with a wl_buffer?
    waitSync,       \* its wait_sync: the fence of the drawing commands
    lag,            \* its sync_timestamp minus the value of its timeline
    fence,          \* increments until the fence dequeue returned signals
    lost,           \* images dequeue could not make a wl_buffer for
    scanout,        \* commits of the buffer the compositor still uses
    releases,       \* wl_buffer.release events on their way
    shown,          \* the last buffer committed
    frameDue,       \* the compositor owes a frame callback
    frameDone,      \* a frame callback is on its way
    held,           \* images the application has
    pc, buf,        \* where each thread is and the buffer it works on
    taken,          \* swapchain_buffers of get_swapchain_buffers
    lock,           \* owner of the surface's object lock
    wpc, wbuf,      \* the same for the worker
    scanning,       \* the worker walks surface_list and holds surface_mutex
    drawWait,       \* draw_wait_buffer: its wait_sync is in the epoll set
    event           \* the worker's event fd is readable

queueVars == <<created, listed, attached, free, dirty, lost>>
syncVars == <<waitSync, lag, fence>>
serverVars == <<scanout, releases, shown, frameDue, frameDone>>
appVars == <<held, pc, buf, taken, lock>>
workerVars == <<wpc, wbuf, scanning, drawWait, event>>
vars == <<queueVars, ref, wl, syncVars, serverVars, appVars, workerVars>>

\* In a call, waiting for the object lock ...
Waiting == {"deqLock", "enqLock"}
\* ... and owning it.
Owning == {"deqTest", "asleep", "enqNotify", "enqDispatch", "getTake", "getGive",
           "unlist", "roundtrip", "destroy"}
Destroying == {"unlist", "roundtrip", "destroy"}
WorkerPC == {"epoll", "look", "acquire", "drawDone", "release", "signal"}

Init ==
    /\ created = FALSE /\ listed = FALSE
    /\ attached = {} /\ free = <<>> /\ dirty = <<>> /\ lost = {}
    /\ ref = [b \in Buffers |-> 0]
    /\ wl = [b \in Buffers |-> FALSE]
    /\ waitSync = [b \in Buffers |-> "none"]
    /\ lag = [b \in Buffers |-> 0]
    /\ fence = [b \in Buffers |-> 0]
    /\ scanout = [b \in Buffers |-> 0]
    /\ releases = [b \in Buffers |-> 0]
    /\ shown = NoBuffer /\ frameDue = FALSE /\ frameDone = FALSE
    /\ held = {}
    /\ pc = [t \in Threads |-> "idle"]
    /\ buf = [t \in Threads |-> NoBuffer]
    /\ taken = <<>>
    /\ lock = NoThread
    /\ wpc = "look" /\ wbuf = NoBuffer
    /\ scanning = FALSE /\ drawWait = NoBuffer /\ event = FALSE

-----------------------------------------------------------------------------
(* Helpers                                                                 *)

Goto(t, label) == pc' = [pc EXCEPT ![t] = label]

Acquire(t) == lock = NoThread /\ lock' = t

Return(t) ==
    /\ Goto(t, "idle")
    /\ buf' = [buf EXCEPT ![t] = NoBuffer]
    /\ lock' = NoThread

\* The reference counts become `r'; a buffer without a reference is destroyed
\* with its tpl_wayland_vk_wsi_buffer, and its wl_buffer proxy with it.
CountsBecome(r) ==
    /\ ref' = r
    /\ wl' = [b \in Buffers |-> wl[b] /\ r[b] > 0]

Dead == {b \in Buffers : ref[b] = 0}

AtLeast0(n) == IF n > 0 THEN n ELSE 0

\* The buffers tbm_surface_queue_dequeue may return: the first of the free
\* list, or one allocated now if none is free and some slot is still empty.
Dequeuable ==
    IF free # <<>> THEN {Head(free)}
    ELSE IF Cardinality(attached) < BufferCount THEN Dead
    ELSE {}

\* tbm_surface_queue_dequeue.
QueueDequeue(b) ==
    /\ b \in Dequeuable
    /\ free' = IF free # <<>> THEN Tail(free) ELSE free
    /\ attached' = attached \cup {b}

\* The references on b after that: the queue's, and `mine' for the caller.
RefsTaken(b, mine) ==
    [ref EXCEPT ![b] = IF b \in attached THEN @ + mine ELSE 1 + mine]

\* tbm_surface_queue_release: unknown surfaces are refused.
QueueRelease(b) ==
    free' = IF b \in attached THEN Append(free, b) ELSE free

Events == frameDone \/ \E b \in Buffers : releases[b] > 0

\* Every event that has arrived is dispatched.  The release callback drops
\* commit's reference if the surface still has its buffer data.
Dispatch ==
    /\ CountsBecome([b \in Buffers |->
          IF wl[b] THEN AtLeast0(ref[b] - releases[b]) ELSE ref[b]])
    /\ releases' = [b \in Buffers |-> 0]
    /\ frameDone' = FALSE
    /\ UNCHANGED <<scanout, shown, frameDue>>

\* Images that are with the application or in one of its calls.
Out == held \cup {buf[t] : t \in {x \in Threads : buf[x] # NoBuffer}}

Dequeuing == {t \in Threads : pc[t] \in {"deqLock", "deqTest", "asleep"}}

-----------------------------------------------------------------------------
(* create_swapchain, get_swapchain_buffers, destroy_swapchain              *)

CreateSwapchain(t) ==
    /\ t \in Renderers /\ pc[t] = "idle"
    /\ lock = NoThread
    /\ ~created                 \* the application creates one at a time
    /\ Cardinality(Dead) >= BufferCount
    /\ ~scanning                \* surface_mutex
    /\ created' = TRUE /\ listed' = TRUE
    /\ attached' = {} /\ free' = <<>> /\ dirty' = <<>> /\ lost' = {}
    /\ drawWait' = NoBuffer
    /\ UNCHANGED <<ref, wl, syncVars, serverVars, appVars, wpc, wbuf, scanning, event>>

\* "imagesFirst" is what Vulkan's loader does: the images are fetched once,
\* before any is dequeued.
GetCall(t) ==
    /\ "get" \in Calls
    /\ "imagesFirst" \in Rules => Cardinality(attached) < BufferCount
    /\ t \in Renderers /\ pc[t] = "idle" /\ created
    /\ Acquire(t)
    /\ Goto(t, "getTake")
    /\ UNCHANGED <<queueVars, ref, wl, syncVars, serverVars, held, buf, taken, workerVars>>

\* The first loop: dequeue buffer_count images, without free_queue_mutex.
GetTake(t) ==
    /\ pc[t] = "getTake"
    /\ Len(taken) < BufferCount
    /\ \E b \in Buffers :
          /\ QueueDequeue(b)
          /\ ref' = RefsTaken(b, 0)
          /\ taken' = Append(taken, b)
    /\ UNCHANGED <<created, listed, dirty, lost, wl, syncVars, serverVars, held, pc, buf, lock,
                   workerVars>>

\* All of them dequeued, or the queue is empty (get_buffer_fail).
GetTaken(t) ==
    /\ pc[t] = "getTake"
    /\ Len(taken) = BufferCount \/ Dequeuable = {}
    /\ Goto(t, "getGive")
    /\ UNCHANGED <<queueVars, ref, wl, syncVars, serverVars, held, buf, taken, lock,
                   workerVars>>

\* The second loop gives them back, in both cases.
GetGive(t) ==
    /\ pc[t] = "getGive"
    /\ IF taken # <<>>
       THEN /\ QueueRelease(Head(taken))
            /\ taken' = Tail(taken)
            /\ UNCHANGED <<pc, buf, lock>>
       ELSE Return(t) /\ UNCHANGED <<free, taken>>
    /\ UNCHANGED <<created, listed, attached, dirty, lost, ref, wl, syncVars, serverVars, held,
                   workerVars>>

\* The application is in no call and has no image when it destroys the
\* swapchain, and makes no call on it until that is done (Vulkan calls the
\* swapchain externally synchronized there); "idleDestroy" says that it also
\* knows, which nothing in the API tells it, that the worker has committed
\* every frame.
DestroyCall(t) ==
    /\ "destroy" \in Calls
    /\ t \in Renderers /\ created
    /\ held = {} /\ \A x \in Threads : pc[x] = "idle"
    /\ "idleDestroy" \in Rules =>
          dirty = <<>> /\ drawWait = NoBuffer /\ wpc \in {"epoll", "look"}
    /\ Acquire(t)
    /\ Goto(t, "unlist")
    /\ UNCHANGED <<queueVars, ref, wl, syncVars, serverVars, held, buf, taken, workerVars>>

DestroyUnlist(t) ==
    /\ pc[t] = "unlist"
    /\ ~scanning
    /\ listed' = FALSE
    /\ Goto(t, "roundtrip")
    /\ UNCHANGED <<created, attached, free, dirty, lost, ref, wl, syncVars, serverVars, held,
                   buf, taken, lock, workerVars>>

DestroyRoundtrip(t) ==
    /\ pc[t] = "roundtrip"
    /\ Dispatch
    /\ Goto(t, "destroy")
    /\ UNCHANGED <<queueVars, syncVars, held, buf, taken, lock, workerVars>>

\* Mutant: a reference is dropped on every buffer there is.
DestroyQueue_AllBuffers(t) ==
    /\ pc[t] = "destroy"
    /\ CountsBecome([b \in Buffers |->
          ref[b] - 1])
    /\ created' = FALSE
    /\ attached' = {} /\ free' = <<>> /\ dirty' = <<>> /\ lost' = {}
    /\ Return(t)
    /\ UNCHANGED <<listed, syncVars, serverVars, held, taken, workerVars>>

DestroyQueue(t) ==
    /\ pc[t] = "destroy"
    /\ CountsBecome([b \in Buffers |->
          IF b \in attached THEN AtLeast0(ref[b] - 1) ELSE ref[b]])
    /\ created' = FALSE
    /\ attached' = {} /\ free' = <<>> /\ dirty' = <<>> /\ lost' = {}
    /\ Return(t)
    /\ UNCHANGED <<listed, syncVars, serverVars, held, taken, workerVars>>

-----------------------------------------------------------------------------
(* dequeue_buffer                                                          *)

DequeueCall(t) ==
    /\ t \in Renderers /\ pc[t] = "idle" /\ created
    /\ \A x \in Threads : pc[x] \notin Destroying
    /\ "imagesFirst" \in Rules => Cardinality(attached) = BufferCount
    /\ Cardinality(Out) + Cardinality(Dequeuing) < MaxHeld
    /\ Goto(t, "deqLock")
    /\ UNCHANGED <<queueVars, ref, wl, syncVars, serverVars, held, buf, taken, lock,
                   workerVars>>

DequeueLock(t) ==
    /\ pc[t] = "deqLock"
    /\ Acquire(t)
    /\ Goto(t, "deqTest")
    /\ UNCHANGED <<queueVars, ref, wl, syncVars, serverVars, held, buf, taken, workerVars>>

\* The sync_fence of an image that has one outstanding, but for which no fence
\* could be created.
NoFence == -1

\* The fences dequeue may return with b: one for its sync_timestamp, which has
\* signalled already if nothing is outstanding, or, after an error that is only
\* logged, none.
FencesFor(outstanding) ==
    {AtLeast0(outstanding)} \cup {n \in {NoFence} : "fence" \in Faults /\ outstanding > 0}

\* Mutant: the image is handed out without a reference.
DequeueTake_NoRef(t) ==
    /\ pc[t] = "deqTest"
    /\ \E b \in Buffers :
          /\ QueueDequeue(b)
          /\ ref' = RefsTaken(b, 0)
          /\ wl' = [wl EXCEPT ![b] = TRUE]
          /\ lag' = IF wl[b] THEN lag ELSE [lag EXCEPT ![b] = 0]
          /\ \E f \in FencesFor(lag'[b]) : fence' = [fence EXCEPT ![b] = f]
          /\ held' = held \cup {b}
    /\ Return(t)
    /\ UNCHANGED <<created, listed, dirty, lost, waitSync, serverVars, taken, workerVars>>

\* can_dequeue and dequeue under free_queue_mutex.  A buffer seen before gets
\* a fence, a new one a wl_buffer and a timeline.
DequeueTake(t) ==
    /\ pc[t] = "deqTest"
    /\ \E b \in Buffers :
          /\ QueueDequeue(b)
          /\ ref' = RefsTaken(b, 1)
          /\ wl' = [wl EXCEPT ![b] = TRUE]
          /\ lag' = IF wl[b] THEN lag ELSE [lag EXCEPT ![b] = 0]
          /\ \E f \in FencesFor(lag'[b]) : fence' = [fence EXCEPT ![b] = f]
          /\ held' = held \cup {b}
    /\ Return(t)
    /\ UNCHANGED <<created, listed, dirty, lost, waitSync, serverVars, taken, workerVars>>

\* Creating the wl_buffer or its timeline fails: the reference is dropped, the
\* image stays dequeued in a queue that does not get it back.
DequeueFail(t) ==
    /\ pc[t] = "deqTest"
    /\ "wl_buffer" \in Faults
    /\ \E b \in Buffers :
          /\ QueueDequeue(b)
          /\ ~wl[b]
          /\ ref' = RefsTaken(b, 0)
          /\ lost' = lost \cup {b}
    /\ Return(t)
    /\ UNCHANGED <<created, listed, dirty, wl, syncVars, serverVars, held, taken, workerVars>>

\* No image is free: the thread waits on free_queue_cond, object lock in hand.
DequeueSleep(t) ==
    /\ pc[t] = "deqTest"
    /\ Dequeuable = {}
    /\ Goto(t, "asleep")
    /\ UNCHANGED <<queueVars, ref, wl, syncVars, serverVars, held, buf, taken, lock,
                   workerVars>>

DequeueTimeout(t) ==
    /\ pc[t] = "asleep"
    /\ t \in Impatient
    /\ Return(t)
    /\ UNCHANGED <<queueVars, ref, wl, syncVars, serverVars, held, taken, workerVars>>

-----------------------------------------------------------------------------
(* enqueue_buffer                                                          *)

\* (MaxCommits: an image that came without a fence may be posted again before the
\* compositor has released it.)
EnqueueCall(t) ==
    /\ t \in Posters /\ pc[t] = "idle"
    /\ \E b \in held :
          /\ fence[b] = NoFence => scanout[b] < MaxCommits
          /\ held' = held \ {b}
          /\ buf' = [buf EXCEPT ![t] = b]
    /\ Goto(t, "enqLock")
    /\ UNCHANGED <<queueVars, ref, wl, syncVars, serverVars, taken, lock, workerVars>>

\* Drop dequeue's reference, keep the drawing fence and put the frame in the
\* queue.  Without a fence the drawing is over, so the fence of dequeue was.
EnqueueQueue(t) ==
    LET b == buf[t] IN
    /\ pc[t] = "enqLock"
    /\ Acquire(t)
    /\ CountsBecome([ref EXCEPT ![b] = AtLeast0(@ - 1)])
    /\ \E sync \in {"none", "pending"} :
          /\ sync = "none" => fence[b] <= 0
          /\ waitSync' = [waitSync EXCEPT ![b] = sync]
    /\ dirty' = Append(dirty, b)
    /\ Goto(t, "enqNotify")
    /\ UNCHANGED <<created, listed, attached, free, lost, lag, fence, serverVars, held, buf,
                   taken, workerVars>>

\* Mutant: the worker is not told.
EnqueueNotify_Silent(t) ==
    /\ pc[t] = "enqNotify"
    /\ event' = event
    /\ Goto(t, "enqDispatch")
    /\ UNCHANGED <<queueVars, ref, wl, syncVars, serverVars, held, buf, taken, lock,
                   wpc, wbuf, scanning, drawWait>>

EnqueueNotify(t) ==
    /\ pc[t] = "enqNotify"
    /\ event' = TRUE
    /\ Goto(t, "enqDispatch")
    /\ UNCHANGED <<queueVars, ref, wl, syncVars, serverVars, held, buf, taken, lock,
                   wpc, wbuf, scanning, drawWait>>

\* wl_display_dispatch blocks until an event has arrived.
EnqueueDispatch(t) ==
    /\ pc[t] = "enqDispatch"
    /\ Events
    /\ Dispatch
    /\ Return(t)
    /\ UNCHANGED <<queueVars, syncVars, held, taken, workerVars>>

-----------------------------------------------------------------------------
(* The worker thread                                                       *)

\* epoll_wait reports the event fd.
WorkerNotified ==
    /\ wpc = "epoll" /\ event
    /\ event' = FALSE
    /\ wpc' = "look"
    /\ UNCHANGED <<queueVars, ref, wl, syncVars, serverVars, appVars, wbuf, scanning, drawWait>>

\* Mutant: any event counts as the fence's.
WorkerFence_AnyEvent ==
    /\ wpc = "epoll" /\ drawWait # NoBuffer
    /\ wbuf' = drawWait
    /\ wpc' = "drawDone"
    /\ UNCHANGED <<queueVars, ref, wl, syncVars, serverVars, appVars, scanning, drawWait,
                   event>>

\* epoll_wait reports the fence of draw_wait_buffer, and it has signalled.  An
\* assertion of draw_wait_fd_get ends the program if the buffer data is gone.
WorkerFence ==
    /\ wpc = "epoll" /\ drawWait # NoBuffer /\ wl[drawWait]
    /\ waitSync[drawWait] = "signalled"
    /\ wbuf' = drawWait
    /\ wpc' = "drawDone"
    /\ UNCHANGED <<queueVars, ref, wl, syncVars, serverVars, appVars, scanning, drawWait,
                   event>>

\* tbm_sync_fence_wait returns an error or a timeout: the worker logs it, keeps
\* the buffer in the epoll set and starts its loop over.
WorkerFenceError ==
    /\ wpc = "epoll" /\ drawWait # NoBuffer /\ wl[drawWait]
    /\ "fence" \in Faults
    /\ wpc' = "look"
    /\ UNCHANGED <<queueVars, ref, wl, syncVars, serverVars, appVars, wbuf, scanning,
                   drawWait, event>>

\* Mutant: draw_wait_buffer is not looked at.
WorkerLook_Overwrites ==
    /\ wpc = "look"
    /\ IF listed
       THEN scanning' = TRUE /\ wpc' = "acquire"
       ELSE wpc' = "epoll" /\ UNCHANGED scanning
    /\ UNCHANGED <<queueVars, ref, wl, syncVars, serverVars, appVars, wbuf, drawWait, event>>

\* The loop starts over: with surface_mutex, prepare_draw_wait_buffer for a
\* listed surface that waits for no buffer.
WorkerLook ==
    /\ wpc = "look"
    /\ IF listed /\ drawWait = NoBuffer
       THEN scanning' = TRUE /\ wpc' = "acquire"
       ELSE wpc' = "epoll" /\ UNCHANGED scanning
    /\ UNCHANGED <<queueVars, ref, wl, syncVars, serverVars, appVars, wbuf, drawWait, event>>

\* Acquire the next frame.  Its fence goes into the epoll set; without one, or
\* if that fails, the drawing counts as done.  (A frame that is not waited for
\* may show an image the compositor still has: MaxCommits is the model's bound.)
WorkerAcquire ==
    /\ wpc = "acquire" /\ dirty # <<>>
    /\ dirty' = Tail(dirty)
    /\ LET b == Head(dirty) IN
       \/ /\ waitSync[b] # "none"
          /\ drawWait' = b /\ scanning' = FALSE
          /\ wpc' = "epoll"
          /\ UNCHANGED wbuf
       \/ /\ \/ waitSync[b] = "none"
             \/ "epoll" \in Faults /\ scanout[b] + releases[b] < MaxCommits
          /\ wbuf' = b
          /\ wpc' = "drawDone"
          /\ UNCHANGED <<drawWait, scanning>>
    /\ UNCHANGED <<created, listed, attached, free, lost, ref, wl, syncVars, serverVars,
                   appVars, event>>

WorkerDrained ==
    /\ wpc = "acquire" /\ dirty = <<>>
    /\ scanning' = FALSE
    /\ wpc' = "epoll"
    /\ UNCHANGED <<queueVars, ref, wl, syncVars, serverVars, appVars, wbuf, drawWait, event>>

\* Mutant: the compositor's reference is missing.
WorkerDrawDone_NoRef ==
    /\ wpc = "drawDone"
    /\ ref[wbuf] > 0 /\ wl[wbuf]
    /\ waitSync' = [waitSync EXCEPT ![wbuf] = "none"]
    /\ ref' = ref
    /\ scanout' = [scanout EXCEPT ![wbuf] = @ + 1]
    /\ shown' = wbuf /\ frameDue' = TRUE
    /\ wpc' = "release"
    /\ UNCHANGED <<queueVars, wl, lag, fence, releases, frameDone, appVars, wbuf, scanning,
                   drawWait, event>>

\* process_draw_done up to the flush in commit_buffer.  Its assertions end the
\* program if the surface or its buffer data is gone.
WorkerDrawDone ==
    /\ wpc = "drawDone"
    /\ ref[wbuf] > 0 /\ wl[wbuf]
    /\ waitSync' = [waitSync EXCEPT ![wbuf] = "none"]
    /\ ref' = [ref EXCEPT ![wbuf] = @ + 1]
    /\ scanout' = [scanout EXCEPT ![wbuf] = @ + 1]
    /\ shown' = wbuf /\ frameDue' = TRUE
    /\ wpc' = "release"
    /\ UNCHANGED <<queueVars, wl, lag, fence, releases, frameDone, appVars, wbuf, scanning,
                   drawWait, event>>

\* Mutant: sync_timestamp is not incremented.
WorkerRelease_SameTimestamp ==
    /\ wpc = "release"
    /\ lag' = lag
    /\ QueueRelease(wbuf)
    /\ wpc' = "signal"
    /\ UNCHANGED <<created, listed, attached, dirty, lost, ref, wl, waitSync, fence, serverVars,
                   appVars, wbuf, scanning, drawWait, event>>

\* sync_timestamp++ and, under free_queue_mutex, the image is free again.
WorkerRelease ==
    /\ wpc = "release"
    /\ lag' = [lag EXCEPT ![wbuf] = @ + 1]
    /\ QueueRelease(wbuf)
    /\ wpc' = "signal"
    /\ UNCHANGED <<created, listed, attached, dirty, lost, ref, wl, waitSync, fence, serverVars,
                   appVars, wbuf, scanning, drawWait, event>>

\* Mutant: draw_wait_buffer is not cleared.
WorkerSignal_KeepsWait ==
    /\ wpc = "signal"
    /\ LET asleep == {t \in Threads : pc[t] = "asleep"} IN
       IF asleep = {} THEN UNCHANGED pc ELSE \E t \in asleep : Goto(t, "deqTest")
    /\ wpc' = IF scanning THEN "acquire" ELSE "look"
    /\ drawWait' = drawWait
    /\ wbuf' = NoBuffer
    /\ UNCHANGED <<queueVars, ref, wl, syncVars, serverVars, held, buf, taken, lock,
                   scanning, event>>

\* Mutant: free_queue_cond is not signalled.
WorkerSignal_Silent ==
    /\ wpc = "signal"
    /\ UNCHANGED pc
    /\ wpc' = IF scanning THEN "acquire" ELSE "look"
    /\ drawWait' = IF scanning THEN drawWait ELSE NoBuffer
    /\ wbuf' = NoBuffer
    /\ UNCHANGED <<queueVars, ref, wl, syncVars, serverVars, held, buf, taken, lock,
                   scanning, event>>

\* Signal free_queue_cond.  A worker that scans goes on with the next frame,
\* one that came from epoll clears draw_wait_buffer and starts its loop over.
WorkerSignal ==
    /\ wpc = "signal"
    /\ LET asleep == {t \in Threads : pc[t] = "asleep"} IN
       IF asleep = {} THEN UNCHANGED pc ELSE \E t \in asleep : Goto(t, "deqTest")
    /\ wpc' = IF scanning THEN "acquire" ELSE "look"
    /\ drawWait' = IF scanning THEN drawWait ELSE NoBuffer
    /\ wbuf' = NoBuffer
    /\ UNCHANGED <<queueVars, ref, wl, syncVars, serverVars, held, buf, taken, lock,
                   scanning, event>>

-----------------------------------------------------------------------------
(* The GPU and the compositor                                              *)

\* The drawing of b is over; it does not start before the fence of dequeue has
\* signalled, if there is one.
FenceSignals(b) ==
    /\ waitSync[b] = "pending" /\ fence[b] <= 0
    /\ waitSync' = [waitSync EXCEPT ![b] = "signalled"]
    /\ UNCHANGED <<queueVars, ref, wl, lag, fence, serverVars, appVars, workerVars>>

\* The compositor is done with one commit of b: it increments the timeline and
\* sends wl_buffer.release.
ServerRelease(b) ==
    /\ scanout[b] > 0
    /\ scanout' = [scanout EXCEPT ![b] = @ - 1]
    /\ releases' = [releases EXCEPT ![b] = @ + 1]
    /\ lag' = [lag EXCEPT ![b] = @ - 1]
    /\ fence' = [fence EXCEPT ![b] = IF @ > 0 THEN @ - 1 ELSE @]
    /\ UNCHANGED <<queueVars, ref, wl, waitSync, shown, frameDue, frameDone, appVars,
                   workerVars>>

ServerFrame ==
    /\ frameDue
    /\ frameDue' = FALSE /\ frameDone' = TRUE
    /\ UNCHANGED <<queueVars, ref, wl, syncVars, scanout, releases, shown, appVars,
                   workerVars>>

\* Another thread of the client dispatches the default queue.
DispatchElsewhere ==
    /\ OtherDispatch /\ Events
    /\ Dispatch
    /\ UNCHANGED <<queueVars, syncVars, appVars, workerVars>>

Lifecycle(t) ==
    \/ CreateSwapchain(t) \/ GetCall(t) \/ GetTake(t) \/ GetTaken(t) \/ GetGive(t)
    \/ DestroyCall(t) \/ DestroyUnlist(t) \/ DestroyRoundtrip(t) \/ DestroyQueue(t)

Dequeue(t) ==
    \/ DequeueCall(t) \/ DequeueLock(t) \/ DequeueTake(t) \/ DequeueFail(t)
    \/ DequeueSleep(t) \/ DequeueTimeout(t)

Enqueue(t) == EnqueueCall(t) \/ EnqueueQueue(t) \/ EnqueueNotify(t) \/ EnqueueDispatch(t)

Worker ==
    \/ WorkerNotified \/ WorkerFence \/ WorkerFenceError \/ WorkerLook \/ WorkerAcquire
    \/ WorkerDrained \/ WorkerDrawDone \/ WorkerRelease \/ WorkerSignal

Environment ==
    \/ ServerFrame \/ DispatchElsewhere
    \/ \E b \in Buffers : FenceSignals(b) \/ ServerRelease(b)

Next ==
    \/ Worker \/ Environment
    \/ \E t \in Threads : Lifecycle(t) \/ Dequeue(t) \/ Enqueue(t)

Spec == Init /\ [][Next]_vars

-----------------------------------------------------------------------------
(* Safety                                                                  *)

\* Every variable has the type its C declaration gives it.
TypeOK ==
    /\ {created, listed, frameDue, frameDone, scanning, event} \subseteq BOOLEAN
    /\ attached \subseteq Buffers /\ lost \subseteq Buffers /\ held \subseteq Buffers
    /\ {free, dirty, taken} \subseteq Seq(Buffers)
    /\ {ref, scanout, releases} \subseteq [Buffers -> Nat]
    /\ fence \in [Buffers -> Nat \cup {NoFence}]
    /\ wl \in [Buffers -> BOOLEAN]
    /\ waitSync \in [Buffers -> {"none", "pending", "signalled"}]
    /\ lag \in [Buffers -> Int]
    /\ {shown, wbuf, drawWait} \subseteq Buffers \cup {NoBuffer}
    /\ pc \in [Threads -> {"idle"} \cup Waiting \cup Owning]
    /\ buf \in [Threads -> Buffers \cup {NoBuffer}]
    /\ lock \in Threads \cup {NoThread}
    /\ wpc \in WorkerPC

One(p) == IF p THEN 1 ELSE 0

\* The application owns b: dequeue has returned it and enqueue not taken it.
Clients(b) == b \in held \/ \E t \in Threads : pc[t] = "enqLock" /\ buf[t] = b

\* The reference count of a buffer is exactly what its holders add up to: the
\* tbm_queue, the application between dequeue (635) and enqueue (496), and
\* every commit (444) whose release callback (1143) has not run, whatever order
\* the worker, the application's threads and the compositor take.
RefsExact ==
    \A b \in Buffers :
        ref[b] = One(b \in attached) + One(Clients(b)) + scanout[b] + releases[b]

\* An image the application may draw into is either no longer scanned out or
\* comes with a fence that signals when it no longer is (tpl.h:486 "Returned
\* buffers can used for render target after sync_fence signaled"), although
\* the worker gives the image back before the compositor has even seen it.  The
\* one exception is an image whose fence dequeue could not create: the code logs
\* that and returns it like one that is free (646-653).
FenceCovers == \A b \in Buffers : Clients(b) => fence[b] >= scanout[b] \/ fence[b] = NoFence

\* The frame the worker has in hand, not committed yet.
InHand ==
    IF wpc = "drawDone" THEN <<wbuf>>
    ELSE IF drawWait # NoBuffer /\ wpc \notin {"release", "signal"} THEN <<drawWait>>
    ELSE <<>>

Given == wpc = "release"

\* The places an image of the swapchain can be in.
Places(b) ==
      One(b \in Range(free)) + One(b \in Range(dirty)) + One(b \in Range(InHand))
    + One(Given /\ wbuf = b) + One(Clients(b)) + One(b \in Range(taken)) + One(b \in lost)

\* Every image of the swapchain is in exactly one place: free, posted, with the
\* worker, with the application, in the hands of get_swapchain_buffers, or lost
\* because its wl_buffer could not be created (669).  None is handed out twice,
\* and none is lost for another reason.
EachImageOnce ==
    /\ \A b \in attached : Places(b) = 1
    /\ \A s \in {free, dirty, taken} : Cardinality(Range(s)) = Len(s)

\* What the worker presents belongs to a swapchain that exists, and still has
\* its wl_buffer: destroy_swapchain has not pulled it away.
WorkerTouchesLive ==
    wpc \in {"drawDone", "release", "signal"} =>
        created /\ wbuf \in attached /\ ref[wbuf] > 0 /\ wl[wbuf]

\* process_draw_done is called with a tbm_surface that exists
\* (tpl_wayland_vk_wsi.c:789).
DrawDoneValid == wpc = "drawDone" => ref[wbuf] > 0

\* The frames are shown in the order they were posted, each once, and an image
\* is never the application's and in line at the same time.
Frames == INSTANCE FrameOrder WITH
    Images <- Buffers, NoImage <- NoBuffer, Forgetful <- FALSE,
    client <- {b \in Buffers : Clients(b)}, line <- InHand \o dirty

ImplementsFrameOrder == Frames!Spec

\* A buffer is committed only when the commands that draw it have finished, if
\* epoll takes every fence: neither an event that arrives for an older frame
\* nor a notification makes the worker commit early.
CommitsFinished ==
    [][\A b \in Buffers : scanout'[b] > scanout[b] => waitSync[b] # "pending"]_vars

-----------------------------------------------------------------------------
(* Liveness                                                                *)

\* A compositor keeps the last frame until the next one replaces it, and gives
\* the others back.
ServerReplaces(b) == (b # shown \/ scanout[b] > 1) /\ ServerRelease(b)

\* The threads and the worker run, drawing ends, the compositor answers; a
\* thread that waits for the object lock gets it if it is free again and again.
\* The application need not make another call.
Fairness ==
    /\ WF_vars(Worker) /\ WF_vars(ServerFrame)
    /\ \A t \in Threads :
          /\ WF_vars(GetTake(t) \/ GetTaken(t) \/ GetGive(t))
          /\ WF_vars(DestroyUnlist(t) \/ DestroyRoundtrip(t) \/ DestroyQueue(t))
          /\ SF_vars(DequeueLock(t))
          /\ WF_vars(DequeueTake(t) \/ DequeueSleep(t) \/ DequeueTimeout(t))
          /\ SF_vars(EnqueueQueue(t))
          /\ WF_vars(EnqueueNotify(t) \/ EnqueueDispatch(t))
    /\ \A b \in Buffers : WF_vars(FenceSignals(b)) /\ WF_vars(ServerReplaces(b))

FairSpec == Spec /\ Fairness

\* Every call returns: dequeue wakes up when the worker frees an image, enqueue
\* sees an event, and neither keeps the object lock from the other for good.
CallsReturn == \A t \in Threads : pc[t] # "idle" ~> pc[t] = "idle"

\* Every posted frame reaches the compositor: the worker misses no
\* notification and no fence.
FramesPresented == \A b \in Buffers : b \in Range(dirty) ~> shown = b
=============================================================================
