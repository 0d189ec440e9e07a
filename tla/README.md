# Verification of libtpl-egl

libtpl-egl is the buffer layer below Tizen's EGL and Vulkan drivers. A driver creates a
`tpl_display_t` for a native display and `tpl_surface_t`s for its windows; it dequeues a buffer
(`tbm_surface_h`), renders into it and enqueues it, and a backend takes the frame to the
compositor. This directory holds TLA+ models of that code, the TLC configurations that check them on
small instances, and theorems about them that TLAPS proves for every instance.

Paths below are relative to `src/src/`.

## 1. Inventory

| Part | State | Operations | Hard behaviour | What makes it correct |
|---|---|---|---|---|
| Objects (`tpl_object.c`) | type, reference count, user data, recursive lock per object | init, fini, reference, unreference, lock, user data | the validity check and the count update are two steps | freed once, by whoever drops the last reference; never used afterwards |
| Runtime and display registry (`tpl.c`, `tpl_display.c`) | hash list from native handle to display, under the runtime's lock | find, add, remove; display create, get, free; choice of the backend | look-up, creation and insertion are separate critical sections; removal is by key | one display per native handle; what the registry lists is alive |
| Surface front end (`tpl_surface.c`) | type, size, frontbuffer, post interval, backend data | create, validate, dequeue, enqueue, swapchain calls, destroy | every backend call runs under the object lock, which the backend may give up inside | one backend call at a time; frontbuffer mode returns the same buffer |
| Wayland-EGL backend (`tpl_wayland_egl.c`) | tbm queue, dequeued and attached lists, per-buffer reset flag and wl_buffer, reset/resized/vblank_done flags | dequeue, enqueue, commit, validate, fini; release, reset, resize, vblank and flush callbacks | callbacks on any thread that dispatches the shared queues; the lock is given up while waiting; resets while buffers are out | exact reference counts, no buffer drawn into while it is shown, no lost slot, no stale buffer taken for valid, one commit per vblank, calls return |
| Vulkan WSI backend (`tpl_wayland_vk_wsi.c`) | swapchain buffers, queue, present mode, free-queue condition | create/destroy swapchain, dequeue with timeout, enqueue, draw_done, vblank, release | a worker thread presents; dequeue sleeps on a condition under the object lock | every image comes back to the free list; dequeue returns; destruction waits for the worker |
| Worker thread (`tpl_worker_thread.c`) | list of surfaces, event fd, epoll set, vblank fd | register, unregister, notify, loop | surfaces come and go while the loop waits on their fences | nothing is called on an unregistered surface |
| TBM backend (`tpl_tbm.c`) | a queue that is another's, `draw_waiting_queue` | init, fini, dequeue, enqueue, swapchain, draw_done | the list is shared with the worker; the consumer resets the queue without telling the surface | exact reference counts, each buffer in one place, frames reach the consumer once and in order |
| GBM backend (`tpl_gbm.c`) | the queue of the gbm surface, `current_buffer` | init, fini, dequeue, enqueue | lock_front/release by the client; fini drops a reference on `current_buffer` | as for TBM |
| wl_egl_window (`wayland-egl/wayland-egl.c`) | size, offset, attached size, rotation, callbacks to TPL | create, resize, rotate, destroy | callbacks run on the caller's thread, and stay when the surface goes; a new window is resized before its fields are set | TPL hears of every change, and of none without a surface |
| Containers (`tpl_utils*.{h,c}`) | list, hash list, map | insert, remove, look up, clear | removal while walking; keys are compared as ints | behave as sequence, table, table; owned data is freed once |
| X11 backends (`tpl_x11_*.c`) | - | - | - | legacy, does not match `tpl_internal.h` any more |
| Protocol glue (`protocol/`) | - | - | - | generated |
| Tests, googletest (`../tc/`) | - | - | - | not part of the library |

How they interact: a driver's call takes the object lock of the surface (`tpl_surface.c`) and enters
the backend through a table of function pointers. The Wayland-EGL backend shares one connection, one
`wl_tbm_event_queue` and one tdm client among all surfaces of a display: any thread that waits for
*its* surface dispatches the callbacks of *all* of them. libtbm's queue, libwayland and the
compositor are outside the repository.

## 2. Plan

1. **Core** (done): `TbmQueue`, `WaylandEgl`, `BufferFlow` (abstract), `MCWaylandEgl`,
   `WaylandEglProofs`, `WaylandEglBufferProofs`.
2. Display registry (done): `DisplayRegistry`, `MCDisplayRegistry`, `DisplayRegistryProofs`.
3. Vulkan WSI with its worker thread (done): `VkWsi`, `FrameOrder` (abstract), `MCVkWsi`,
   `VkWsiProofs`.
4. TBM and GBM backends (done): `NativeQueue`, `MCNativeQueue`, `NativeQueueProofs`; `SequenceLemmas`
   has what both proofs need of sequences.
5. `wl_egl_window`, front-buffer mode and the backend over the life of a window (done):
   `WindowSurface`, `MCWindowSurface`, `WindowSurfaceProofs`. The containers against a sequence and a
   table (done): `Containers`, `Deque` and `KeyedStore` (abstract), `TplList`, `HashList`, `UtilMap`,
   `MCContainers`, `ContainersProofs`.
6. Proofs (done for every safety property, action property and refinement that a run checks; section 5
   says what stays with TLC).

## 3. Modules

### TbmQueue
The `tbm_surface_queue` as its callers rely on it: a function from buffers to node states, and the
reference count of a `tbm_surface`. External: libtbm is not in the repository.

### WaylandEgl
One window surface. The state is that of `tpl_wayland_egl_surface`: `attached`, `dequeued` (how often
each list names a buffer), `reset`, `resized`, `vblankDone`; that of each `tpl_wayland_egl_buffer`
(`wlBuffer`: it exists, `bufReset`: its flag); the queue (`node`, `qSize`), the window's size
(`winSize`), each buffer's reference count (`ref`), what the compositor does with it (`scanout`), the
object lock (`lock`), where each thread is (`pc`, `buf`), which callback it runs (`cb`, `cbBuf`), and
which threads have an event to wake up for (`woken`).

A call is a sequence of actions cut where another thread can see the difference: at every call into
libtbm, libwayland or libtdm, at every list operation (atomic under the backend object's own lock),
and where the object lock is given up. Callbacks are threads' actions too: `Dispatching(x)` says when
thread x is inside a dispatch of the shared queue, and `Runs` which callbacks each thread handles. A
wait is two actions, the test and the poll (DequeueTest and DequeueWait, VblankCall and VblankWait): a
thread that polls wakes up for an event that arrives from then on, not for one another thread
dispatched between its test and its poll.

| Code | Actions |
|---|---|
| dequeue_buffer | DequeueCall, DequeueReset, DequeuePend, DequeueTest, DequeueWait, DequeueRelock, DequeueFail, DequeueQueue, DequeueRef, DequeueFlag, DequeuePush |
| enqueue_buffer, wait_vblank | EnqueueCall, VblankCall, VblankWait, VblankRelock, EnqueueTrack, EnqueueCheck, EnqueueUnref, EnqueueAcquire, EnqueueRef |
| commit | Commit, CommitTrack, CommitArm, CommitArmed |
| release callback | ReleaseCallback, ReleaseTrack, ReleaseQueue, ReleaseUnref |
| reset, vblank, resize callbacks | ResetEvent, ResetCallback, VblankCallback, ResizeCallback |
| flush callback | FlushCallback, FlushQueue, FlushDrop |
| surface_fini | FiniCall, FiniQueue, FiniDrop |
| compositor, connection, other surfaces' events | ServerRelease, Disconnect, OtherEvent |

The names ending in an underscore and a word (`EnqueueRef_None`) are mutants: what the definition after
them would be with a plausible bug. They are used by no specification; they show that the properties
can fail.

Left out: front-buffer mode and rotation (module `WindowSurface`), pixmaps, tracing, allocation failure,
fences, the damage rectangles.

### BufferFlow
What a surface promises whatever it keeps: a buffer is with nobody, the client or the display; it
reaches the display only from the client and never goes back to the client directly. `WaylandEgl`
refines it by `owner <- Owner`.

### DisplayRegistry
Display objects and the runtime's lists of them, used by several threads. `magic` and `count` are the
fields of `tpl_object_t`, `kind` and `native` the backend and handle of each display, `registered` the
hash list of each backend from handle to display, `pc`, `obj` and `req` where each thread is, on which
display and with which arguments.

| Code | Actions |
|---|---|
| tpl_display_create | CreateFound, CreateMissed, CreateRefused, NewDisplay, AddDisplay, AddRefused |
| tpl_display_get | DisplayGet |
| tpl_object_reference | ReferenceCall, ReferenceFound, ReferenceInc |
| tpl_object_unreference, __tpl_display_free | UnreferenceCall, UnreferenceDec, ObjectFini, RemoveDisplay, FreeDisplay |
| the application | HandOver |

The runtime's mutex makes each look-up, insertion and removal one step; the calls around them are not
atomic. The library asks something of the application that no document states: create and get
return a display without a reference for the caller, so an application that looks displays up on one
thread and drops them on another must exclude the two. `Guarded` are the handles for which it does
(and references what it found before it lets go); for the other handles every interleaving of create
and unreference is explored, and with `OwnersOnly` the application references there only what it
owns already, not what a look-up has just returned. Nothing in the library makes it do so: with
`OwnersOnly` FALSE a display may be freed between the look-up and the reference, or lose its last
reference between the validity check and the increment, and TLC finds each of the five properties of
reg_safety violated. `claim` counts the references each thread has to give back; it is the
application's, not the library's. The memory of a freed display is
used again, so that a stale pointer would meet another display.

Left out: user data, getters, the queries of native visuals and buffers, the environment variable
that forces a backend.

### VkWsi
One Vulkan window surface and the worker thread. The state is that of `tpl_wayland_vk_wsi_surface` and
`tpl_worker_surface_t` (`created`, `listed`, `drawWait` for draw_wait_buffer), the queue (`attached`,
`free`, `dirty`; `lost` are images the queue counts as dequeued because their wl_buffer could not be
created), each buffer's reference count, buffer data (`wl`), drawing fence (`waitSync`) and
timeline (`lag`: how far sync_timestamp is ahead of it), what the compositor does (`scanout`,
`releases`, `shown`, frame callbacks), the application (`held`, `pc`, `buf`, `taken`, `lock`) and the
worker (`wpc`, `wbuf`, `scanning`: it holds surface_mutex, `event`: the event fd).

| Code | Actions |
|---|---|
| create_swapchain | CreateSwapchain |
| get_swapchain_buffers | GetCall, GetTake, GetTaken, GetGive |
| destroy_swapchain | DestroyCall, DestroyUnlist, DestroyRoundtrip, DestroyQueue |
| dequeue_buffer | DequeueCall, DequeueLock, DequeueTake, DequeueFail, DequeueSleep, DequeueTimeout |
| enqueue_buffer | EnqueueCall, EnqueueQueue, EnqueueNotify, EnqueueDispatch |
| worker loop, prepare_draw_wait_buffer | WorkerLook, WorkerAcquire, WorkerDrained, WorkerNotified, WorkerFence, WorkerFenceError |
| process_draw_done, commit_buffer | WorkerDrawDone, WorkerRelease, WorkerSignal |
| release callback | Dispatch (in EnqueueDispatch, DestroyRoundtrip, DispatchElsewhere) |
| GPU, compositor | FenceSignals, ServerRelease, ServerFrame |

Steps that only touch what the object lock protects are one action; the worker's are cut at every
mutex, at the commit and at the condition variable. create_swapchain forces the mailbox mode, so the
vblank list of the fifo modes is dead code. A fence is a number: how many increments of the timeline it
still needs. Where the fence cannot be created, which the code logs and no more (646-653), the image is
returned with -1, as if it were free (`NoFence`). An orderly client draws only when the fence dequeue
gave it has signalled (`FenceSignals`). When tbm_sync_fence_wait fails the worker logs it and starts its
loop over with the buffer still in the epoll set (`WorkerFenceError`).

`Rules` are what the application keeps to: it fetches the images once, before the first dequeue
("imagesFirst"), and destroys the swapchain only when the worker has committed every frame
("idleDestroy"), which nothing in the API tells it.

Left out: several surfaces on one worker, the thread's start and end, the build without a worker,
tracing and dumps.

### NativeQueue
One window surface on a queue that belongs to somebody else, for the three backends `gbm`, `tbm` and
`tbm_vulkan`. `node`, `dirty` and `shown` are the queue and the consumer's end of it; `current` is
gbm's current_buffer; `robbed` is the buffer of the queue whose reference gbm's fini has dropped;
`waiting`, `count` are draw_waiting_queue and its field count, `seen` what the
pushing thread has read of it; the worker's variables are those of `VkWsi`.

| Code | Actions |
|---|---|
| surface_init, fini | SurfaceInit, FiniCall, Unlist, FiniRest |
| create_swapchain, destroy_swapchain | CreateSwapchain, DestroyCall, Unlist, DropList |
| get_swapchain_buffers | GetCall, GetTake, GetGive |
| dequeue_buffer | DequeueCall, DequeueTake, DequeueSleep, DequeueRef |
| enqueue_buffer | EnqueueCall; EGL: EnqueueUnref, EnqueueQueue; Vulkan: EnqueueKeep, Push, PushCount, Notify |
| worker loop, draw_wait_buffer_get, draw_done | WorkerNotified, WorkerFence, WorkerLook, WorkerDrained, WorkerPop, WorkerDrawDone |
| GPU, consumer | FenceSignals, ConsumerAcquire, ConsumerRelease, ConsumerReset |

`Rules` say what the application and the consumer keep to. "idleDestroy": the swapchain is destroyed
when every frame is queued. "quietConsumer": no reset while a dequeue is in the backend nor, for
Vulkan, while the application has buffers. "wholeFini": every buffer is given back first, but perhaps
the one gbm gives back itself. Without any one of these three RefsExact fails: the code keeps or drops a
reference that is not there to drop. "oneAtATime" excludes the data race on draw_waiting_queue; run
tbm_list_race has it. The race does more than the run shows: the pointer writes of the unlocked push
(tpl_utils.h:526-547) can also overlap the pop of its predecessor, and then the list loses the new node
or is written through a freed one. Push is one Append in the model and only its count is split off, so
nothing is claimed for such a push: every theorem about the list has the rule as a premise. No document
tells the application or the consumer any of the rules. While a surface or a swapchain is being destroyed
no other thread uses it (`InUse`).

gbm's fini drops a reference on current_buffer, the last buffer it met for the first time
(tpl_gbm.c:326). After the ordinary teardown, every frame enqueued, that reference is not the
application's any more (374) but the queue's, and the client's queue is left with a buffer that is
gone. The model has that (`robbed`), RefsExact says that it is one reference, of that buffer only and
until the queue is reset, and no further surface is made on such a queue.

Left out: the vblank list, dead since create_swapchain forces the mailbox mode; failures of
epoll_ctl and of tbm_sync_fence_wait (module `VkWsi`); pixmaps, which init refuses; queries.

### WindowSurface
A wl_egl_window, the surface made of it and the Wayland-EGL backend over the life of the window. One
thread makes every call and dispatches every event, so a call is one step and what is interesting is the
order of calls: resize, rotate, a second surface on the same window, front-buffer mode on and off,
resets and flushes between any two of them. `WaylandEgl` has the same backend under several threads.

| Code | Actions |
|---|---|
| wl_egl_window_create, destroy, resize, set_rotation | WindowCreate, WindowDestroy, WindowResize, WindowRotate |
| the callbacks into the backend | ResizeCallback, part of WindowResize and WindowRotate |
| surface init, fini | SurfaceInit, SurfaceInitFails, SurfaceFini |
| tpl_surface_set_frontbuffer_mode | SetMode |
| tpl_surface_dequeue_buffer | DequeueFront (the front buffer again), Dequeue (through the backend) |
| tpl_surface_enqueue_buffer, commit | EnqueueFront, Enqueue |
| release, reset, flush callbacks | Release, ResetEvent, Flush |
| the application | Abandon: it starts the frame anew because the surface is not valid (tpl.h:466) |

`Rules` are what keeps the properties true, and each is needed: lift one and TLC finds the property
broken.

| Rule | Without it |
|---|---|
| "settled": the mode is switched when the application has no buffer | RefsExact: the buffer that was lent is enqueued through the backend, or the other way round |
| "quiet flush": no flush event in front-buffer mode | DrawsOnLive: the flush destroys the front buffer, the next dequeue returns it |
| "front kept": the compositor keeps the buffer it shows in that mode | DrawsOnLive: the release drops the buffer's reference while it is the front buffer |
| "hooked rotation": a window without a surface is not rotated | BufferFitsWindow: width and height do not change places without the callback |
| "live window": a window whose surface was destroyed or not completed is neither resized nor rotated | DrawsOnLive: the callbacks outlive the surface and assert, or use a freed one |
| `OldRotations` = {0}: the memory of a new window held no rotation | BufferFitsWindow: wl_egl_window_create resizes before it clears the fields |

The last step of surface init that may fail, the creation of the vblank, comes after the window has got
the surface as its private and the callbacks (tpl_wayland_egl.c:554-568). The error path takes neither
back, and fini returns early for a surface without a backend (611): the window then points to a freed
surface (`SurfaceInitFails`).

An abandoned buffer keeps the reference of its dequeue for ever (`lost`; `MaxLost` bounds how many
there are): nothing in the interface gives a buffer back undrawn. attached_width and attached_height
are set at the enqueue from the window's size at that moment (tpl_wayland_egl.c:734), which after a resize
is not the size of the buffer that is attached; the model has it so.

### Containers, TplList, HashList, UtilMap
The list, the hash list and the map, cell by cell and pointer by pointer. `Containers` has what they
share (memory, paths along pointers). A removal that walks the list (remove_data, fini) takes a
step for each node, because the cursor must be read before the node is freed. The map compares keys by
their difference as an int: `IntRange` is the number of values of an int, and keys that are that far
apart are one key to it. `SetsFresh` is the application's part: it stores data that exists and that the
map does not hold yet. TablesHold fails without `SetsFresh` (setting the same datum again frees it
first), and with two keys `IntRange` apart in one bucket (a look-up returns the other's datum).

`TplList` implements `Deque`, the sequence; `HashList` and `UtilMap` implement `KeyedStore`, the table,
where a look-up names the key and what was found, and the data the table owns are destroyed when they
leave it. `MCContainers` puts the three beside each other; a behaviour uses one.

Left out: functions of the hash list nobody calls (add_before, add_behind, get_tail_node), the
arithmetic of the hash functions (`HashOf` is any function), keys with a length function, which no caller
uses.

### FrameOrder
What a swapchain promises: an image is the application's, in line, or idle, and frames are shown in the
order of the posts, each once. `VkWsi` refines it: the line is the frame the worker has in hand and the
queue's dirty list. `NativeQueue` refines it with the dirty list first, then the frame in hand, then
draw_waiting_queue; its queue may be reset by the consumer, so there frames may be forgotten
(`Forgetful`): some of the application's images, or some frames that follow one another in the line.

## 4. Runs

| Run | Instance | Shows |
|---|---|---|
| egl_solo | one thread with every callback, 3 slots, 5 buffers | TypeOK, RefCountBalanced, NoSlotLost, StaleMeansInvalid, ResizeNotLost, FiniLeavesNothing, OneCommitPerVblank |
| egl_shared | one thread calls, resets and resizes, another dispatches releases at any time; 2 slots, 3 buffers, fair | TrackedUntilReleased, NoUseAfterDestroy, BufferFlow is implemented, CallsReturn |
| egl_pair | one thread dequeues up to two frames, both post; 2 slots, 3 buffers; connection loss, wl_buffer creation failure, tdm failure | RefCountBalanced, AcquiresOwnFrame |
| reg_safety | 2 threads, 2 displays, 2 backends, 3 handles (NULL, the bufmgr, a guarded window system), failures, `OwnersOnly` | TypeOK, NoUseAfterFree, ListedIsAlive, KeptRegistered, NoResurrection |
| reg_default | 1 thread, no failures | **violated**: the second request for TBM's default display fails and unregisters the first |
| vk_safety | 2 images, 2 buffers, up to 2 commits of one outstanding, a renderer with timeout, a poster, another dispatcher; images fetched first, destruction, epoll, wl_buffer and fence failures | TypeOK, RefsExact, FenceCovers, EachImageOnce, WorkerTouchesLive, FrameOrder is implemented |
| vk_liveness | 2 images, one held at a time, fetched first, fair | CommitsFinished, CallsReturn, FramesPresented |
| vk_destroy_race | the application destroys while the worker is busy | **violated**: draw_done gets a freed image |
| native | each of the three backends, 2 slots, 2 buffers, both of which the application may hold, a renderer, a poster, the worker, a consumer that resets, fair | TypeOK, RefsExact, EachFrameOnce, FrameOrder is implemented, CallsReturn, FramesReachConsumer |
| tbm_list_race | the worker pops while the application pushes | **violated**: the list counts an element it has not, the worker pops its tail node |
| window | 3 buffers, 2 slots, 2 lengths, rotations 0, 90 and 180, one lost buffer, surfaces whose creation fails | TypeOK, RefsExact, DrawsOnLive, BufferFitsWindow |
| containers | 3 cells, 3 data, 3 keys in 2 chains | WellFormed, the list is a deque, the tables hold |

Bounds. Three slots is `CLIENT_QUEUE_SIZE`; two where a property needs only "full" and "not full". There
is one buffer more than slots so that buffers of the queue before a reset and of the one after it
coexist, five where destruction and reset combine. Two sizes tell "changed" from "same". The model has
no counter: `ref`, `attached` and `dequeued` are bounded by the behaviour itself. Buffers are
symmetric in the safety runs.

egl_shared has two slots and three buffers because liveness forbids symmetry; egl_pair has as many: both
slots may be in the application's hands, each to be posted by either thread, so that one of them posts
while the other waits for the vblank without the lock. In native
the application may hold both buffers of the queue, so that a renderer can sleep for a third with the
object lock in hand while the poster still has a frame to give. In window two lengths give a
square and both orientations of an oblong, a half turn changes the rotation and not the size; four
buffers (1.7 million states) hold. In containers three nodes are the smallest list with a node
inside; keys 1 and 3 share a chain; four cells and four keys hold.

In the registry two threads suffice for every race between one call and another; two displays let one
thread create while the other destroys, two backends tell a removal by backend and handle from a removal
by handle. `MaxClaims` bounds what a thread holds of one display to two references: one to give back
while the other keeps the display alive.

In the Vulkan runs two images is the smallest swapchain (`min_buffer`). `MaxCommits` bounds how often
the compositor may have one buffer when epoll fails: two in vk_safety, so that a dequeue meets an
earlier commit that is outstanding when the next is made. Its two buffers are the swapchain's
images; a third, which would let a destroyed swapchain's image stay on screen while the next one is in use,
makes the run too long with the three faults, and so does a request for the images between frames (1.8
million states without "imagesFirst", on which the properties hold). Those cases are left to the theorems,
which do not assume that rule and hold for any number of buffers; vk_destroy_race has the third buffer. EachImageOnce counts the images whose
wl_buffer could not be created one by one (`lost`), so the fault does not hide any other loss.
vk_safety does not check for deadlock: once a fault has cost every image its wl_buffer, or another
thread has dispatched the event an enqueue waits for, the surface does stop. vk_liveness holds one
image at a time: with two the client can post them in another order than it dequeued them, and the
worker, which waits for one fence at a time, may then wait for the image on screen while the frame that
would replace it is behind.

Which callbacks run where. A client that uses one thread is `Solo`. With more threads the runs that
pass leave out deliveries that do go wrong. `MCWaylandEgl` has them for whoever wants the
counterexamples; each replaces `Runs` in egl_shared:

| `Runs <-` | Fails | What happens |
|---|---|---|
| FlushElsewhere | NoUseAfterDestroy, StaleMeansInvalid | the flush comes between queue_dequeue (1035) and the reference (1043), or between queue_acquire (898) and the reference (901): the call goes on with a buffer that is destroyed |
| ResetElsewhere | NoUseAfterDestroy, StaleMeansInvalid | a reset comes in the same places; or between the reference and `reset = TPL_FALSE` (1102), which erases it, so that a stale buffer validates |
| ResizeElsewhere | ResizeNotLost | a resize between the queue's reset (1022) and `resized = TPL_FALSE` is forgotten |
| VblankElsewhere | CallsReturn | the event is dispatched between tdm_client_vblank_wait and `vblank_done = TPL_FALSE` in commit (776-782), which then stays FALSE; or between the test of vblank_done and the poll (685-693) |

A release that another thread handles before commit() has listed the buffer (`EarlyRelease`, TRUE in
egl_solo only) leaves its entry in attached_buffers: egl_shared with it TRUE violates
TrackedUntilReleased.

Two waits can be missed even so, and CallsReturn says which. In egl_shared the dispatching thread may
handle the release between can_dequeue (959) and the poll (962) of a dequeue, which then sleeps beside a
free buffer until some other event of the client wakes it: CallsReturn excepts a call that stays there
for good (`Overslept`), and without the exception TLC finds that behaviour. In native a renderer that
asks for one buffer more than there are sleeps in can_dequeue with the object lock, and the poster that
could give a buffer back never gets it: CallsReturn excepts the behaviours that end there (`ShutOut`:
everything but the frame the consumer keeps is with the application), and no other. The Vulkan surface of
`VkWsi` shuts a poster out in the same way when the renderer, with every image held, dequeues without
a timeout (vk_liveness with `MaxHeld` 3).

Fairness (`FairSpec`): a thread inside a call or callback is scheduled; a dispatch runs finitely many
callbacks before the call it is part of goes on, and takes the events in their order (hence SF, for the
release and vblank callbacks too); a thread that polls wakes up for what arrives from then on; the
compositor releases a buffer after a later one was shown. Nothing is asked of the application, of resets,
of resizes or of other surfaces' events. In `VkWsi` the worker and every call that can go on do go on, a
thread that waits for the object lock gets it if it is free again and again (SF), drawing ends, the
compositor answers each frame callback and releases an image after another was shown. The
application need not make a call. In `NativeQueue` it is the same, with a consumer that takes the frames
and returns those it has replaced, and with SF for the worker's pop: the window in which a push is not
complete opens and closes again.

## 5. Proofs

`WaylandEglProofs` proves, for every set of threads and buffers, every queue size, every distribution of
the callbacks and every fault, from `SurfaceAssumption` only:

* `TypeCorrect`: TypeOK. Not inductive alone: a thread that works on a buffer must have one (`TypeInv`).
* `OwnFrame`: AcquiresOwnFrame. `LockInv` (inside a locked part means owner of the lock) makes the
  thread between queue_enqueue and queue_acquire unique.
* `OneCommit`: OneCommitPerVblank, if one thread posts and tdm_client does not fail (`OnePoster`).
  `GateInv`: behind the gate the vblank is over.
* `NoResizeLost`: ResizeNotLost, if only the dequeuing thread resizes (`ResizeByRenderer`); with a resize
  on another thread it fails. `SizeInv`: while the reset callback of a dequeue
  runs the queue already has the window's size.

`DisplayRegistryProofs` proves all properties of reg_safety, for every set of threads, displays and
handles, every number of backends and any `MaxClaims`, from `RegistryAssumption` and `OwnersOnly`:
`RegistryTypeCorrect`, `NoneUsedFreed`, `ListedAlive`, `KeptListed`, `NoneResurrected`. What they say is
that this rule on the application is enough (a display is referenced by those who own it or look it up
under the application's lock), not that the library is safe without it: it is not, as TLC shows with
`OwnersOnly` FALSE for each of the five. None is inductive. `IInv` adds that the
count of a display is the number of claims on it (`Counts`; `Owed` makes the claims a set so that the
library's cardinality theorems apply), that a thread inside a call has what the call needs (`Working`,
`Served`), the application's exclusion (`Exclusion`), and who may be registered under a display's key
(`Listed`, `Kept`, `KeyFree`). A display that was looked up is alive because the registry only lists
live displays and dying ones whose destroyer the exclusion keeps away; its key is not cleared by another
thread's clean-up because during a create or an unreference nothing else is registered under it. Lemmas
named ...Effect state what an action does point by point; lemmas named ...Step prove one part of
`IInv` each, case by case over the actions.

`WindowSurfaceProofs` proves all properties of run window, for every set of buffers, every queue
size, every set of lengths and rotations and any `MaxLost`, from `WindowAssumption` and from the
rules each theorem names, so the theorems also say which rule a property depends on:

* `WindowTypeCorrect`, `WindowRefsExact`: TypeOK and RefsExact, if the mode is switched only when the
  application has no buffer. Neither is inductive; `Inv` adds what else is known of each buffer
  (`Entry`: one that is out is neither attached nor free, one on the screen is attached, one with its
  reset flag set is unknown to the queue) and of the surface (`Life`).
* `WindowDrawsOnLive`: DrawsOnLive under `Considerate`, all rules but "hooked rotation"; "live window"
  also keeps the application away from a window whose surface could not be completed. `Kept`: the
  front buffer is on the screen, and so has the reference of its entry.
* `WindowFitsBuffer`: BufferFitsWindow under `Orderly`, all the rules and no rotation left in memory.
  `Fits`: where the window's size is not the queue's, the surface is marked for a resize; and while the
  surface is valid, whatever may be drawn into next has the queue's size.

`VkWsiProofs` proves all safety properties of vk_safety and vk_liveness, for every set of threads and
buffers, every number of images and every bound, from `SwapchainAssumption`:

* `TypeCorrect`, `ExactReferences`, `FencesCover`, `EveryImageOnce`, `WorkerSafe` and the refinement
  `FrameOrderImplemented`, if an application that destroys swapchains does so when they are idle
  (`Careful`; run vk_destroy_race shows what happens otherwise). Even the types need that: a
  destruction under the worker drops a reference that is not there. `FencesCover` excepts the image
  dequeue could create no fence for, which the code returns as if it were free; `EveryImageOnce` is an
  exact account, with the images whose wl_buffer could not be created as a place of their own.
* `CommitsDrawn`: CommitsFinished, if epoll takes every fence as well (`Waited`: between the fence of a frame
  and its commit nothing new is drawn into it).

One invariant carries all but the last. `ThreadInv`: who is past the object lock owns it, and a buffer
is enqueued by one thread. `WorkerInv`: what the worker holds between two of its steps. `LifeInv`: a
destruction finds nothing going on, and of a destroyed swapchain nothing is left. The ledger (`Entry`) says
of each buffer how its count, its places, its fence and its timeline agree. `ListInv`: the lists name
no buffer twice. Every action has a lemma that keeps the invariant (`...Inv`); what the other buffers'
entries need is that nothing they speak of changed (`EntryKept`).

`NativeQueueProofs` proves the safety properties of run native for the three backends, from
`NativeAssumption`: `NativeTypeCorrect` from no rule at all, `NativeRefsExact`, `NativeFrameOnce` and the
refinement `NativeFrameOrder` from `Careful`, all four rules. "oneAtATime" is one of them: push and pop
share no mutex, and a push that overlaps the pop of its predecessor can lose a node or write a freed
one, so without the rule nothing is claimed (run tbm_list_race). For gbm, NativeRefsExact excepts the
reference fini takes from the queue after the ordinary teardown (`robbed`), and says that it is the only
one. The refinement maps the line to the dirty list, the worker's frame and
draw_waiting_queue (`Line`) and the application's images to `Mine`.

`WaylandEglBufferProofs` proves the remaining safety properties of `WaylandEgl`, for every set of threads
and buffers, queue size, `MaxHeld` and fault:

* `RefsBalanced`, `NeverDestroyed`, `TrackedOnly`, `NothingLeft`, `SlotsKept` (if every wl_buffer can be
  created: dequeue loses the slot of one that cannot) and the refinement `BufferFlowKept`, for every
  distribution of calls and callbacks that is `Careful`: whoever resets or flushes the queue or
  destroys the surface is the only one that dequeues and enqueues, since those callbacks take no
  lock; whoever drops the attached buffers is the only one that hears of their release; and if the
  compositor may release a buffer before commit() has returned, the committing thread is the one that
  hears of it. The distributions of the three runs are careful; those that are not are the counterexamples
  of section 4. The invariant (`Inv`) has a ledger again, in four parts: `Counted` (the references on a buffer are
  those of its owners), `Placed` (it is in one place, and the queue agrees), `Kept` (a buffer in use has
  its wl_buffer, a stale one is unknown to the queue) and `Shown` (attached_buffers lists what the
  compositor has). Beside it: `RoleInv` (a thread is only where its calls and callbacks lead), `ThreadInv` and `CallbackInv`
  (each buffer is with one thread, each release with one callback), `EmptyInv` (a queue that was reset
  stays empty until the reset callback is over) and `FiniInv`.
* `StaleSeen`: StaleMeansInvalid, if one thread dequeues and has one buffer per frame (`OneFrame`), and
  the distribution is `Careful`: the same thread resets and flushes. A reset on another thread while a
  dequeue runs is erased by `reset = TPL_FALSE`, and the theorem is false. The window may be resized on
  any thread. It has an invariant of its own: a dequeue begins with nothing in the
  application's hands (`DrawnInv`), and what a reset or a resize means for a buffer is remembered until
  the next dequeue looks at it (`ToldInv`). With two buffers at a time the first dequeue after a
  reset forgets it for both.

`ContainersProofs` proves the three properties of run containers for any number of cells, keys and
chains, any data and any hash function, from `ContainerAssumption`, `ListAssumption` and `MapAssumption`:

* `ContainersWellFormed`: WellFormed, from no further premise.
* `ListImplementsDeque`: ListIsDeque. The list refines `Deque` even while a removal walks over it or fini
  frees it.
* `ContainersImplementTables`: TablesHold, if the keys are ones the compare function tells apart
  (`NearKeys`: no two keys a multiple of 2^32 apart, where the code, comparing pointers as an int,
  takes one for the other) and a datum is not set a second time while the map holds it (`SetsFresh`; the
  map would free it under the other entry).

The assumptions say that memory is finite, that keys are numbers with a chain each, and that the heads of
the chains, the list's head and tail, and Null are no cells. What a `Path` visits is a recursive function,
which cannot be unfolded along a list of unknown length. The proofs carry the path as a witness instead: `Leads(f, k, p, h, e, C)` says that the
pointers p lead from h over the k cells f[1], ..., f[k], which are those of C, each once, to e; and
`PathOfChain` shows once, by the least number where they differ, that `Path` then is f. Linking a cell in
and cutting one out change the witness (`With`, `Without`; `Linked`, `Unlinked`). The list is one such
chain, read in both directions (`Doubly`); a walk adds where its cursor is on it and what it has
passed (`Position`). The two tables are one chain per head, each with the cells whose keys hash there
(`Chains`, with `ChainsAdd`, `ChainsCut`, `ChainsEmpty`); the hash list adds that pprev is the slot that
leads to a node, the map that its data exists and is held once (`HeldOnce`).

Only model-checked:

* liveness: CallsReturn (three runs), FramesPresented and FramesReachConsumer. They need the fairness
  conditions, hence ENABLED, which TLAPS does not reason about.
* that the counterexamples of the three violation runs and those named in section 4 exist: a theorem
  with a premise (`Careful`, `OnePoster`, `NearKeys`, ...) says that the rule suffices, a run that it is
  needed.

The premises are satisfied by the instances of the runs the theorems are about, so none is empty.

## 6. Findings

The three violation runs are disagreements between the code and its own documentation or
assertions; `PROJECT.json` quotes the lines.

* reg_default: TBM replaces the default handle by the bufmgr, under which the second request for the default
  display does not look; it fails and takes the first display out of the registry.
* vk_destroy_race: destroy_swapchain does not wait for the worker, which gets the freed image: if the
  destruction falls between the worker's look at its fence and process_draw_done, the assertion of
  draw_done (tpl_wayland_vk_wsi.c:789) meets it; if it is over before that look, the one of
  draw_wait_fd_get (847) does.
* tbm_list_race: enqueue initialises the mutex of draw_waiting_queue where it should lock it.

## 7. Not modelled

* X11 backends (2,800 lines): they use types that `tpl_internal.h` no longer declares and do not compile
  against it; there is no program to model.
* Protocol glue: generated marshalling code without a state of its own. EGL/Vulkan entry points are not in
  this repository.
* Tests and googletest under `src/tc`: about 50,000 of the repository's 63,000 lines of code, none of
  which runs in the library. The library itself has about 11,500, of which the X11 backends are a quarter.
* Of the modelled files: pixmap surfaces, display set-up (registry globals, authentication), queries of
  visuals, formats and capabilities, which keep no state; the fifo modes and the vblank lists of the
  Vulkan backends, which cannot be reached since create_swapchain forces the mailbox mode; several surfaces
  on one worker and the worker's start and end; image dumps, tracing and logging; the hash
  functions' arithmetic.
* Hazards without a property, each with its reason in `PROJECT.json`: the Wayland-EGL callbacks on another
  thread in the middle of a dequeue or an enqueue, which go wrong (flush, reset, resize, vblank, an early
  release; the table in section 4); a surface holds no reference on its display; get_swapchain_buffers
  interleaved with a busy worker; frames posted in another order than they were dequeued.
