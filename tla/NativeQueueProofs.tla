-------------------------- MODULE NativeQueueProofs --------------------------
(***************************************************************************)
(* Theorems about NativeQueue, for each of the three backends, every set   *)
(* of threads and buffers, every size of the queue and every MaxHeld.      *)
(***************************************************************************)
EXTENDS NativeQueue, SequenceLemmas

\* What all theorems but the first ask.  The worker pops no frame while one is
\* pushed: the pointer writes of Push are one step of the model, and those of the
\* code only then (they have no mutex, tpl_tbm.c:551).  The application destroys a
\* swapchain whose frames are all queued and a surface whose buffers it has given
\* back; the consumer does not reset the queue under a dequeue.
Careful == AllRules \subseteq Rules

Labels == {"idle"} \cup Waiting \cup Owning \cup Finalising
\* Where a thread has a buffer in hand, and where it destroys something.
WithBuf == {"deqRef", "enqLock", "enqFence", "push"}
Destroying == {"unlist", "drop"} \cup Finalising

-----------------------------------------------------------------------------
(* Types                                                                   *)

SurfaceType ==
    /\ backend \in Backends /\ alive \in BOOLEAN /\ swapchain \in BOOLEAN
    /\ current \in Buffers \cup {NoBuffer}

QueueType ==
    /\ node \in [Buffers -> NodeState]
    /\ dirty \in Seq(Buffers) /\ shown \in Buffers \cup {NoBuffer}

BufferType ==
    /\ ref \in [Buffers -> Nat] /\ data \in [Buffers -> BOOLEAN]
    /\ sync \in [Buffers -> {"none", "pending", "signalled"}]

ListType == waiting \in Seq(Buffers) /\ count \in Nat /\ seen \in Nat

CallType ==
    /\ held \subseteq Buffers /\ taken \subseteq Buffers
    /\ pc \in [Threads -> Labels]
    /\ buf \in [Threads -> Buffers \cup {NoBuffer}]
    /\ lock \in Threads \cup {NoThread}
    /\ \A t \in Threads : pc[t] \in WithBuf => buf[t] \in Buffers

WorkerType ==
    /\ wpc \in WorkerPC /\ scanning \in BOOLEAN /\ event \in BOOLEAN
    /\ wbuf \in Buffers \cup {NoBuffer} /\ drawWait \in Buffers \cup {NoBuffer}
    /\ wpc = "drawDone" => wbuf \in Buffers

\* TypeOK, and that who works on a buffer has one.
TypeInv ==
    /\ SurfaceType /\ QueueType /\ BufferType /\ ListType /\ CallType /\ WorkerType
    /\ robbed \subseteq Buffers

\* It holds in the beginning.
LEMMA TypeInit == Init => TypeInv
<1> SUFFICES ASSUME Init PROVE TypeInv
  OBVIOUS
<1>1. SurfaceType /\ WorkerType
  BY DEF Init, SurfaceType, WorkerType, WorkerPC
<1>2. ListType
  BY DEF Init, ListType
<1>3. QueueType /\ BufferType
  BY DEF Init, QueueType, BufferType, NodeState
<1>4. CallType
  BY DEF Init, CallType, Labels, WithBuf
<1> QED BY <1>1, <1>2, <1>3, <1>4 DEF TypeInv, Init

\* A dequeue of the queue changes one node, and gives a new buffer its first
\* reference.
LEMMA DequeueType ==
    ASSUME QueueType, BufferType, NEW b, QueueDequeue(b)
    PROVE  /\ b \in Buffers /\ node' \in [Buffers -> NodeState] /\ ref' \in [Buffers -> Nat]
           /\ node'[b] = "dequeued" /\ ref'[b] = (IF node[b] = "none" THEN 1 ELSE ref[b])
           /\ \A c \in Buffers : c # b => node'[c] = node[c] /\ ref'[c] = ref[c]
<1>1. DOMAIN node = Buffers
  BY DEF QueueType
<1>2. b \in Buffers
  BY <1>1 DEF QueueDequeue, Obtainable, Dequeuable, InState, Tracked
<1>3. /\ node' = [node EXCEPT ![b] = "dequeued"]
      /\ ref' = [ref EXCEPT ![b] = IF node[b] = "none" THEN 1 ELSE ref[b]]
  BY DEF QueueDequeue
<1>4. node \in [Buffers -> NodeState] /\ "dequeued" \in NodeState
  BY DEF QueueType, NodeState
<1>5. ref \in [Buffers -> Nat] /\ (IF node[b] = "none" THEN 1 ELSE ref[b]) \in Nat
  BY <1>2 DEF BufferType
<1>6. node' \in [Buffers -> NodeState] /\ node'[b] = "dequeued"
      /\ \A c \in Buffers : c # b => node'[c] = node[c]
  BY <1>2, <1>3, <1>4, Updated
<1>7. /\ ref' \in [Buffers -> Nat] /\ ref'[b] = (IF node[b] = "none" THEN 1 ELSE ref[b])
      /\ \A c \in Buffers : c # b => ref'[c] = ref[c]
  BY <1>2, <1>3, <1>5, Updated
<1> QED BY <1>2, <1>6, <1>7

\* An enqueue of the queue moves a dequeued buffer to the end of the frames.
LEMMA EnqueueType ==
    ASSUME QueueType, NEW b \in Buffers, QueueEnqueue(b)
    PROVE  /\ node' \in [Buffers -> NodeState] /\ dirty' \in Seq(Buffers)
           /\ node'[b] = (IF node[b] = "dequeued" THEN "dirty" ELSE node[b])
           /\ \A c \in Buffers : c # b => node'[c] = node[c]
           /\ dirty' = (IF node[b] = "dequeued" THEN Append(dirty, b) ELSE dirty)
<1>1. node \in [Buffers -> NodeState] /\ "dirty" \in NodeState /\ dirty \in Seq(Buffers)
  BY DEF QueueType, NodeState
<1>2. CASE node[b] = "dequeued"
  <2>1. node' = [node EXCEPT ![b] = "dirty"] /\ dirty' = Append(dirty, b)
    BY <1>2 DEF QueueEnqueue
  <2>2. node' \in [Buffers -> NodeState] /\ node'[b] = "dirty"
        /\ \A c \in Buffers : c # b => node'[c] = node[c]
    BY <1>1, <2>1, Updated
  <2>3. dirty' \in Seq(Buffers)
    BY <1>1, <2>1, Appended
  <2> QED BY <1>2, <2>1, <2>2, <2>3
<1>3. CASE node[b] # "dequeued"
  BY <1>1, <1>3 DEF QueueEnqueue
<1> QED BY <1>2, <1>3

\* So does a release, back to the free list.
LEMMA ReleaseType ==
    ASSUME QueueType, NEW b \in Buffers, node' = Released(node, b)
    PROVE  /\ node' \in [Buffers -> NodeState]
           /\ node'[b] = (IF node[b] \in {"acquired", "dequeued"} THEN "free" ELSE node[b])
           /\ \A c \in Buffers : c # b => node'[c] = node[c]
<1>1. node \in [Buffers -> NodeState] /\ "free" \in NodeState
  BY DEF QueueType, NodeState
<1>2. CASE node[b] \in {"acquired", "dequeued"}
  <2>1. node' = [node EXCEPT ![b] = "free"]
    BY <1>2 DEF Released
  <2> QED BY <1>1, <1>2, <2>1, Updated
<1>3. CASE node[b] \notin {"acquired", "dequeued"}
  BY <1>1, <1>3 DEF Released
<1> QED BY <1>2, <1>3

\* The references become `r'; who has none loses its data.
LEMMA CountsType ==
    ASSUME BufferType, NEW r \in [Buffers -> Nat], CountsBecome(r)
    PROVE  ref' = r /\ ref' \in [Buffers -> Nat] /\ data' \in [Buffers -> BOOLEAN]
  BY DEF BufferType, CountsBecome

\* One reference less on one buffer, if it has any.
LEMMA DecrementType ==
    ASSUME BufferType, NEW b \in Buffers, CountsBecome([ref EXCEPT ![b] = Decremented(@)])
    PROVE  /\ ref' \in [Buffers -> Nat] /\ data' \in [Buffers -> BOOLEAN]
           /\ ref'[b] = (IF ref[b] = 0 THEN 0 ELSE ref[b] - 1)
           /\ \A c \in Buffers : c # b => ref'[c] = ref[c]
<1>1. ref \in [Buffers -> Nat] /\ Decremented(ref[b]) \in Nat
  BY DEF BufferType, Decremented
<1> PICK r : r = [ref EXCEPT ![b] = Decremented(ref[b])]
  OBVIOUS
<1>2. /\ r \in [Buffers -> Nat] /\ r[b] = Decremented(ref[b])
      /\ \A c \in Buffers : c # b => r[c] = ref[c]
  BY <1>1, Updated
<1>3. ref' = r /\ data' \in [Buffers -> BOOLEAN]
  BY <1>2, CountsType
<1> QED BY <1>2, <1>3 DEF Decremented

-----------------------------------------------------------------------------
(* Each group of variables keeps its type                                  *)

\* The surface: current_buffer is a buffer.
LEMMA SurfaceTypeStep == ASSUME TypeInv, [Next]_vars PROVE SurfaceType'
<1>1. \/ UNCHANGED surfaceVars
      \/ \E t \in Threads : \/ SurfaceInit(t) \/ CreateSwapchain(t) \/ Unlist(t) \/ FiniRest(t)
                            \/ DequeueRef(t)
  BY DEF Next, Worker, Environment, Lifecycle, Dequeue, Enqueue, vars, WorkerNotified, WorkerFence,
     WorkerLook, WorkerDrained, WorkerPop, WorkerDrawDone, ConsumerAcquire, ConsumerReset,
     ConsumerRelease, FenceSignals, DestroyCall, FiniCall, DropList, GetCall, GetTake, GetGive,
     DequeueCall, DequeueTake, DequeueSleep, EnqueueCall, EnqueueKeep, Push, PushCount, Notify,
     EnqueueUnref, EnqueueQueue
<1>2. CASE UNCHANGED surfaceVars
  BY <1>2 DEF surfaceVars, SurfaceType, TypeInv
<1>3. ASSUME NEW t \in Threads,
             SurfaceInit(t) \/ CreateSwapchain(t) \/ Unlist(t) \/ FiniRest(t)
      PROVE  SurfaceType'
  BY <1>3 DEF SurfaceInit, CreateSwapchain, Unlist, FiniRest, SurfaceType, TypeInv
<1>4. ASSUME NEW t \in Threads, DequeueRef(t) PROVE SurfaceType'
  <2>1. buf[t] \in Buffers
    BY <1>4 DEF DequeueRef, TypeInv, CallType, WithBuf
  <2> QED BY <1>4, <2>1 DEF DequeueRef, SurfaceType, TypeInv
<1> QED BY <1>1, <1>2, <1>3, <1>4

\* The queue: what it is given are buffers.
LEMMA QueueTypeStep == ASSUME TypeInv, [Next]_vars PROVE QueueType'
<1>1. \/ UNCHANGED queueVars
      \/ \E t \in Threads : GetTake(t) \/ GetGive(t) \/ DequeueTake(t) \/ EnqueueQueue(t)
      \/ WorkerDrawDone \/ ConsumerAcquire \/ ConsumerReset \/ \E b \in Buffers : ConsumerRelease(b)
  BY DEF Next, Worker, Environment, Lifecycle, Dequeue, Enqueue, vars, WorkerNotified, WorkerFence,
     WorkerLook, WorkerDrained, WorkerPop, FenceSignals, SurfaceInit, CreateSwapchain, Unlist,
     FiniRest, DestroyCall, FiniCall, DropList, GetCall, DequeueCall, DequeueSleep, DequeueRef,
     EnqueueCall, EnqueueKeep, Push, PushCount, Notify, EnqueueUnref
<1>2. QueueType
  BY DEF TypeInv
<1>3. CASE UNCHANGED queueVars
  BY <1>2, <1>3 DEF queueVars, QueueType
<1>4. ASSUME NEW t \in Threads, GetTake(t) \/ DequeueTake(t) PROVE QueueType'
  <2>1. UNCHANGED <<dirty, shown>> /\ (node' = node \/ \E b : QueueDequeue(b))
    BY <1>4 DEF GetTake, DequeueTake
  <2>2. node' \in [Buffers -> NodeState]
    BY <1>2, <2>1, DequeueType DEF TypeInv, QueueType
  <2> QED BY <1>2, <2>1, <2>2 DEF QueueType
<1>5. ASSUME NEW t \in Threads, GetGive(t) PROVE QueueType'
  <2>1. UNCHANGED <<dirty, shown>> /\ (node' = node \/ \E b \in taken : node' = Released(node, b))
    BY <1>5 DEF GetGive
  <2>2. node' \in [Buffers -> NodeState]
    BY <1>2, <2>1, ReleaseType DEF TypeInv, QueueType, CallType
  <2> QED BY <1>2, <2>1, <2>2 DEF QueueType
<1>6. ASSUME NEW b \in Buffers, QueueEnqueue(b), shown' = shown PROVE QueueType'
  BY <1>2, <1>6, EnqueueType DEF QueueType
<1>7. ASSUME NEW t \in Threads, EnqueueQueue(t) PROVE QueueType'
  BY <1>6, <1>7 DEF EnqueueQueue, TypeInv, CallType, WithBuf
<1>8. CASE WorkerDrawDone
  BY <1>6, <1>8 DEF WorkerDrawDone, TypeInv, WorkerType
<1>9. CASE ConsumerAcquire
  <2>1. Head(dirty) \in Buffers /\ Tail(dirty) \in Seq(Buffers) /\ "acquired" \in NodeState
    BY <1>2, <1>9, Taken DEF ConsumerAcquire, QueueType, NodeState
  <2>2. /\ node' = [node EXCEPT ![Head(dirty)] = "acquired"] /\ dirty' = Tail(dirty)
        /\ shown' = Head(dirty)
    BY <1>9 DEF ConsumerAcquire
  <2>3. node' \in [Buffers -> NodeState]
    BY <1>2, <2>1, <2>2, Updated DEF QueueType
  <2> QED BY <2>1, <2>2, <2>3 DEF QueueType
<1>10. CASE ConsumerReset
  <2>1. node' = [b \in Buffers |-> "none"] /\ dirty' = <<>> /\ shown' = shown
    BY <1>2, <1>10 DEF ConsumerReset, Cleared, QueueType
  <2>2. node' \in [Buffers -> NodeState]
    BY <2>1 DEF NodeState
  <2> QED BY <1>2, <2>1, <2>2 DEF QueueType
<1>11. ASSUME NEW b \in Buffers, ConsumerRelease(b) PROVE QueueType'
  <2>1. UNCHANGED <<dirty, shown>> /\ node' = Released(node, b)
    BY <1>11 DEF ConsumerRelease
  <2>2. node' \in [Buffers -> NodeState]
    BY <1>2, <2>1, ReleaseType
  <2> QED BY <1>2, <2>1, <2>2 DEF QueueType
<1> QED BY <1>1, <1>3, <1>4, <1>5, <1>7, <1>8, <1>9, <1>10, <1>11

\* The buffers: no count goes below zero.
LEMMA BufferTypeStep == ASSUME TypeInv, [Next]_vars PROVE BufferType'
<1> DEFINE SyncType(f) == f \in [Buffers -> {"none", "pending", "signalled"}]
<1>1. BufferType /\ QueueType /\ SyncType(sync)
  BY DEF TypeInv, BufferType
<1>2. ASSUME NEW b \in Buffers, NEW f \in {"none", "pending", "signalled"},
             sync' = [sync EXCEPT ![b] = f]
      PROVE  SyncType(sync')
  BY <1>1, <1>2, Updated
<1>3. \/ UNCHANGED <<ref, data, sync>>
      \/ \E t \in Threads : \/ FiniRest(t) \/ GetTake(t) \/ DequeueTake(t) \/ DequeueRef(t)
                            \/ EnqueueKeep(t) \/ EnqueueUnref(t) \/ EnqueueQueue(t)
      \/ WorkerDrawDone \/ ConsumerReset \/ \E b \in Buffers : FenceSignals(b)
  BY DEF Next, Worker, Environment, Lifecycle, Dequeue, Enqueue, vars, bufferVars, WorkerNotified,
     WorkerFence, WorkerLook, WorkerDrained, WorkerPop, ConsumerAcquire, ConsumerRelease,
     SurfaceInit, CreateSwapchain, Unlist, DestroyCall, FiniCall, DropList, GetCall, GetGive,
     DequeueCall, DequeueSleep, EnqueueCall, Push, PushCount, Notify
<1>4. CASE UNCHANGED <<ref, data, sync>>
  BY <1>1, <1>4 DEF BufferType
<1>5. ASSUME NEW r \in [Buffers -> Nat], CountsBecome(r), sync' = sync PROVE BufferType'
  BY <1>1, <1>5, CountsType DEF BufferType
<1>6. ASSUME NEW t \in Threads, FiniRest(t) PROVE BufferType'
  <2>1. [b \in Buffers |-> IF b = current THEN Decremented(ref[b]) ELSE ref[b]]
           \in [Buffers -> Nat]
    BY <1>1 DEF BufferType, Decremented
  <2> QED BY <1>5, <1>6, <2>1 DEF FiniRest
<1>7. CASE ConsumerReset
  <2>1. [b \in Buffers |-> IF node[b] = "none" THEN ref[b] ELSE Decremented(ref[b])]
           \in [Buffers -> Nat]
    BY <1>1 DEF BufferType, Decremented
  <2> QED BY <1>5, <1>7, <2>1 DEF ConsumerReset
<1>8. ASSUME NEW t \in Threads, GetTake(t) \/ DequeueTake(t) PROVE BufferType'
  <2>1. UNCHANGED <<data, sync>> /\ (ref' = ref \/ \E b : QueueDequeue(b))
    BY <1>8 DEF GetTake, DequeueTake
  <2>2. ref' \in [Buffers -> Nat]
    BY <1>1, <2>1, DequeueType DEF BufferType
  <2> QED BY <1>1, <2>1, <2>2 DEF BufferType
<1>9. ASSUME NEW t \in Threads, DequeueRef(t) PROVE BufferType'
  <2> PICK b : b = buf[t]
    OBVIOUS
  <2>1. /\ b \in Buffers /\ sync' = sync
        /\ ref' = [ref EXCEPT ![b] = IF ref[b] = 0 THEN 0 ELSE ref[b] + 1]
        /\ data' = [data EXCEPT ![b] = backend # "tbm" /\ ref[b] > 0]
    BY <1>9 DEF DequeueRef, TypeInv, CallType, WithBuf
  <2>2. ref \in [Buffers -> Nat] /\ (IF ref[b] = 0 THEN 0 ELSE ref[b] + 1) \in Nat
    BY <1>1, <2>1 DEF BufferType
  <2>3. ref' \in [Buffers -> Nat]
    BY <2>1, <2>2, Updated
  <2>4. data \in [Buffers -> BOOLEAN] /\ (backend # "tbm" /\ ref[b] > 0) \in BOOLEAN
    BY <1>1 DEF BufferType
  <2>5. data' \in [Buffers -> BOOLEAN]
    BY <2>1, <2>4, Updated
  <2> QED BY <1>1, <2>1, <2>3, <2>5 DEF BufferType
<1>10. ASSUME NEW t \in Threads, EnqueueKeep(t) PROVE BufferType'
  <2>1. /\ buf[t] \in Buffers /\ UNCHANGED <<ref, data>>
        /\ \E f \in {"none", "pending"} : sync' = [sync EXCEPT ![buf[t]] = f]
    BY <1>10 DEF EnqueueKeep, Fences, bufferVars, TypeInv, CallType, WithBuf
  <2> QED BY <1>1, <1>2, <2>1 DEF BufferType
<1>11. ASSUME NEW t \in Threads, EnqueueUnref(t) PROVE BufferType'
  <2>1. /\ buf[t] \in Buffers
        /\ \/ UNCHANGED <<ref, data, sync>>
           \/ /\ CountsBecome([ref EXCEPT ![buf[t]] = Decremented(@)])
              /\ \E f \in {"none", "pending"} : sync' = [sync EXCEPT ![buf[t]] = f]
    BY <1>11 DEF EnqueueUnref, Fences, bufferVars, TypeInv, CallType, WithBuf
  <2> QED BY <1>1, <1>2, <1>4, <2>1, DecrementType DEF BufferType
<1>12. ASSUME NEW t \in Threads, EnqueueQueue(t) PROVE BufferType'
  <2>1. /\ buf[t] \in Buffers /\ UNCHANGED <<ref, data>>
        /\ sync' = [sync EXCEPT ![buf[t]] = "none"]
    BY <1>12 DEF EnqueueQueue, bufferVars, TypeInv, CallType, WithBuf
  <2> QED BY <1>1, <1>2, <2>1 DEF BufferType
<1>13. CASE WorkerDrawDone
  <2>1. /\ wbuf \in Buffers /\ CountsBecome([ref EXCEPT ![wbuf] = Decremented(@)])
        /\ sync' = [sync EXCEPT ![wbuf] = "none"]
    BY <1>13 DEF WorkerDrawDone, TypeInv, WorkerType
  <2> QED BY <1>1, <1>2, <2>1, DecrementType DEF BufferType
<1>14. ASSUME NEW b \in Buffers, FenceSignals(b) PROVE BufferType'
  <2>1. UNCHANGED <<ref, data>> /\ sync' = [sync EXCEPT ![b] = "signalled"]
    BY <1>14 DEF FenceSignals, bufferVars
  <2> QED BY <1>1, <1>2, <2>1 DEF BufferType
<1> QED BY <1>3, <1>4, <1>6, <1>7, <1>8, <1>9, <1>10, <1>11, <1>12, <1>13, <1>14

\* The list: nothing is popped from an empty one, nor counted below zero.
LEMMA ListTypeStep == ASSUME TypeInv, [Next]_vars PROVE ListType'
<1>1. \/ UNCHANGED listVars
      \/ \E t \in Threads : \/ CreateSwapchain(t) \/ DropList(t) \/ FiniRest(t) \/ Push(t)
                            \/ PushCount(t)
      \/ WorkerPop
  BY DEF Next, Worker, Environment, Lifecycle, Dequeue, Enqueue, vars, WorkerNotified, WorkerFence,
     WorkerLook, WorkerDrained, WorkerDrawDone, ConsumerAcquire, ConsumerReset, ConsumerRelease,
     FenceSignals, SurfaceInit, Unlist, DestroyCall, FiniCall, GetCall, GetTake, GetGive,
     DequeueCall, DequeueTake, DequeueSleep, DequeueRef, EnqueueCall, EnqueueKeep, Notify,
     EnqueueUnref, EnqueueQueue
<1>2. ListType
  BY DEF TypeInv
<1>3. CASE UNCHANGED listVars
  BY <1>2, <1>3 DEF listVars, ListType
<1>4. ASSUME NEW t \in Threads, CreateSwapchain(t) \/ DropList(t) \/ FiniRest(t) PROVE ListType'
  <2>1. waiting' = <<>> /\ count' = 0 /\ seen' = seen
    BY <1>4 DEF CreateSwapchain, DropList, FiniRest
  <2> QED BY <1>2, <2>1 DEF ListType
<1>5. ASSUME NEW t \in Threads, Push(t) PROVE ListType'
  <2>1. /\ buf[t] \in Buffers /\ waiting' = Append(waiting, buf[t]) /\ seen' = count
        /\ count' = count
    BY <1>5 DEF Push, TypeInv, CallType, WithBuf
  <2> QED BY <1>2, <2>1, Appended DEF ListType
<1>6. ASSUME NEW t \in Threads, PushCount(t) PROVE ListType'
  BY <1>2, <1>6 DEF PushCount, ListType
<1>7. CASE WorkerPop
  <2>1. /\ count > 0 /\ waiting # <<>> /\ waiting' = Tail(waiting) /\ count' = count - 1
        /\ seen' = seen
    BY <1>7 DEF WorkerPop
  <2> QED BY <1>2, <2>1, Taken DEF ListType
<1> QED BY <1>1, <1>3, <1>4, <1>5, <1>6, <1>7

\* A thread that goes from one place to another, perhaps with a buffer.
LEMMA CallTypeKept ==
    ASSUME CallType, NEW t \in Threads, NEW l \in Labels, Goto(t, l),
           held' \subseteq Buffers, taken' \subseteq Buffers, lock' \in {lock, t, NoThread},
           buf' = buf \/ \E b \in Buffers \cup {NoBuffer} : buf' = [buf EXCEPT ![t] = b],
           l \in WithBuf => buf'[t] \in Buffers
    PROVE  CallType'
<1>1. /\ pc \in [Threads -> Labels] /\ buf \in [Threads -> Buffers \cup {NoBuffer}]
      /\ pc' = [pc EXCEPT ![t] = l]
  BY DEF CallType, Goto
<1>2. /\ pc' \in [Threads -> Labels] /\ pc'[t] = l
      /\ \A x \in Threads : x # t => pc'[x] = pc[x]
  BY <1>1, Updated
<1>3. /\ buf' \in [Threads -> Buffers \cup {NoBuffer}]
      /\ \A x \in Threads : x # t => buf'[x] = buf[x]
  BY <1>1, Updated
<1>4. \A x \in Threads : pc'[x] \in WithBuf => buf'[x] \in Buffers
  BY <1>2, <1>3 DEF CallType
<1>5. lock' \in Threads \cup {NoThread}
  BY DEF CallType
<1> QED BY <1>2, <1>3, <1>4, <1>5 DEF CallType

\* The calls: who works on a buffer has one.
LEMMA CallTypeStep == ASSUME TypeInv, [Next]_vars PROVE CallType'
<1>1. CallType
  BY DEF TypeInv
<1>2. CASE UNCHANGED <<held, pc, buf, taken, lock>>
  BY <1>1, <1>2 DEF CallType
<1>3. CASE Worker \/ Environment \/ UNCHANGED vars
  BY <1>2, <1>3 DEF Worker, Environment, vars, callVars, WorkerNotified, WorkerFence, WorkerLook,
     WorkerDrained, WorkerPop, WorkerDrawDone, ConsumerAcquire, ConsumerReset, ConsumerRelease,
     FenceSignals
<1>4. ASSUME NEW t \in Threads, Lifecycle(t) \/ Dequeue(t) \/ Enqueue(t) PROVE CallType'
  <2> DEFINE To(l) ==
        /\ l \in Labels /\ Goto(t, l)
        /\ held' \subseteq Buffers /\ taken' \subseteq Buffers /\ lock' \in {lock, t, NoThread}
        /\ \/ buf' = buf
           \/ \E b \in Buffers \cup {NoBuffer} : buf' = [buf EXCEPT ![t] = b]
        /\ l \in WithBuf => buf'[t] \in Buffers
  <2> USE <1>1 DEF CallType, Labels, Waiting, Owning, Finalising, WithBuf, Acquire, Return
  <2>1. CASE SurfaceInit(t) \/ CreateSwapchain(t)
    BY <1>2, <2>1 DEF SurfaceInit, CreateSwapchain, callVars
  <2>2. CASE DestroyCall(t) \/ FiniCall(t) \/ Unlist(t) \/ DropList(t) \/ FiniRest(t)
    <3>1. \E l \in {"unlist", "finiUnlist", "finiDrop", "drop", "idle"} : To(l)
      BY <2>2 DEF DestroyCall, FiniCall, Unlist, DropList, FiniRest
    <3> QED BY <3>1, CallTypeKept
  <2>3. CASE GetCall(t) \/ DequeueCall(t) \/ DequeueSleep(t)
    <3>1. \E l \in {"getTake", "deqLock", "asleep"} : To(l)
      BY <2>3 DEF GetCall, DequeueCall, DequeueSleep
    <3> QED BY <3>1, CallTypeKept
  <2>4. CASE GetTake(t)
    <3>1. \/ To("getGive")
          \/ /\ UNCHANGED <<held, pc, buf, lock>>
             /\ \E b : QueueDequeue(b) /\ taken' = taken \cup {b}
      BY <2>4 DEF GetTake
    <3>2. \A b : QueueDequeue(b) => b \in Buffers
      BY DequeueType DEF TypeInv
    <3> QED BY <3>1, <3>2, CallTypeKept
  <2>5. CASE GetGive(t)
    <3>1. To("idle") \/ (taken' \subseteq Buffers /\ UNCHANGED <<held, pc, buf, lock>>)
      BY <2>5 DEF GetGive
    <3> QED BY <3>1, CallTypeKept
  <2>6. CASE DequeueTake(t)
    <3>1. PICK b \in Buffers : QueueDequeue(b) /\ buf' = [buf EXCEPT ![t] = b]
      BY <2>6 DEF DequeueTake
    <3>2. To("deqRef")
      BY <2>6, <3>1 DEF DequeueTake
    <3> QED BY <3>2, CallTypeKept
  <2>7. CASE DequeueRef(t)
    <3>1. To("idle")
      BY <2>7 DEF DequeueRef
    <3> QED BY <3>1, CallTypeKept
  <2>8. CASE EnqueueCall(t)
    <3>1. PICK b \in held : held' = held \ {b} /\ buf' = [buf EXCEPT ![t] = b]
      BY <2>8 DEF EnqueueCall
    <3>2. To("enqLock")
      BY <2>8, <3>1 DEF EnqueueCall
    <3> QED BY <3>2, CallTypeKept
  <2>9. CASE EnqueueKeep(t) \/ Push(t) \/ PushCount(t) \/ Notify(t)
    <3>1. \E l \in {"push", "pushCount", "notify", "idle"} : To(l)
      BY <2>9 DEF EnqueueKeep, Push, PushCount, Notify
    <3> QED BY <3>1, CallTypeKept
  <2>10. CASE EnqueueUnref(t) \/ EnqueueQueue(t)
    <3>1. \E l \in {"enqFence", "idle"} : To(l)
      BY <2>10 DEF EnqueueUnref, EnqueueQueue
    <3> QED BY <3>1, CallTypeKept
  <2> QED BY <1>4, <2>1, <2>2, <2>3, <2>4, <2>5, <2>6, <2>7, <2>8, <2>9, <2>10
          DEF Lifecycle, Dequeue, Enqueue
<1> QED BY <1>3, <1>4 DEF Next

\* The worker: it calls draw_done with a buffer.
LEMMA WorkerTypeStep == ASSUME TypeInv, [Next]_vars PROVE WorkerType'
<1>1. WorkerType
  BY DEF TypeInv
<1>2. CASE UNCHANGED <<wpc, wbuf, scanning, drawWait, event>>
  BY <1>1, <1>2 DEF WorkerType
<1>3. \/ UNCHANGED workerVars
      \/ \E t \in Threads : CreateSwapchain(t) \/ Notify(t)
      \/ Worker
  BY DEF Next, Environment, Lifecycle, Dequeue, Enqueue, vars, ConsumerAcquire, ConsumerReset,
     ConsumerRelease, FenceSignals, SurfaceInit, Unlist, FiniRest, DestroyCall, FiniCall, DropList,
     GetCall, GetTake, GetGive, DequeueCall, DequeueTake, DequeueSleep, DequeueRef, EnqueueCall,
     EnqueueKeep, Push, PushCount, EnqueueUnref, EnqueueQueue
<1>4. ASSUME NEW t \in Threads, CreateSwapchain(t) \/ Notify(t) PROVE WorkerType'
  BY <1>1, <1>4 DEF CreateSwapchain, Notify, WorkerType
<1>5. CASE WorkerNotified \/ WorkerFence \/ WorkerLook \/ WorkerDrained \/ WorkerDrawDone
  BY <1>1, <1>5 DEF WorkerNotified, WorkerFence, WorkerLook, WorkerDrained, WorkerDrawDone,
     WorkerType, WorkerPC
<1>6. CASE WorkerPop
  <2>1. Head(waiting) \in Buffers
    BY <1>6, Taken DEF WorkerPop, TypeInv, ListType
  <2> QED BY <1>1, <1>6, <2>1 DEF WorkerPop, WorkerType, WorkerPC
<1> QED BY <1>2, <1>3, <1>4, <1>5, <1>6 DEF workerVars, Worker

\* fini can only take what the queue has.
LEMMA RobbedTypeStep == ASSUME TypeInv, [Next]_vars PROVE robbed' \subseteq Buffers
<1>1. \/ robbed' = robbed
      \/ ConsumerReset
      \/ \E t \in Threads : FiniRest(t)
  BY DEF Next, Worker, Environment, Lifecycle, Dequeue, Enqueue, vars, bufferVars, WorkerNotified,
     WorkerFence, WorkerLook, WorkerDrained, WorkerPop, WorkerDrawDone, ConsumerAcquire,
     ConsumerRelease, FenceSignals, SurfaceInit, CreateSwapchain, Unlist, DestroyCall, FiniCall,
     DropList, GetCall, GetTake, GetGive, DequeueCall, DequeueTake, DequeueSleep, DequeueRef,
     EnqueueCall, EnqueueKeep, Push, PushCount, Notify, EnqueueUnref, EnqueueQueue
<1>2. ConsumerReset => robbed' = {}
  BY DEF ConsumerReset
<1>3. ASSUME NEW t \in Threads, FiniRest(t) PROVE robbed' \subseteq Buffers
  <2>1. Tracked(node) \subseteq Buffers
    BY DEF Tracked, TypeInv, QueueType
  <2> QED BY <1>3, <2>1 DEF FiniRest
<1> QED BY <1>1, <1>2, <1>3 DEF TypeInv

\* Together.
LEMMA TypeStep == ASSUME TypeInv, [Next]_vars PROVE TypeInv'
  BY RobbedTypeStep, SurfaceTypeStep, QueueTypeStep, BufferTypeStep, ListTypeStep, CallTypeStep, WorkerTypeStep
     DEF TypeInv

\* Every variable has the type its C declaration gives it (tpl_tbm.c, tpl_gbm.c,
\* tpl_worker_thread.c), whatever rules the application and the consumer break; of
\* the list this says that its count, written by two threads, is never negative.
THEOREM NativeTypeCorrect == Spec => []TypeOK
<1>1. TypeInv => TypeOK
  BY DEF TypeInv, SurfaceType, QueueType, BufferType, ListType, CallType, WorkerType, TypeOK, Labels
<1>2. TypeInv /\ [Next]_vars => TypeInv'
  BY TypeStep
<1> QED
  BY <1>1, <1>2, TypeInit, PTL DEF Spec

-----------------------------------------------------------------------------
(* The invariant                                                           *)

\* Who owns the object lock, and who has which buffer.
ThreadInv ==
    /\ \A t \in Threads : /\ pc[t] \in Owning => lock = t
                          /\ pc[t] = "push" => Vulkan
                          /\ pc[t] = "enqFence" => ~Vulkan
    /\ \A t, x \in Threads :
          pc[t] \in WithBuf /\ pc[x] \in WithBuf /\ buf[t] = buf[x] => t = x
    /\ taken # {} => \E t \in Threads : pc[t] \in {"getTake", "getGive"}

\* What the worker has between its steps: with surface_mutex no draw_wait_buffer
\* but what it has popped; without it what it waits for.
WorkerInv ==
    /\ scanning => swapchain /\ drawWait = NoBuffer
    /\ wpc = "pop" => scanning
    /\ wpc \in {"epoll", "look"} => ~scanning
    /\ wpc = "drawDone" /\ ~scanning => drawWait = wbuf
    /\ wpc # "drawDone" => wbuf = NoBuffer

\* What exists together: a worker has frames only while there is a swapchain, and
\* who destroys something is alone.
LifeInv ==
    /\ swapchain => alive /\ Vulkan
    /\ ~swapchain => WorkerDone
    /\ ~swapchain /\ Vulkan => held = {} /\ \A t \in Threads : pc[t] \in {"idle", "drop", "finiDrop"}
    /\ ~alive => held = {} /\ \A t \in Threads : pc[t] = "idle"
    /\ alive => robbed = {}
    /\ backend # "gbm" => current = NoBuffer
    /\ \A t \in Threads : pc[t] \in Destroying =>
          /\ held \subseteq (IF backend = "gbm" THEN {current} ELSE {}) /\ WorkerDone /\ alive
          /\ \A x \in Threads : x = t \/ pc[x] = "idle"
          /\ swapchain <=> pc[t] \in {"unlist", "finiUnlist"}

\* The holders of a reference on a buffer outside the queue and the worker.
Clients(b) == b \in held \/ CalledWith(b, {"enqLock", "push"})

\* The account of one buffer: its references, the places where it is, and what
\* its node in the queue says of that.
Entry(b) ==
    /\ ref[b] + One(b \in robbed)
         = One(node[b] # "none") + One(Clients(b)) + One(b \in Range(waiting))
           + One(b \in Range(InHand))
    /\ Places(b) <= 1
    /\ node[b] = "dequeued" => Places(b) = 1 \/ ~alive
    /\ node[b] \in {"free", "dirty", "acquired"} => Places(b) = 0
    /\ node[b] \in {"dirty", "acquired"} => sync[b] # "pending"
    /\ node[b] = "dirty" <=> b \in Range(dirty)
    /\ b \in taken \/ CalledWith(b, {"deqRef"}) => node[b] = "dequeued"

Ledger == \A b \in Buffers : Entry(b)

ListInv == IsInjective(dirty) /\ IsInjective(waiting)

Inv == TypeInv /\ ThreadInv /\ WorkerInv /\ LifeInv /\ ListInv /\ Ledger

\* It holds in the beginning.
LEMMA InvInit == Init => Inv
<1> SUFFICES ASSUME Init PROVE Inv
  OBVIOUS
<1>1. \A t \in Threads : pc[t] = "idle"
  BY DEF Init
<1>2. InHand = <<>> /\ WorkerDone
  BY DEF Init, InHand, WorkerDone
<1>3. ThreadInv /\ WorkerInv
  BY <1>1 DEF Init, ThreadInv, WorkerInv, Owning, WithBuf
<1>4. LifeInv
  BY <1>1, <1>2 DEF Init, LifeInv, Destroying, Finalising
<1>5. ListInv
  BY Short DEF Init, ListInv
<1>6. ASSUME NEW b \in Buffers PROVE Entry(b)
  <2>1. /\ node[b] = "none" /\ ref[b] = 0 /\ robbed = {} /\ b \notin held /\ b \notin taken
        /\ b \notin Range(waiting) /\ b \notin Range(dirty) /\ b \notin Range(InHand)
    BY <1>2, Short DEF Init
  <2>2. ~Clients(b) /\ ~CalledWith(b, {"deqRef"})
        /\ ~CalledWith(b, {"deqRef", "enqLock", "enqFence", "push"})
    BY <1>1, <2>1 DEF Clients, CalledWith
  <2> QED BY <2>1, <2>2 DEF Entry, Places, One
<1> QED BY <1>3, <1>4, <1>5, <1>6, TypeInit DEF Inv, Ledger

-----------------------------------------------------------------------------
(* What a step leaves as it was                                            *)

\* A thread that goes from one place to another; its buffer may change.
Goes(t, l) ==
    /\ Goto(t, l)
    /\ \/ buf' = buf
       \/ \E b \in Buffers \cup {NoBuffer} : buf' = [buf EXCEPT ![t] = b]

\* Only the thread that moves is somewhere else, perhaps with another buffer.
LEMMA Moved ==
    ASSUME TypeInv, NEW t \in Threads, NEW l, Goes(t, l)
    PROVE  /\ \A x \in Threads : pc'[x] = IF x = t THEN l ELSE pc[x]
           /\ \A x \in Threads : x # t => buf'[x] = buf[x]
<1>1. pc \in [Threads -> Labels] /\ buf \in [Threads -> Buffers \cup {NoBuffer}]
  BY DEF TypeInv, CallType
<1>2. \A x \in Threads : pc'[x] = IF x = t THEN l ELSE pc[x]
  BY <1>1 DEF Goes, Goto
<1>3. \A x \in Threads : x # t => buf'[x] = buf[x]
  BY <1>1 DEF Goes
<1> QED BY <1>2, <1>3

\* It leaves every buffer but its own with those that have it.
LEMMA CalledElsewhere ==
    ASSUME TypeInv, NEW t \in Threads, NEW l, Goes(t, l), NEW c,
           pc[t] \in WithBuf => buf[t] # c, l \in WithBuf => buf'[t] # c
    PROVE  \A L \in SUBSET WithBuf : CalledWith(c, L)' <=> CalledWith(c, L)
<1>1. /\ \A x \in Threads : pc'[x] = IF x = t THEN l ELSE pc[x]
      /\ \A x \in Threads : x # t => buf'[x] = buf[x]
  BY Moved
<1> QED BY <1>1 DEF CalledWith

\* A buffer that no other thread has.
LEMMA CalledHere ==
    ASSUME TypeInv, NEW t \in Threads, NEW l, Goes(t, l), NEW c,
           \A x \in Threads : x # t /\ pc[x] \in WithBuf => buf[x] # c
    PROVE  \A L \in SUBSET WithBuf :
              /\ CalledWith(c, L) <=> pc[t] \in L /\ buf[t] = c
              /\ CalledWith(c, L)' <=> l \in L /\ buf'[t] = c
<1>1. /\ \A x \in Threads : pc'[x] = IF x = t THEN l ELSE pc[x]
      /\ \A x \in Threads : x # t => buf'[x] = buf[x]
  BY Moved
<1> QED BY <1>1 DEF CalledWith

\* What the account of a buffer depends on: references, ...
SameCount(c) ==
    /\ ref'[c] = ref[c]
    /\ Clients(c)' <=> Clients(c)
    /\ c \in robbed' <=> c \in robbed
    /\ c \in Range(waiting)' <=> c \in Range(waiting)
    /\ c \in Range(InHand)' <=> c \in Range(InHand)
\* ... places, ...
SamePlaces(c) ==
    /\ c \in held' <=> c \in held
    /\ c \in taken' <=> c \in taken
    /\ \A L \in SUBSET WithBuf : CalledWith(c, L)' <=> CalledWith(c, L)
\* ... and the queue.
SameQueue(c) ==
    /\ node'[c] = node[c] /\ (sync'[c] = sync[c] \/ sync'[c] # "pending")
    /\ c \in Range(dirty)' <=> c \in Range(dirty)

\* Where they are as they were, the account stays right.
LEMMA EntryKept ==
    ASSUME NEW c, Entry(c), SameCount(c), SamePlaces(c), SameQueue(c),
           node[c] = "dequeued" /\ alive' => alive
    PROVE  Entry(c)'
<1>1. /\ CalledWith(c, {"deqRef", "enqLock", "enqFence", "push"})'
            <=> CalledWith(c, {"deqRef", "enqLock", "enqFence", "push"})
      /\ CalledWith(c, {"deqRef"})' <=> CalledWith(c, {"deqRef"})
  BY DEF SamePlaces, WithBuf
<1>2. Places(c)' = Places(c)
  BY <1>1 DEF Places, One, SamePlaces, SameCount
<1> QED BY <1>1, <1>2 DEF Entry, One, SameCount, SamePlaces, SameQueue

\* A thread in a call finds the surface and, for Vulkan, the swapchain, and
\* nobody destroys them.
LEMMA InCall ==
    ASSUME Inv, NEW t \in Threads, pc[t] \notin {"idle"} \cup Destroying
    PROVE  /\ alive /\ robbed = {} /\ (Vulkan => swapchain)
           /\ \A x \in Threads : pc[x] \notin Destroying
<1>1. alive /\ robbed = {}
  BY DEF Inv, LifeInv
<1>2. \A x \in Threads : pc[x] \notin Destroying
  BY DEF Inv, LifeInv
<1>3. Vulkan => swapchain
  BY DEF Inv, LifeInv, Destroying, Finalising
<1> QED BY <1>1, <1>2, <1>3

\* Where fini has taken nothing, the account is the plain one.
LEMMA Unrobbed ==
    ASSUME NEW b, Entry(b), ref[b] \in Nat, robbed = {}
    PROVE  ref[b] = One(node[b] # "none") + One(Clients(b)) + One(b \in Range(waiting))
                  + One(b \in Range(InHand))
<1>1. One(b \in robbed) = 0
  BY DEF One
<1> QED BY <1>1 DEF Entry

\* A buffer that the queue gives to a dequeue was with nobody.
LEMMA Fresh ==
    ASSUME Inv, NEW t \in Threads, pc[t] \in {"deqLock", "asleep", "getTake"},
           pc[t] = "deqLock" => lock = NoThread, NEW b, QueueDequeue(b)
    PROVE  /\ b \in Buffers /\ (node[b] = "free" \/ (node[b] = "none" /\ ref[b] = 0))
           /\ Places(b) = 0 /\ robbed = {} /\ ~Clients(b) /\ b \notin held /\ b \notin taken
           /\ b \notin Range(waiting) /\ b \notin Range(InHand) /\ b \notin Range(dirty)
           /\ \A x \in Threads : pc[x] \in WithBuf => buf[x] # b
<1>1. b \in Buffers
  BY DequeueType DEF Inv, TypeInv
<1>2. Entry(b) /\ ref[b] \in Nat
  BY <1>1 DEF Inv, Ledger, TypeInv, BufferType
<1>3. node[b] = "free" \/ ref[b] = 0
  <2>1. node[b] = "free" \/ ~IsAlive[b]
    BY DEF QueueDequeue, Obtainable, Dequeuable, InState
  <2>2. ref[b] > 0 => IsAlive[b]
    BY <1>1 DEF IsAlive
  <2> QED BY <1>2, <2>1, <2>2
<1>4. robbed = {}
  BY InCall DEF Destroying, Finalising
<1>5. node[b] = "free" \/ (node[b] = "none" /\ ref[b] = 0)
  BY <1>2, <1>3, <1>4, Unrobbed DEF One
<1>6. Places(b) = 0
  <2>1. CASE node[b] = "free"
    BY <1>2, <2>1 DEF Entry
  <2>2. CASE node[b] = "none" /\ ref[b] = 0
    <3>1. ~Clients(b) /\ b \notin Range(waiting) /\ b \notin Range(InHand)
      BY <1>2, <1>4, <2>2, Unrobbed DEF One
    <3>2. b \notin taken /\ ~CalledWith(b, {"deqRef"})
      BY <1>2, <2>2 DEF Entry
    <3>3. \A x \in Threads : pc[x] # "enqFence"
      <4>1. ASSUME NEW x \in Threads, pc[x] = "enqFence" PROVE FALSE
        <5>1. lock = x
          BY <4>1 DEF Inv, ThreadInv, Owning
        <5>2. lock = t \/ lock = NoThread
          BY DEF Inv, ThreadInv, Owning
        <5> QED BY <4>1, <5>1, <5>2, NativeAssumption
      <4> QED BY <4>1
    <3>4. ~CalledWith(b, {"deqRef", "enqLock", "enqFence", "push"})
      BY <3>1, <3>2, <3>3 DEF CalledWith, Clients
    <3> QED BY <3>1, <3>2, <3>4 DEF Places, One, Clients
  <2> QED BY <1>5, <2>1, <2>2
<1>7. /\ b \notin held /\ b \notin taken /\ b \notin Range(waiting) /\ b \notin Range(InHand)
      /\ ~CalledWith(b, {"deqRef", "enqLock", "enqFence", "push"})
  BY <1>6 DEF Places, One
<1>8. \A x \in Threads : pc[x] \in WithBuf => buf[x] # b
  BY <1>7 DEF CalledWith, WithBuf
<1>9. ~Clients(b)
  BY <1>7, <1>8 DEF Clients, CalledWith, WithBuf
<1>10. b \notin Range(dirty)
  BY <1>2, <1>5 DEF Entry
<1> QED BY <1>1, <1>4, <1>5, <1>6, <1>7, <1>8, <1>9, <1>10

\* A buffer of a thread is in no other place.
LEMMA InOnePlace ==
    ASSUME Inv, NEW t \in Threads, pc[t] \in WithBuf, NEW b, b = buf[t]
    PROVE  /\ b \in Buffers /\ b \notin held /\ b \notin taken
           /\ b \notin Range(waiting) /\ b \notin Range(InHand) /\ b \notin Range(dirty)
           /\ Places(b) = 1 /\ node[b] \in {"none", "dequeued"}
           /\ \A x \in Threads : x # t /\ pc[x] \in WithBuf => buf[x] # b
<1>1. b \in Buffers /\ Entry(b) /\ node[b] \in NodeState
  BY DEF Inv, TypeInv, CallType, QueueType, Ledger
<1>2. CalledWith(b, {"deqRef", "enqLock", "enqFence", "push"})
  BY DEF CalledWith, WithBuf
<1>3. /\ b \notin held /\ b \notin taken /\ b \notin Range(waiting) /\ b \notin Range(InHand)
      /\ Places(b) = 1
  BY <1>1, <1>2 DEF Entry, Places, One
<1>4. node[b] \in {"none", "dequeued"} /\ b \notin Range(dirty)
  BY <1>1, <1>3 DEF Entry, NodeState
<1>5. \A x \in Threads : x # t /\ pc[x] \in WithBuf => buf[x] # b
  BY DEF Inv, ThreadInv
<1> QED BY <1>1, <1>3, <1>4, <1>5

\* So is a buffer the application has.
LEMMA HeldInOnePlace ==
    ASSUME Inv, NEW b \in held
    PROVE  /\ b \in Buffers /\ b \notin taken
           /\ b \notin Range(waiting) /\ b \notin Range(InHand) /\ b \notin Range(dirty)
           /\ Places(b) = 1 /\ node[b] \in {"none", "dequeued"}
           /\ \A x \in Threads : pc[x] \in WithBuf => buf[x] # b
<1>1. b \in Buffers /\ Entry(b) /\ node[b] \in NodeState
  BY DEF Inv, TypeInv, CallType, QueueType, Ledger
<1>2. /\ b \notin taken /\ b \notin Range(waiting) /\ b \notin Range(InHand) /\ Places(b) = 1
      /\ ~CalledWith(b, {"deqRef", "enqLock", "enqFence", "push"})
  BY <1>1 DEF Entry, Places, One
<1>3. node[b] \in {"none", "dequeued"} /\ b \notin Range(dirty)
  BY <1>1, <1>2 DEF Entry, NodeState
<1> QED BY <1>1, <1>2, <1>3 DEF CalledWith, WithBuf

-----------------------------------------------------------------------------
(* Threads and the lock                                                    *)

\* A step of a thread that takes the lock before it owns anything, and a buffer
\* nobody has.
LEMMA ThreadKept ==
    ASSUME Inv, NEW t \in Threads, NEW l, Goes(t, l), backend' = backend,
           l \in Owning => lock' = t, lock' = lock \/ lock \in {t, NoThread},
           l = "push" => Vulkan, l = "enqFence" => ~Vulkan,
           l \in WithBuf => \A x \in Threads : x # t /\ pc[x] \in WithBuf => buf[x] # buf'[t],
           \/ taken' = {} \/ l \in {"getTake", "getGive"}
           \/ taken' = taken /\ pc[t] \notin {"getTake", "getGive"}
    PROVE  ThreadInv'
<1>1. /\ \A x \in Threads : pc'[x] = IF x = t THEN l ELSE pc[x]
      /\ \A x \in Threads : x # t => buf'[x] = buf[x]
  BY Moved DEF Inv
<1>2. \A x \in Threads : pc'[x] \in Owning => lock' = x
  BY <1>1, NativeAssumption DEF Inv, ThreadInv
<1>3. \A x \in Threads : (pc'[x] = "push" => Vulkan') /\ (pc'[x] = "enqFence" => ~Vulkan')
  BY <1>1 DEF Inv, ThreadInv, Vulkan
<1>4. \A y, x \in Threads :
         pc'[y] \in WithBuf /\ pc'[x] \in WithBuf /\ buf'[y] = buf'[x] => y = x
  BY <1>1 DEF Inv, ThreadInv
<1>5. taken' # {} => \E x \in Threads : pc'[x] \in {"getTake", "getGive"}
  BY <1>1 DEF Inv, ThreadInv
<1> QED BY <1>2, <1>3, <1>4, <1>5 DEF ThreadInv

\* Every step keeps it.
LEMMA ThreadStep == ASSUME Inv, [Next]_vars PROVE ThreadInv'
<1>1. CASE UNCHANGED <<backend, pc, buf, taken, lock>>
  BY <1>1 DEF Inv, ThreadInv, Vulkan
<1>2. CASE Worker \/ Environment \/ UNCHANGED vars
  BY <1>1, <1>2 DEF Worker, Environment, vars, callVars, surfaceVars, WorkerNotified, WorkerFence,
     WorkerLook, WorkerDrained, WorkerPop, WorkerDrawDone, ConsumerAcquire, ConsumerReset,
     ConsumerRelease, FenceSignals
<1>3. ASSUME NEW t \in Threads, Lifecycle(t) \/ Dequeue(t) \/ Enqueue(t) PROVE ThreadInv'
  <2> DEFINE To(l) ==
        /\ Goes(t, l) /\ backend' = backend
        /\ l \in Owning => lock' = t
        /\ lock' = lock \/ lock \in {t, NoThread}
        /\ \/ taken' = {} \/ l \in {"getTake", "getGive"}
           \/ taken' = taken /\ pc[t] \notin {"getTake", "getGive"}
  <2>1. ASSUME NEW l, To(l), l \notin WithBuf PROVE ThreadInv'
    BY <2>1, ThreadKept DEF WithBuf
  <2>2. pc[t] \in Owning => lock = t
    BY DEF Inv, ThreadInv
  <2> USE <2>2 DEF Owning, Waiting, Finalising, Acquire, Return, Goes, surfaceVars
  <2>3. CASE SurfaceInit(t) \/ CreateSwapchain(t)
    BY <1>1, <2>3 DEF SurfaceInit, CreateSwapchain, callVars
  <2>4. CASE DestroyCall(t) \/ FiniCall(t) \/ Unlist(t) \/ DropList(t) \/ FiniRest(t)
    <3>1. \E l \in {"unlist", "finiUnlist", "finiDrop", "drop", "idle"} : To(l)
      BY <2>4 DEF Idle, DestroyCall, FiniCall, Unlist, DropList, FiniRest
    <3> QED BY <2>1, <3>1 DEF WithBuf
  <2>5. CASE GetCall(t) \/ DequeueCall(t) \/ DequeueSleep(t)
    <3>1. \E l \in {"getTake", "deqLock", "asleep"} : To(l)
      BY <2>5 DEF GetCall, DequeueCall, DequeueSleep
    <3> QED BY <2>1, <3>1 DEF WithBuf
  <2>6. ASSUME UNCHANGED <<backend, pc, buf, lock>>, pc[t] \in {"getTake", "getGive"}
        PROVE  ThreadInv'
    BY <2>6 DEF Inv, ThreadInv, Vulkan
  <2>7. CASE GetTake(t)
    <3>1. To("getGive") \/ (UNCHANGED <<backend, pc, buf, lock>> /\ pc[t] = "getTake")
      BY <2>7 DEF GetTake
    <3> QED BY <2>1, <2>6, <3>1 DEF WithBuf
  <2>8. CASE GetGive(t)
    <3>1. To("idle") \/ (UNCHANGED <<backend, pc, buf, lock>> /\ pc[t] = "getGive")
      BY <2>8 DEF GetGive
    <3> QED BY <2>1, <2>6, <3>1 DEF WithBuf
  <2>9. CASE DequeueTake(t)
    <3>1. PICK b \in Buffers : QueueDequeue(b) /\ buf' = [buf EXCEPT ![t] = b]
      BY <2>9 DEF DequeueTake
    <3>2. pc[t] \in {"deqLock", "asleep"} /\ (pc[t] = "deqLock" => lock = NoThread)
      BY <2>9 DEF DequeueTake
    <3>3. To("deqRef")
      BY <2>9, <3>1 DEF DequeueTake
    <3>4. buf'[t] = b
      BY <3>1 DEF Inv, TypeInv, CallType
    <3>5. \A x \in Threads : pc[x] \in WithBuf => buf[x] # b
      BY <3>1, <3>2, Fresh
    <3> QED BY <3>3, <3>4, <3>5, ThreadKept
  <2>10. CASE DequeueRef(t) \/ Notify(t) \/ PushCount(t) \/ Push(t) \/ EnqueueQueue(t)
              \/ EnqueueUnref(t)
    <3>1. \E l \in {"idle", "notify", "pushCount", "enqFence"} : To(l)
      BY <2>10 DEF DequeueRef, Notify, PushCount, Push, EnqueueQueue, EnqueueUnref
    <3>2. \A l : Goes(t, l) /\ l \in WithBuf /\ l \in {"idle", "notify", "pushCount", "enqFence"}
            => pc[t] \in WithBuf /\ buf' = buf /\ (l = "enqFence" => ~Vulkan)
      BY <2>10 DEF DequeueRef, Notify, PushCount, Push, EnqueueQueue, EnqueueUnref, WithBuf, Goto,
         Inv, TypeInv, CallType
    <3>3. pc[t] \in WithBuf =>
            \A x \in Threads : x # t /\ pc[x] \in WithBuf => buf[x] # buf[t]
      BY DEF Inv, ThreadInv
    <3>4. PICK l \in {"idle", "notify", "pushCount", "enqFence"} : To(l)
      BY <3>1
    <3>5. l \in WithBuf => pc[t] \in WithBuf /\ buf' = buf /\ (l = "enqFence" => ~Vulkan)
      BY <3>2, <3>4
    <3> QED BY <3>3, <3>4, <3>5, ThreadKept DEF WithBuf
  <2>11. CASE EnqueueCall(t)
    <3>1. PICK b \in held : buf' = [buf EXCEPT ![t] = b]
      BY <2>11 DEF EnqueueCall
    <3>2. b \in Buffers /\ \A x \in Threads : pc[x] \in WithBuf => buf[x] # b
      BY HeldInOnePlace
    <3>3. To("enqLock")
      BY <2>11, <3>1, <3>2 DEF EnqueueCall
    <3>4. buf'[t] = b
      BY <3>1 DEF Inv, TypeInv, CallType
    <3> QED BY <3>2, <3>3, <3>4, ThreadKept
  <2>12. CASE EnqueueKeep(t)
    <3>1. To("push") /\ buf' = buf /\ pc[t] \in WithBuf /\ Vulkan
      BY <2>12 DEF EnqueueKeep, WithBuf
    <3>2. \A x \in Threads : x # t /\ pc[x] \in WithBuf => buf[x] # buf[t]
      BY <3>1 DEF Inv, ThreadInv
    <3> QED BY <3>1, <3>2, ThreadKept
  <2> QED BY <1>3, <2>3, <2>4, <2>5, <2>7, <2>8, <2>9, <2>10, <2>11, <2>12
          DEF Lifecycle, Dequeue, Enqueue
<1> QED BY <1>2, <1>3 DEF Next

-----------------------------------------------------------------------------
(* The worker                                                              *)

\* Every step keeps what the worker has: it walks the surfaces with
\* surface_mutex, and creation and destruction wait for that.
LEMMA WorkerStep == ASSUME Inv, [Next]_vars PROVE WorkerInv'
<1>1. CASE UNCHANGED <<swapchain, wpc, wbuf, scanning, drawWait>>
  BY <1>1 DEF Inv, WorkerInv
<1>2. \/ UNCHANGED <<swapchain, wpc, wbuf, scanning, drawWait>>
      \/ \E t \in Threads : CreateSwapchain(t) \/ Unlist(t)
      \/ Worker
  <2>1. swapchain' = swapchain \/ \E t \in Threads : CreateSwapchain(t) \/ Unlist(t)
    BY DEF Next, Worker, Environment, Lifecycle, Dequeue, Enqueue, vars, surfaceVars,
       WorkerNotified, WorkerFence, WorkerLook, WorkerDrained, WorkerPop, WorkerDrawDone,
       ConsumerAcquire, ConsumerReset, ConsumerRelease, FenceSignals, SurfaceInit, FiniRest,
       DestroyCall, FiniCall, DropList, GetCall, GetTake, GetGive, DequeueCall, DequeueTake,
       DequeueSleep, DequeueRef, EnqueueCall, EnqueueKeep, Push, PushCount, Notify, EnqueueUnref,
       EnqueueQueue
  <2>2. \/ UNCHANGED workerVars
        \/ \E t \in Threads : CreateSwapchain(t) \/ Notify(t)
        \/ Worker
    BY DEF Next, Environment, Lifecycle, Dequeue, Enqueue, vars, ConsumerAcquire, ConsumerReset,
       ConsumerRelease, FenceSignals, SurfaceInit, Unlist, FiniRest, DestroyCall, FiniCall,
       DropList, GetCall, GetTake, GetGive, DequeueCall, DequeueTake, DequeueSleep, DequeueRef,
       EnqueueCall, EnqueueKeep, Push, PushCount, EnqueueUnref, EnqueueQueue
  <2>3. ASSUME NEW t \in Threads, Notify(t) PROVE UNCHANGED <<wpc, wbuf, scanning, drawWait>>
    BY <2>3 DEF Notify
  <2> QED BY <2>1, <2>2, <2>3 DEF workerVars
<1>3. ASSUME NEW t \in Threads, CreateSwapchain(t) PROVE WorkerInv'
  <2>1. WorkerDone
    BY <1>3 DEF CreateSwapchain, Inv, LifeInv
  <2> QED BY <1>3, <2>1 DEF CreateSwapchain, Inv, WorkerInv, WorkerDone
<1>4. ASSUME NEW t \in Threads, Unlist(t) PROVE WorkerInv'
  BY <1>4 DEF Unlist, workerVars, Inv, WorkerInv
<1>5. CASE WorkerNotified \/ WorkerFence \/ WorkerDrained
  BY <1>5 DEF WorkerNotified, WorkerFence, WorkerDrained, surfaceVars, Inv, WorkerInv
<1>6. CASE WorkerLook
  BY <1>6 DEF WorkerLook, surfaceVars, Inv, WorkerInv
<1>7. CASE WorkerPop
  <2>1. /\ wpc = "pop" /\ swapchain' = swapchain
        /\ \/ scanning' = FALSE /\ wpc' = "epoll" /\ wbuf' = wbuf
           \/ wpc' = "drawDone" /\ UNCHANGED <<drawWait, scanning>>
    BY <1>7 DEF WorkerPop, surfaceVars
  <2> QED BY <2>1 DEF Inv, WorkerInv
<1>8. CASE WorkerDrawDone
  BY <1>8 DEF WorkerDrawDone, surfaceVars, Inv, WorkerInv
<1> QED BY <1>1, <1>2, <1>3, <1>4, <1>5, <1>6, <1>7, <1>8 DEF Worker

\* What the worker has in hand is one buffer or none.
LEMMA Hand ==
    ASSUME TypeInv, WorkerInv
    PROVE  /\ InHand \in Seq(Buffers)
           /\ wpc = "drawDone" => InHand = <<wbuf>>
           /\ wpc # "drawDone" /\ drawWait # NoBuffer => InHand = <<drawWait>>
           /\ wpc # "drawDone" /\ drawWait = NoBuffer => InHand = <<>>
           /\ WorkerDone => InHand = <<>>
<1>1. wpc = "drawDone" => wbuf \in Buffers /\ wbuf # NoBuffer
  BY NativeAssumption DEF TypeInv, WorkerType
<1>2. drawWait # NoBuffer => drawWait \in Buffers
  BY DEF TypeInv, WorkerType
<1> QED BY <1>1, <1>2 DEF InHand, WorkerDone

\* A worker without frames gets none but from the list, and does not work.
LEMMA DoneStays ==
    ASSUME Inv, WorkerDone, Worker \/ Environment
    PROVE  WorkerDone'
<1>1. wpc # "drawDone"
  BY NativeAssumption DEF Inv, TypeInv, WorkerType, WorkerDone
<1>2. CASE Worker
  BY <1>1, <1>2 DEF Worker, WorkerNotified, WorkerFence, WorkerLook, WorkerDrained, WorkerPop,
     WorkerDrawDone, listVars, WorkerDone
<1>3. CASE Environment
  BY <1>3 DEF Environment, ConsumerAcquire, ConsumerReset, ConsumerRelease, FenceSignals,
     listVars, workerVars, WorkerDone
<1> QED BY <1>2, <1>3

-----------------------------------------------------------------------------
(* The life of the surface and of the swapchain                            *)

\* The steps of the calls that use both.
CallStep(t) ==
    \/ GetCall(t) \/ GetTake(t) \/ GetGive(t) \/ Dequeue(t) \/ Enqueue(t)

\* In a call the surface stays, and the worker does not move.
LEMMA CallFacts ==
    ASSUME Inv, NEW t \in Threads, CallStep(t)
    PROVE  /\ alive /\ (Vulkan => swapchain) /\ robbed = {} /\ robbed' = {}
           /\ \A x \in Threads : pc[x] \notin Destroying
           /\ UNCHANGED <<backend, alive, swapchain, count>> \/ PushCount(t)
           /\ UNCHANGED <<backend, alive, swapchain>>
           /\ UNCHANGED <<wpc, wbuf, scanning, drawWait>>
           /\ \A x \in Threads : pc'[x] \notin Destroying
<1>1. \/ pc[t] \notin {"idle"} \cup Destroying
      \/ GetCall(t) \/ DequeueCall(t) \/ EnqueueCall(t)
  BY DEF CallStep, Dequeue, Enqueue, GetTake, GetGive, DequeueTake, DequeueSleep, DequeueRef,
     EnqueueKeep, Push, PushCount, Notify, EnqueueUnref, EnqueueQueue, Destroying, Finalising
<1>2. ASSUME GetCall(t) \/ DequeueCall(t) \/ EnqueueCall(t)
      PROVE  alive /\ (Vulkan => swapchain) /\ \A x \in Threads : pc[x] \notin Destroying
  <2>1. InUse
    BY <1>2 DEF GetCall, DequeueCall, EnqueueCall
  <2>2. \A x \in Threads : pc[x] \notin Destroying
    BY <2>1 DEF InUse, Destroying
  <2>3. swapchain \/ (alive /\ (Vulkan => swapchain)) \/ (alive /\ held # {})
    BY <1>2 DEF GetCall, DequeueCall, EnqueueCall
  <2> QED BY <2>2, <2>3 DEF Inv, LifeInv
<1>3. /\ alive /\ (Vulkan => swapchain) /\ robbed = {}
      /\ \A x \in Threads : pc[x] \notin Destroying
  BY <1>1, <1>2, InCall DEF Inv, LifeInv
<1>4. /\ UNCHANGED <<backend, alive, swapchain, robbed>>
      /\ UNCHANGED <<backend, alive, swapchain, count>> \/ PushCount(t)
  BY DEF CallStep, Dequeue, Enqueue, GetCall, GetTake, GetGive, DequeueCall, DequeueTake,
     DequeueSleep, DequeueRef, EnqueueCall, EnqueueKeep, Push, PushCount, Notify, EnqueueUnref,
     EnqueueQueue, surfaceVars, bufferVars, listVars
<1>5. UNCHANGED <<wpc, wbuf, scanning, drawWait>>
  BY DEF CallStep, Dequeue, Enqueue, GetCall, GetTake, GetGive, DequeueCall, DequeueTake,
     DequeueSleep, DequeueRef, EnqueueCall, EnqueueKeep, Push, PushCount, Notify, EnqueueUnref,
     EnqueueQueue, workerVars
<1>6. \/ pc' = pc
      \/ \E l \in {"getTake", "getGive", "idle", "deqLock", "asleep", "deqRef", "enqLock", "push",
                   "pushCount", "notify", "enqFence"} : Goto(t, l)
  BY DEF CallStep, Dequeue, Enqueue, GetCall, GetTake, GetGive, DequeueCall, DequeueTake,
     DequeueSleep, DequeueRef, EnqueueCall, EnqueueKeep, Push, PushCount, Notify, EnqueueUnref,
     EnqueueQueue, Return
<1>7. \A x \in Threads : pc'[x] \notin Destroying
  BY <1>3, <1>6 DEF Goto, Destroying, Finalising, Inv, TypeInv, CallType
<1> QED BY <1>3, <1>4, <1>5, <1>7

\* Every step keeps it.
LEMMA LifeStep == ASSUME Careful, Inv, [Next]_vars PROVE LifeInv'
<1> USE DEF Destroying, Finalising
<1>1. CASE Worker \/ Environment \/ UNCHANGED vars
  <2>1. UNCHANGED <<backend, alive, swapchain, current, held, pc>>
    BY <1>1 DEF Worker, Environment, vars, surfaceVars, callVars, WorkerNotified, WorkerFence,
       WorkerLook, WorkerDrained, WorkerPop, WorkerDrawDone, ConsumerAcquire, ConsumerReset,
       ConsumerRelease, FenceSignals
  <2>2. WorkerDone => WorkerDone'
    BY <1>1, DoneStays DEF vars, listVars, workerVars, WorkerDone
  <2>3. robbed' \in {robbed, {}}
    BY <1>1 DEF Worker, Environment, vars, bufferVars, WorkerNotified, WorkerFence, WorkerLook,
       WorkerDrained, WorkerPop, WorkerDrawDone, ConsumerAcquire, ConsumerReset, ConsumerRelease,
       FenceSignals
  <2> QED BY <2>1, <2>2, <2>3 DEF Inv, LifeInv, Vulkan
<1>2. ASSUME NEW t \in Threads, CallStep(t) PROVE LifeInv'
  <2>1. /\ alive /\ (Vulkan => swapchain) /\ UNCHANGED <<backend, alive, swapchain>>
        /\ UNCHANGED <<wbuf, drawWait>> /\ \A x \in Threads : pc'[x] \notin Destroying
        /\ robbed' = {}
    BY <1>2, CallFacts
  <2>2. ~swapchain => waiting' = waiting
    <3>1. Push(t) => Vulkan
      BY DEF Push, Inv, ThreadInv
    <3>2. waiting' = waiting \/ Push(t)
      BY <1>2 DEF CallStep, Dequeue, Enqueue, GetCall, GetTake, GetGive, DequeueCall, DequeueTake,
         DequeueSleep, DequeueRef, EnqueueCall, EnqueueKeep, PushCount, Notify, EnqueueUnref,
         EnqueueQueue, listVars
    <3> QED BY <2>1, <3>1, <3>2
  <2>3. current' = current \/ backend = "gbm"
    BY <1>2 DEF CallStep, Dequeue, Enqueue, GetCall, GetTake, GetGive, DequeueCall, DequeueTake,
       DequeueSleep, DequeueRef, EnqueueCall, EnqueueKeep, Push, PushCount, Notify, EnqueueUnref,
       EnqueueQueue, surfaceVars
  <2> QED BY <2>1, <2>2, <2>3 DEF Inv, LifeInv, Vulkan, WorkerDone
<1>3. ASSUME NEW t \in Threads, SurfaceInit(t) PROVE LifeInv'
  BY <1>3 DEF SurfaceInit, Idle, callVars, bufferVars, listVars, workerVars, Inv, LifeInv, Vulkan,
     WorkerDone
<1>4. ASSUME NEW t \in Threads, CreateSwapchain(t) PROVE LifeInv'
  BY <1>4 DEF CreateSwapchain, InUse, callVars, bufferVars, Inv, LifeInv, Vulkan, WorkerDone
<1>5. ASSUME NEW t \in Threads, DestroyCall(t) \/ FiniCall(t) PROVE LifeInv'
  <2>1. /\ Idle /\ alive /\ WorkerDone
        /\ UNCHANGED <<backend, alive, robbed, swapchain, current, waiting, wbuf, drawWait, held>>
        /\ held \subseteq (IF backend = "gbm" THEN {current} ELSE {})
        /\ \E l \in {"unlist", "finiUnlist", "finiDrop"} :
              Goto(t, l) /\ (swapchain <=> l \in {"unlist", "finiUnlist"})
    BY <1>5 DEF DestroyCall, FiniCall, Careful, AllRules, surfaceVars, bufferVars, listVars,
       workerVars, Inv, LifeInv
  <2>2. PICK l \in {"unlist", "finiUnlist", "finiDrop"} :
           Goto(t, l) /\ (swapchain <=> l \in {"unlist", "finiUnlist"})
    BY <2>1
  <2>3. \A x \in Threads : pc'[x] = IF x = t THEN l ELSE "idle"
    BY <2>1, <2>2 DEF Goto, Idle, Inv, TypeInv, CallType
  <2> QED BY <2>1, <2>2, <2>3 DEF Inv, LifeInv, Vulkan, WorkerDone
<1>6. ASSUME NEW t \in Threads, Unlist(t) PROVE LifeInv'
  <2>1. PICK l \in {"drop", "finiDrop"} : Goto(t, l)
    BY <1>6 DEF Unlist
  <2>2. /\ pc[t] \in Destroying /\ swapchain' = FALSE
        /\ UNCHANGED <<backend, alive, robbed, current, waiting, wbuf, drawWait, held>>
    BY <1>6 DEF Unlist, bufferVars, listVars, workerVars
  <2>3. /\ held \subseteq (IF backend = "gbm" THEN {current} ELSE {}) /\ WorkerDone /\ alive
        /\ \A x \in Threads : x = t \/ pc[x] = "idle"
    BY <2>2 DEF Inv, LifeInv
  <2>4. \A x \in Threads : pc'[x] = IF x = t THEN l ELSE "idle"
    BY <2>1, <2>3 DEF Goto, Inv, TypeInv, CallType
  <2> QED BY <2>1, <2>2, <2>3, <2>4 DEF Inv, LifeInv, Vulkan, WorkerDone
<1>7. ASSUME NEW t \in Threads, DropList(t) \/ FiniRest(t) PROVE LifeInv'
  <2>1. /\ pc[t] \in {"drop", "finiDrop"} /\ Goto(t, "idle") /\ waiting' = <<>>
        /\ UNCHANGED <<backend, swapchain, current, wbuf, drawWait>>
        /\ UNCHANGED <<alive, robbed, held>> \/ (~alive' /\ held' = {})
    BY <1>7 DEF DropList, FiniRest, Return, surfaceVars, bufferVars, workerVars
  <2>2. /\ held \subseteq (IF backend = "gbm" THEN {current} ELSE {})
        /\ WorkerDone /\ alive /\ ~swapchain
        /\ \A x \in Threads : x = t \/ pc[x] = "idle"
    BY <2>1 DEF Inv, LifeInv
  <2>3. \A x \in Threads : pc'[x] = "idle"
    BY <2>1, <2>2 DEF Goto, Inv, TypeInv, CallType
  <2> QED BY <2>1, <2>2, <2>3 DEF Inv, LifeInv, Vulkan, WorkerDone
<1> QED BY <1>1, <1>2, <1>3, <1>4, <1>5, <1>6, <1>7 DEF Next, Lifecycle, CallStep

-----------------------------------------------------------------------------
(* The lists                                                               *)

\* Nothing is twice in the queue's frames nor in draw_waiting_queue.
LEMMA ListStep == ASSUME Inv, [Next]_vars PROVE ListInv'
<1>1. /\ dirty \in Seq(Buffers) /\ waiting \in Seq(Buffers)
      /\ IsInjective(dirty) /\ IsInjective(waiting)
  BY DEF Inv, TypeInv, QueueType, ListType, ListInv
<1>2. ASSUME NEW b \in Buffers, QueueEnqueue(b) PROVE IsInjective(dirty')
  <2>1. node[b] = "dequeued" => b \notin Range(dirty)
    BY DEF Inv, Ledger, Entry
  <2>2. dirty' = (IF node[b] = "dequeued" THEN Append(dirty, b) ELSE dirty)
    BY <1>2, EnqueueType DEF Inv, TypeInv
  <2> QED BY <1>1, <2>1, <2>2, Appended
<1>3. IsInjective(dirty')
  <2>1. \/ dirty' = dirty
        \/ \E t \in Threads : EnqueueQueue(t)
        \/ WorkerDrawDone \/ ConsumerAcquire \/ ConsumerReset
    BY DEF Next, Worker, Environment, Lifecycle, Dequeue, Enqueue, vars, queueVars, WorkerNotified,
       WorkerFence, WorkerLook, WorkerDrained, WorkerPop, FenceSignals, ConsumerRelease,
       SurfaceInit, CreateSwapchain, Unlist, FiniRest, DestroyCall, FiniCall, DropList, GetCall,
       GetTake, GetGive, DequeueCall, DequeueTake, DequeueSleep, DequeueRef, EnqueueCall,
       EnqueueKeep, Push, PushCount, Notify, EnqueueUnref
  <2>2. ASSUME NEW t \in Threads, EnqueueQueue(t) PROVE IsInjective(dirty')
    BY <1>2, <2>2 DEF EnqueueQueue, Inv, TypeInv, CallType, WithBuf
  <2>3. CASE WorkerDrawDone
    BY <1>2, <2>3 DEF WorkerDrawDone, Inv, TypeInv, WorkerType
  <2>4. CASE ConsumerAcquire \/ ConsumerReset
    <3>1. (dirty # <<>> /\ dirty' = Tail(dirty)) \/ dirty' = <<>>
      BY <2>4 DEF ConsumerAcquire, ConsumerReset
    <3>2. dirty # <<>> => IsInjective(Tail(dirty))
      BY <1>1, Taken
    <3> QED BY <3>1, <3>2, Short
  <2> QED BY <1>1, <2>1, <2>2, <2>3, <2>4
<1>4. IsInjective(waiting')
  <2>1. \/ waiting' = waiting \/ waiting' = <<>>
        \/ \E t \in Threads : Push(t)
        \/ WorkerPop
    BY DEF Next, Worker, Environment, Lifecycle, Dequeue, Enqueue, vars, listVars, WorkerNotified,
       WorkerFence, WorkerLook, WorkerDrained, WorkerDrawDone, FenceSignals, ConsumerRelease,
       ConsumerAcquire, ConsumerReset, SurfaceInit, CreateSwapchain, Unlist, FiniRest,
       DestroyCall, FiniCall, DropList, GetCall, GetTake, GetGive, DequeueCall, DequeueTake,
       DequeueSleep, DequeueRef, EnqueueCall, EnqueueKeep, PushCount, Notify, EnqueueUnref,
       EnqueueQueue
  <2>2. ASSUME NEW t \in Threads, Push(t) PROVE IsInjective(waiting')
    <3>1. waiting' = Append(waiting, buf[t]) /\ pc[t] \in WithBuf
      BY <2>2 DEF Push, WithBuf
    <3>2. buf[t] \in Buffers /\ buf[t] \notin Range(waiting)
      BY <3>1, InOnePlace
    <3> QED BY <1>1, <3>1, <3>2, Appended
  <2>3. CASE WorkerPop
    <3>1. waiting # <<>> /\ waiting' = Tail(waiting)
      BY <2>3 DEF WorkerPop
    <3> QED BY <1>1, <3>1, Taken
  <2> QED BY <1>1, <2>1, <2>2, <2>3, Short
<1> QED BY <1>3, <1>4 DEF ListInv

-----------------------------------------------------------------------------
(* The account                                                             *)

\* A buffer a call does not work on.
LEMMA CallKept ==
    ASSUME Inv, NEW t \in Threads, CallStep(t), NEW c \in Buffers, NEW l, Goes(t, l),
           pc[t] \in WithBuf => buf[t] # c, l \in WithBuf => buf'[t] # c,
           ref'[c] = ref[c], SameQueue(c), c \in held' <=> c \in held,
           c \in taken' <=> c \in taken, c \in Range(waiting)' <=> c \in Range(waiting)
    PROVE  Entry(c)'
<1>1. /\ alive /\ robbed = {} /\ robbed' = {} /\ UNCHANGED <<wpc, wbuf, drawWait>>
      /\ \A x \in Threads : pc[x] \notin Destroying /\ pc'[x] \notin Destroying
  BY CallFacts
<1>2. \A L \in SUBSET WithBuf : CalledWith(c, L)' <=> CalledWith(c, L)
  BY CalledElsewhere DEF Inv
<1>3. SamePlaces(c)
  BY <1>2 DEF SamePlaces
<1>4. Clients(c)' = Clients(c)
  <2>1. CalledWith(c, {"enqLock", "push"})' <=> CalledWith(c, {"enqLock", "push"})
    BY <1>2 DEF WithBuf
  <2> QED BY <2>1 DEF Clients
<1>5. InHand' = InHand
  BY <1>1 DEF InHand
<1>6. SameCount(c)
  BY <1>1, <1>4, <1>5 DEF SameCount
<1> QED BY <1>1, <1>3, <1>6, EntryKept DEF Inv, Ledger

\* The buffer it works on, which no other thread has.
LEMMA OwnBuffer ==
    ASSUME Inv, NEW t \in Threads, CallStep(t), NEW l, Goes(t, l), NEW b \in Buffers,
           \A x \in Threads : x # t /\ pc[x] \in WithBuf => buf[x] # b
    PROVE  /\ Clients(b) <=> b \in held \/ (pc[t] \in {"enqLock", "push"} /\ buf[t] = b)
           /\ Clients(b)' <=> b \in held' \/ (l \in {"enqLock", "push"} /\ buf'[t] = b)
           /\ CalledWith(b, {"deqRef"}) <=> pc[t] = "deqRef" /\ buf[t] = b
           /\ CalledWith(b, {"deqRef"})' <=> l = "deqRef" /\ buf'[t] = b
           /\ CalledWith(b, {"deqRef", "enqLock", "enqFence", "push"})'
                <=> l \in WithBuf /\ buf'[t] = b
           /\ robbed = {} /\ robbed' = {} /\ InHand' = InHand /\ alive /\ Entry(b) /\ ref[b] \in Nat
<1>1. \A L \in SUBSET WithBuf :
         /\ CalledWith(b, L) <=> pc[t] \in L /\ buf[t] = b
         /\ CalledWith(b, L)' <=> l \in L /\ buf'[t] = b
  BY CalledHere DEF Inv
<1>2. /\ CalledWith(b, {"enqLock", "push"}) <=> pc[t] \in {"enqLock", "push"} /\ buf[t] = b
      /\ CalledWith(b, {"enqLock", "push"})' <=> l \in {"enqLock", "push"} /\ buf'[t] = b
      /\ CalledWith(b, {"deqRef"}) <=> pc[t] = "deqRef" /\ buf[t] = b
      /\ CalledWith(b, {"deqRef"})' <=> l = "deqRef" /\ buf'[t] = b
      /\ CalledWith(b, {"deqRef", "enqLock", "enqFence", "push"})'
           <=> l \in WithBuf /\ buf'[t] = b
  BY <1>1 DEF WithBuf
<1>3. /\ alive /\ robbed = {} /\ robbed' = {} /\ UNCHANGED <<wpc, wbuf, drawWait>>
      /\ \A x \in Threads : pc[x] \notin Destroying /\ pc'[x] \notin Destroying
  BY CallFacts
<1>4. InHand' = InHand
  BY <1>3 DEF InHand
<1>5. Entry(b) /\ ref[b] \in Nat
  BY DEF Inv, Ledger, TypeInv, BufferType
<1> QED BY <1>2, <1>3, <1>4, <1>5 DEF Clients

\* Steps of a call that touch no buffer.
LEMMA PassingLedger ==
    ASSUME Inv, NEW t \in Threads,
           \/ GetCall(t) \/ DequeueCall(t) \/ DequeueSleep(t) \/ PushCount(t) \/ Notify(t)
           \/ GetTake(t) /\ UNCHANGED <<node, ref, taken>>
           \/ GetGive(t) /\ UNCHANGED <<node, taken>>
    PROVE  Ledger'
<1>1. CallStep(t) /\ pc[t] \notin WithBuf
  BY DEF CallStep, Dequeue, Enqueue, GetCall, DequeueCall, DequeueSleep, PushCount, Notify, GetTake,
     GetGive, WithBuf
<1>2. UNCHANGED <<ref, node, sync, dirty, held, taken, waiting>>
  BY DEF GetCall, DequeueCall, DequeueSleep, PushCount, Notify, GetTake, GetGive, queueVars,
     bufferVars, listVars
<1>3. PICK l : Goes(t, l) /\ l \notin WithBuf
  <2>1. CASE pc' = pc
    <3>1. buf' = buf
      BY <2>1 DEF GetCall, DequeueCall, DequeueSleep, PushCount, Notify, GetTake, GetGive, Goto,
         Return, Inv, TypeInv, CallType
    <3>2. pc' = [pc EXCEPT ![t] = pc[t]]
      BY <2>1 DEF Inv, TypeInv, CallType
    <3> QED BY <1>1, <3>1, <3>2 DEF Goes, Goto
  <2>2. CASE pc' # pc
    <3>1. \E l \in {"getTake", "deqLock", "asleep", "notify", "idle", "getGive"} : Goes(t, l)
      BY <2>2 DEF GetCall, DequeueCall, DequeueSleep, PushCount, Notify, GetTake, GetGive, Goes,
         Return
    <3> QED BY <3>1 DEF WithBuf
  <2> QED BY <2>1, <2>2
<1>4. ASSUME NEW c \in Buffers PROVE Entry(c)'
  BY <1>1, <1>2, <1>3, CallKept DEF SameQueue
<1> QED BY <1>4 DEF Ledger

\* get_swapchain_buffers or dequeue_buffer takes a buffer from the queue.
LEMMA TakeLedger ==
    ASSUME Inv, NEW t \in Threads, GetTake(t) \/ DequeueTake(t), NEW b, QueueDequeue(b),
           \/ /\ pc[t] = "getTake" /\ taken' = taken \cup {b} /\ UNCHANGED <<pc, buf>>
           \/ /\ pc[t] \in {"deqLock", "asleep"} /\ taken' = taken
              /\ pc[t] = "deqLock" => lock = NoThread
              /\ Goto(t, "deqRef") /\ buf' = [buf EXCEPT ![t] = b]
    PROVE  Ledger'
<1>1. /\ b \in Buffers /\ (node[b] = "free" \/ (node[b] = "none" /\ ref[b] = 0))
      /\ Places(b) = 0 /\ robbed = {} /\ ~Clients(b) /\ b \notin held /\ b \notin taken
      /\ b \notin Range(waiting) /\ b \notin Range(InHand) /\ b \notin Range(dirty)
      /\ \A x \in Threads : pc[x] \in WithBuf => buf[x] # b
  BY Fresh
<1>2. /\ node'[b] = "dequeued" /\ ref'[b] = (IF node[b] = "none" THEN 1 ELSE ref[b])
      /\ \A c \in Buffers : c # b => node'[c] = node[c] /\ ref'[c] = ref[c]
  BY DequeueType DEF Inv, TypeInv
<1>3. CallStep(t) /\ UNCHANGED <<dirty, sync, held, waiting>> /\ pc[t] \notin WithBuf
  BY DEF CallStep, Dequeue, GetTake, DequeueTake, listVars, WithBuf
<1>4. PICK l : Goes(t, l) /\ (l \in WithBuf => buf'[t] = b) /\ (l \in WithBuf => l = "deqRef")
                /\ (l = "deqRef" \/ (b \in taken' /\ l \notin WithBuf))
                /\ (l = "deqRef" => taken' = taken)
  <2>1. CASE UNCHANGED <<pc, buf>> /\ taken' = taken \cup {b} /\ pc[t] = "getTake"
    <3>1. pc' = [pc EXCEPT ![t] = "getTake"]
      BY <2>1 DEF Inv, TypeInv, CallType
    <3> QED BY <2>1, <3>1 DEF Goes, Goto, WithBuf
  <2>2. CASE Goto(t, "deqRef") /\ buf' = [buf EXCEPT ![t] = b] /\ taken' = taken
    BY <1>1, <2>2 DEF Goes, Inv, TypeInv, CallType
  <2> QED BY <2>1, <2>2
<1>5. ASSUME NEW c \in Buffers PROVE Entry(c)'
  <2>1. CASE c # b
    <3>1. c \in taken' <=> c \in taken
      BY <2>1
    <3> QED BY <1>2, <1>3, <1>4, <2>1, <3>1, CallKept DEF SameQueue
  <2>2. CASE c = b
    <3>1. /\ ~Clients(b)' /\ (CalledWith(b, {"deqRef"})' <=> l = "deqRef")
          /\ CalledWith(b, {"deqRef", "enqLock", "enqFence", "push"})' <=> l = "deqRef"
          /\ robbed' = {} /\ InHand' = InHand /\ Entry(b) /\ ref[b] \in Nat
      BY <1>1, <1>3, <1>4, OwnBuffer DEF WithBuf
    <3>2. ref'[b] = 1
      BY <1>1, <1>2, <3>1 DEF Entry, One
    <3>3. Places(b)' = 1
      BY <1>1, <1>3, <1>4, <3>1 DEF Places, One
    <3> QED BY <1>1, <1>2, <1>3, <2>2, <3>1, <3>2, <3>3 DEF Entry, One
  <2> QED BY <2>1, <2>2
<1> QED BY <1>5 DEF Ledger

\* get_swapchain_buffers gives one back.
LEMMA GiveLedger ==
    ASSUME Inv, NEW t \in Threads, GetGive(t), NEW b \in taken,
           node' = Released(node, b), taken' = taken \ {b}, UNCHANGED <<pc, buf>>
    PROVE  Ledger'
<1>1. b \in Buffers /\ Entry(b) /\ ref[b] \in Nat
  BY DEF Inv, Ledger, TypeInv, CallType, BufferType
<1>2. node[b] = "dequeued" /\ Places(b) = 1
  BY <1>1 DEF Entry, Places, One
<1>3. /\ node'[b] = "free" /\ \A c \in Buffers : c # b => node'[c] = node[c]
  BY <1>1, <1>2, ReleaseType DEF Inv, TypeInv
<1>4. /\ b \notin held /\ b \notin Range(waiting) /\ b \notin Range(InHand)
      /\ b \notin Range(dirty)
      /\ \A x \in Threads : pc[x] \in WithBuf => buf[x] # b
  BY <1>1, <1>2 DEF Entry, Places, One, CalledWith, WithBuf
<1>5. /\ CallStep(t) /\ UNCHANGED <<ref, dirty, sync, held, waiting>> /\ pc[t] = "getGive"
  BY DEF CallStep, GetGive, bufferVars, listVars
<1>6. Goes(t, "getGive")
  BY <1>5 DEF Goes, Goto, Inv, TypeInv, CallType
<1>7. ASSUME NEW c \in Buffers PROVE Entry(c)'
  <2>1. CASE c # b
    BY <1>3, <1>5, <1>6, <2>1, CallKept DEF SameQueue, WithBuf
  <2>2. CASE c = b
    <3>1. /\ ~Clients(b) /\ ~Clients(b)' /\ ~CalledWith(b, {"deqRef"})'
          /\ ~CalledWith(b, {"deqRef", "enqLock", "enqFence", "push"})'
          /\ robbed = {} /\ robbed' = {} /\ InHand' = InHand
      BY <1>1, <1>4, <1>5, <1>6, OwnBuffer DEF WithBuf
    <3>2. ref[b] = 1
      BY <1>1, <1>2, <1>4, <3>1 DEF Entry, One
    <3>3. Places(b)' = 0
      BY <1>4, <1>5, <3>1 DEF Places, One
    <3> QED BY <1>3, <1>4, <1>5, <2>2, <3>1, <3>2, <3>3 DEF Entry, One
  <2> QED BY <2>1, <2>2
<1> QED BY <1>7 DEF Ledger

\* A call moves its own buffer: from here to there, with what that does to its
\* references, its node and its fence.
LEMMA OwnLedger ==
    ASSUME Inv, NEW t \in Threads, CallStep(t), NEW l, Goes(t, l), NEW b \in Buffers,
           \A x \in Threads : x # t /\ pc[x] \in WithBuf => buf[x] # b,
           pc[t] \in WithBuf => buf[t] = b, l \in WithBuf => buf'[t] = b,
           \A c \in Buffers : c # b =>
              /\ ref'[c] = ref[c] /\ SameQueue(c) /\ (c \in taken' <=> c \in taken)
              /\ (c \in held' <=> c \in held)
              /\ (c \in Range(waiting)' <=> c \in Range(waiting)),
           Entry(b)'
    PROVE  Ledger'
<1>1. ASSUME NEW c \in Buffers, c # b PROVE Entry(c)'
  BY <1>1, CallKept
<1> QED BY <1>1 DEF Ledger

\* dequeue_buffer gives the buffer to the application, with a reference.
LEMMA DequeueRefLedger == ASSUME Inv, NEW t \in Threads, DequeueRef(t) PROVE Ledger'
<1> PICK b : b = buf[t]
  OBVIOUS
<1>1. /\ pc[t] = "deqRef" /\ Goes(t, "idle") /\ held' = held \cup {b}
      /\ ref' = [ref EXCEPT ![b] = IF ref[b] = 0 THEN 0 ELSE ref[b] + 1]
      /\ UNCHANGED <<node, dirty, sync, waiting, taken>>
  BY DEF DequeueRef, Return, Goes, queueVars, listVars
<1>2. /\ b \in Buffers /\ b \notin held /\ b \notin taken /\ b \notin Range(waiting)
      /\ b \notin Range(InHand) /\ b \notin Range(dirty)
      /\ \A x \in Threads : x # t /\ pc[x] \in WithBuf => buf[x] # b
  BY <1>1, InOnePlace DEF WithBuf
<1>3. CallStep(t)
  BY DEF CallStep, Dequeue
<1>4. /\ ~Clients(b) /\ CalledWith(b, {"deqRef"}) /\ Clients(b)'
      /\ ~CalledWith(b, {"deqRef"})'
      /\ ~CalledWith(b, {"deqRef", "enqLock", "enqFence", "push"})'
      /\ robbed = {} /\ robbed' = {} /\ InHand' = InHand /\ Entry(b) /\ ref[b] \in Nat
  BY <1>1, <1>2, <1>3, OwnBuffer DEF WithBuf
<1>5. node[b] = "dequeued" /\ ref[b] = 1
  BY <1>2, <1>4 DEF Entry, One
<1>6. ref'[b] = 2 /\ \A c \in Buffers : c # b => ref'[c] = ref[c]
  <2>1. ref \in [Buffers -> Nat] /\ (IF ref[b] = 0 THEN 0 ELSE ref[b] + 1) = 2
    BY <1>5 DEF Inv, TypeInv, BufferType
  <2> QED BY <1>1, <1>2, <2>1
<1>7. Places(b)' = 1
  BY <1>1, <1>2, <1>4 DEF Places, One
<1>8. Entry(b)'
  BY <1>1, <1>2, <1>4, <1>5, <1>6, <1>7 DEF Entry, One
<1> QED BY <1>1, <1>2, <1>3, <1>6, <1>8, OwnLedger DEF SameQueue, WithBuf

\* The application calls enqueue_buffer with one of its buffers.
LEMMA EnqueueCallLedger == ASSUME Inv, NEW t \in Threads, EnqueueCall(t) PROVE Ledger'
<1>1. PICK b \in held : held' = held \ {b} /\ buf' = [buf EXCEPT ![t] = b]
  BY DEF EnqueueCall
<1>2. /\ b \in Buffers /\ b \notin taken /\ b \notin Range(waiting)
      /\ b \notin Range(InHand) /\ b \notin Range(dirty) /\ node[b] \in {"none", "dequeued"}
      /\ \A x \in Threads : pc[x] \in WithBuf => buf[x] # b
  BY HeldInOnePlace
<1>3. /\ pc[t] = "idle" /\ Goes(t, "enqLock") /\ CallStep(t) /\ buf'[t] = b
      /\ UNCHANGED <<ref, node, dirty, sync, waiting, taken>>
  BY <1>1, <1>2 DEF EnqueueCall, Goes, CallStep, Enqueue, queueVars, bufferVars, listVars, Inv,
     TypeInv, CallType
<1>4. /\ Clients(b) /\ Clients(b)' /\ ~CalledWith(b, {"deqRef"})'
      /\ CalledWith(b, {"deqRef", "enqLock", "enqFence", "push"})'
      /\ robbed = {} /\ robbed' = {} /\ InHand' = InHand /\ Entry(b) /\ ref[b] \in Nat
  BY <1>2, <1>3, OwnBuffer DEF WithBuf
<1>5. Places(b)' = 1
  BY <1>1, <1>2, <1>3, <1>4 DEF Places, One
<1>6. Entry(b)'
  BY <1>2, <1>3, <1>4, <1>5 DEF Entry, One
<1> QED BY <1>1, <1>2, <1>3, <1>6, OwnLedger DEF SameQueue, WithBuf

\* For Vulkan the reference of dequeue becomes that of the list: EnqueueKeep
\* sets the fence, Push appends the frame.
LEMMA KeepLedger == ASSUME Inv, NEW t \in Threads, EnqueueKeep(t) PROVE Ledger'
<1> PICK b : b = buf[t]
  OBVIOUS
<1>1. /\ pc[t] = "enqLock" /\ Goes(t, "push") /\ CallStep(t) /\ buf' = buf
      /\ \E f : sync' = [sync EXCEPT ![b] = f]
      /\ UNCHANGED <<ref, node, dirty, waiting, taken, held>>
  BY DEF EnqueueKeep, Goes, CallStep, Enqueue, queueVars, bufferVars, listVars
<1>2. /\ b \in Buffers /\ b \notin held /\ b \notin taken /\ b \notin Range(waiting)
      /\ b \notin Range(InHand) /\ b \notin Range(dirty) /\ node[b] \in {"none", "dequeued"}
      /\ \A x \in Threads : x # t /\ pc[x] \in WithBuf => buf[x] # b
  BY <1>1, InOnePlace DEF WithBuf
<1>3. /\ Clients(b) /\ Clients(b)' /\ ~CalledWith(b, {"deqRef"})'
      /\ CalledWith(b, {"deqRef", "enqLock", "enqFence", "push"})'
      /\ robbed = {} /\ robbed' = {} /\ InHand' = InHand /\ Entry(b) /\ ref[b] \in Nat
  BY <1>1, <1>2, OwnBuffer DEF WithBuf
<1>4. Places(b)' = 1
  BY <1>1, <1>2, <1>3 DEF Places, One
<1>5. Entry(b)'
  BY <1>1, <1>2, <1>3, <1>4 DEF Entry, One
<1>6. \A c \in Buffers : c # b => sync'[c] = sync[c]
  BY <1>1 DEF Inv, TypeInv, BufferType
<1> QED BY <1>1, <1>2, <1>5, <1>6, OwnLedger DEF SameQueue, WithBuf

\* The buffer goes from the thread that pushes it to draw_waiting_queue.
LEMMA PushLedger == ASSUME Inv, NEW t \in Threads, Push(t) PROVE Ledger'
<1> PICK b : b = buf[t]
  OBVIOUS
<1>1. /\ pc[t] = "push" /\ Goes(t, "pushCount") /\ CallStep(t) /\ buf' = buf
      /\ waiting' = Append(waiting, b)
      /\ UNCHANGED <<ref, node, dirty, sync, taken, held>>
  BY DEF Push, Goes, CallStep, Enqueue, queueVars, bufferVars
<1>2. /\ b \in Buffers /\ b \notin held /\ b \notin taken /\ b \notin Range(waiting)
      /\ b \notin Range(InHand) /\ b \notin Range(dirty) /\ node[b] \in {"none", "dequeued"}
      /\ \A x \in Threads : x # t /\ pc[x] \in WithBuf => buf[x] # b
  BY <1>1, InOnePlace DEF WithBuf
<1>3. Range(waiting') = Range(waiting) \cup {b}
  BY <1>1, <1>2, Appended DEF Inv, TypeInv, ListType
<1>4. /\ Clients(b) /\ ~Clients(b)' /\ ~CalledWith(b, {"deqRef"})'
      /\ ~CalledWith(b, {"deqRef", "enqLock", "enqFence", "push"})'
      /\ robbed = {} /\ robbed' = {} /\ InHand' = InHand /\ Entry(b) /\ ref[b] \in Nat
  BY <1>1, <1>2, OwnBuffer DEF WithBuf
<1>5. Places(b)' = 1
  BY <1>1, <1>2, <1>3, <1>4 DEF Places, One
<1>6. Entry(b)'
  BY <1>1, <1>2, <1>3, <1>4, <1>5 DEF Entry, One
<1> QED BY <1>1, <1>2, <1>3, <1>6, OwnLedger DEF SameQueue, WithBuf

\* A client's reference is one of the buffer's.
LEMMA ClientCounts == ASSUME Inv, NEW b \in Buffers, Clients(b) PROVE ref[b] \in Nat \ {0}
<1>1. robbed = {}
  BY DEF Inv, LifeInv, Clients, CalledWith
<1>2. Entry(b) /\ ref[b] \in Nat
  BY DEF Inv, TypeInv, BufferType, Ledger
<1> QED BY <1>1, <1>2, Unrobbed DEF One

\* For EGL it goes.
LEMMA UnrefLedger == ASSUME Inv, NEW t \in Threads, EnqueueUnref(t) PROVE Ledger'
<1> PICK b : b = buf[t]
  OBVIOUS
<1>1. pc[t] = "enqLock" /\ CallStep(t)
  BY DEF EnqueueUnref, CallStep, Enqueue
<1>2. /\ b \in Buffers /\ b \notin held /\ b \notin taken /\ b \notin Range(waiting)
      /\ b \notin Range(InHand) /\ b \notin Range(dirty) /\ node[b] \in {"none", "dequeued"}
      /\ \A x \in Threads : x # t /\ pc[x] \in WithBuf => buf[x] # b
  BY <1>1, InOnePlace DEF WithBuf
<1>3. Clients(b)
  BY <1>1 DEF Clients, CalledWith
<1>4. ref[b] # 0 /\ ref[b] \in Nat
  BY <1>2, <1>3, ClientCounts
<1>5. /\ Goes(t, "enqFence") /\ buf' = buf /\ \E f : sync' = [sync EXCEPT ![b] = f]
      /\ CountsBecome([ref EXCEPT ![b] = Decremented(@)])
      /\ UNCHANGED <<node, dirty, waiting, taken, held>>
  BY <1>4 DEF EnqueueUnref, Goes, queueVars, listVars
<1>6. ref'[b] = ref[b] - 1 /\ \A c \in Buffers : c # b => ref'[c] = ref[c]
  BY <1>2, <1>4, <1>5, DecrementType DEF Inv, TypeInv
<1>7. /\ ~Clients(b)' /\ ~CalledWith(b, {"deqRef"})'
      /\ CalledWith(b, {"deqRef", "enqLock", "enqFence", "push"})'
      /\ robbed = {} /\ robbed' = {} /\ InHand' = InHand /\ Entry(b)
  BY <1>1, <1>2, <1>5, OwnBuffer DEF WithBuf
<1>8. Places(b)' = 1
  BY <1>2, <1>5, <1>7 DEF Places, One
<1>9. Entry(b)'
  BY <1>2, <1>3, <1>4, <1>5, <1>6, <1>7, <1>8 DEF Entry, One
<1>10. \A c \in Buffers : c # b => sync'[c] = sync[c]
  BY <1>5 DEF Inv, TypeInv, BufferType
<1> QED BY <1>1, <1>2, <1>5, <1>6, <1>9, <1>10, OwnLedger DEF SameQueue, WithBuf

\* The frame is the consumer's, if the queue still tracks it.
LEMMA QueueLedger == ASSUME Inv, NEW t \in Threads, EnqueueQueue(t) PROVE Ledger'
<1> PICK b : b = buf[t]
  OBVIOUS
<1>1. /\ pc[t] = "enqFence" /\ Goes(t, "idle") /\ CallStep(t) /\ QueueEnqueue(b)
      /\ sync' = [sync EXCEPT ![b] = "none"]
      /\ UNCHANGED <<ref, waiting, taken, held>>
  BY DEF EnqueueQueue, Return, Goes, CallStep, Enqueue, bufferVars, listVars
<1>2. /\ b \in Buffers /\ b \notin held /\ b \notin taken /\ b \notin Range(waiting)
      /\ b \notin Range(InHand) /\ b \notin Range(dirty) /\ node[b] \in {"none", "dequeued"}
      /\ \A x \in Threads : x # t /\ pc[x] \in WithBuf => buf[x] # b
  BY <1>1, InOnePlace DEF WithBuf
<1>3. /\ ~Clients(b) /\ ~Clients(b)' /\ ~CalledWith(b, {"deqRef"})'
      /\ ~CalledWith(b, {"deqRef", "enqLock", "enqFence", "push"})'
      /\ robbed = {} /\ robbed' = {} /\ InHand' = InHand /\ Entry(b) /\ ref[b] \in Nat
  BY <1>1, <1>2, OwnBuffer DEF WithBuf
<1>4. /\ dirty \in Seq(Buffers)
      /\ node'[b] = (IF node[b] = "dequeued" THEN "dirty" ELSE "none")
      /\ \A c \in Buffers : c # b => node'[c] = node[c]
      /\ dirty' = (IF node[b] = "dequeued" THEN Append(dirty, b) ELSE dirty)
  BY <1>1, <1>2, EnqueueType DEF Inv, TypeInv, QueueType
<1>5. Range(dirty') = Range(dirty) \cup (IF node[b] = "dequeued" THEN {b} ELSE {})
  BY <1>2, <1>4, Appended
<1>6. sync'[b] = "none" /\ \A c \in Buffers : c # b => sync'[c] = sync[c]
  BY <1>1, <1>2 DEF Inv, TypeInv, BufferType
<1>7. Places(b)' = 0
  BY <1>1, <1>2, <1>3 DEF Places, One
<1>8. Entry(b)'
  BY <1>1, <1>2, <1>3, <1>4, <1>5, <1>6, <1>7 DEF Entry, One
<1> QED BY <1>1, <1>2, <1>4, <1>5, <1>6, <1>8, OwnLedger DEF SameQueue, WithBuf

\* Steps of the worker, the GPU and the consumer, for a buffer they leave alone.
LEMMA OutsideKept ==
    ASSUME Inv, UNCHANGED <<alive, robbed, held, pc, buf, taken>>, NEW c \in Buffers,
           ref'[c] = ref[c], SameQueue(c), c \in Range(waiting)' <=> c \in Range(waiting),
           c \in Range(InHand)' <=> c \in Range(InHand)
    PROVE  Entry(c)'
<1>1. SamePlaces(c) /\ SameCount(c)
  BY DEF SamePlaces, SameCount, Clients, CalledWith
<1> QED BY <1>1, EntryKept DEF Inv, Ledger

\* For the one they work on.
LEMMA OutsideSame ==
    ASSUME UNCHANGED <<held, pc, buf, taken>>, NEW b
    PROVE  /\ Clients(b)' = Clients(b)
           /\ CalledWith(b, {"deqRef"})' = CalledWith(b, {"deqRef"})
           /\ CalledWith(b, {"deqRef", "enqLock", "enqFence", "push"})'
                = CalledWith(b, {"deqRef", "enqLock", "enqFence", "push"})
  BY DEF Clients, CalledWith

\* The worker moves on with what it has.
LEMMA WorkerMovesLedger ==
    ASSUME Inv, WorkerInv', TypeInv',
           WorkerNotified \/ WorkerFence \/ WorkerLook \/ WorkerDrained
    PROVE  Ledger'
<1>1. /\ UNCHANGED <<alive, robbed, held, pc, buf, taken, ref, node, dirty, sync, waiting>>
      /\ drawWait' = drawWait
  BY DEF WorkerNotified, WorkerFence, WorkerLook, WorkerDrained, surfaceVars, queueVars,
     bufferVars, listVars, callVars
<1>2. \/ wpc # "drawDone" /\ wpc' # "drawDone"
      \/ wpc # "drawDone" /\ wpc' = "drawDone" /\ wbuf' = drawWait /\ drawWait # NoBuffer
  BY DEF WorkerNotified, WorkerFence, WorkerLook, WorkerDrained
<1>3. InHand' = InHand
  BY <1>1, <1>2 DEF InHand
<1>4. ASSUME NEW c \in Buffers PROVE Entry(c)'
  BY <1>1, <1>3, OutsideKept DEF SameQueue
<1> QED BY <1>4 DEF Ledger

\* It takes the first frame of draw_waiting_queue.
LEMMA WorkerPopLedger == ASSUME Inv, WorkerPop PROVE Ledger'
<1> PICK b : b = Head(waiting)
  OBVIOUS
<1>1. /\ UNCHANGED <<alive, robbed, held, pc, buf, taken, ref, node, dirty, sync>>
      /\ wpc = "pop" /\ waiting # <<>> /\ waiting' = Tail(waiting)
      /\ \/ drawWait' = b /\ wpc' = "epoll"
         \/ wbuf' = b /\ wpc' = "drawDone"
  BY DEF WorkerPop, surfaceVars, queueVars, bufferVars, callVars
<1>2. waiting \in Seq(Buffers) /\ IsInjective(waiting)
  BY DEF Inv, TypeInv, ListType, ListInv
<1>3. /\ b \in Buffers /\ Range(waiting) = Range(waiting') \cup {b} /\ b \notin Range(waiting')
  BY <1>1, <1>2, Taken
<1>4. InHand = <<>> /\ InHand' = <<b>>
  <2>1. drawWait = NoBuffer
    BY <1>1 DEF Inv, WorkerInv
  <2> QED BY <1>1, <1>3, <2>1, NativeAssumption DEF InHand
<1>5. ASSUME NEW c \in Buffers PROVE Entry(c)'
  <2>1. CASE c # b
    BY <1>1, <1>3, <1>4, <2>1, OutsideKept, Short DEF SameQueue
  <2>2. CASE c = b
    <3>1. /\ b \in Range(waiting) /\ b \notin Range(InHand)
          /\ b \notin Range(waiting)' /\ b \in Range(InHand)'
      BY <1>3, <1>4, Short
    <3>2. Places(b)' = Places(b)
      BY <1>1, <3>1, OutsideSame DEF Places, One
    <3>3. Entry(b)
      BY <1>3 DEF Inv, Ledger
    <3> QED BY <1>1, <2>2, <3>1, <3>2, <3>3, OutsideSame DEF Entry, One
  <2> QED BY <2>1, <2>2
<1> QED BY <1>5 DEF Ledger

\* draw_done: the reference of the list goes, the frame is the consumer's.
LEMMA DrawDoneLedger == ASSUME Inv, WorkerDrawDone PROVE Ledger'
<1> PICK b : b = wbuf
  OBVIOUS
<1>1. /\ UNCHANGED <<alive, robbed, held, pc, buf, taken, waiting>>
      /\ wpc = "drawDone" /\ wpc' # "drawDone" /\ QueueEnqueue(b)
      /\ sync' = [sync EXCEPT ![b] = "none"]
      /\ CountsBecome([ref EXCEPT ![b] = Decremented(@)])
      /\ drawWait' = IF scanning THEN drawWait ELSE NoBuffer
  BY DEF WorkerDrawDone, surfaceVars, listVars, callVars
<1>2. b \in Buffers /\ InHand = <<b>>
  BY <1>1, Hand DEF Inv, TypeInv, WorkerType
<1>3. InHand' = <<>>
  <2>1. drawWait' = NoBuffer
    BY <1>1 DEF Inv, WorkerInv
  <2> QED BY <1>1, <2>1 DEF InHand
<1>4. Entry(b) /\ ref[b] \in Nat /\ b \in Range(InHand) /\ b \notin Range(InHand)'
      /\ node[b] \in NodeState /\ dirty \in Seq(Buffers)
  BY <1>2, <1>3, Short DEF Inv, Ledger, TypeInv, BufferType, QueueType
<1>5. /\ Places(b) = 1 /\ b \notin held /\ b \notin taken /\ b \notin Range(waiting)
      /\ ~CalledWith(b, {"deqRef", "enqLock", "enqFence", "push"})
  BY <1>4 DEF Entry, Places, One
<1>6. node[b] \in {"none", "dequeued"}
  BY <1>4, <1>5 DEF Entry, NodeState
<1>7. robbed = {} /\ ref[b] # 0
  <2>1. ~WorkerDone
    BY <1>1, <1>2, NativeAssumption DEF WorkerDone
  <2>2. robbed = {}
    BY <2>1 DEF Inv, LifeInv
  <2> QED BY <1>4, <2>2, Unrobbed DEF One
<1>8. ref'[b] = ref[b] - 1 /\ \A c \in Buffers : c # b => ref'[c] = ref[c]
  BY <1>1, <1>2, <1>7, DecrementType DEF Inv, TypeInv
<1>9. /\ node'[b] = (IF node[b] = "dequeued" THEN "dirty" ELSE "none")
      /\ \A c \in Buffers : c # b => node'[c] = node[c]
      /\ dirty' = (IF node[b] = "dequeued" THEN Append(dirty, b) ELSE dirty)
  BY <1>1, <1>2, <1>6, EnqueueType DEF Inv, TypeInv
<1>10. Range(dirty') = Range(dirty) \cup (IF node[b] = "dequeued" THEN {b} ELSE {})
  BY <1>2, <1>4, <1>9, Appended
<1>11. sync'[b] = "none" /\ \A c \in Buffers : c # b => sync'[c] = sync[c]
  BY <1>1, <1>2 DEF Inv, TypeInv, BufferType
<1>12. ASSUME NEW c \in Buffers PROVE Entry(c)'
  <2>1. CASE c # b
    BY <1>1, <1>2, <1>3, <1>8, <1>9, <1>10, <1>11, <2>1, OutsideKept, Short DEF SameQueue
  <2>2. CASE c = b
    <3>1. Places(b)' = 0
      BY <1>1, <1>4, <1>5, OutsideSame DEF Places, One
    <3>2. ~CalledWith(b, {"deqRef"})' /\ (Clients(b)' <=> Clients(b))
      BY <1>1, <1>5, OutsideSame DEF CalledWith
    <3>3. ref[b] = One(node[b] # "none") + One(Clients(b)) + One(b \in Range(waiting)) + 1
      BY <1>4, <1>7, Unrobbed DEF One
    <3>4. One(b \in robbed)' = 0 /\ One(b \in Range(InHand))' = 0
      BY <1>1, <1>4, <1>7 DEF One
    <3>5. One(node[b] # "none")' = One(node[b] # "none")
      BY <1>6, <1>9 DEF One
    <3>6. ref'[b] + One(b \in robbed)' = One(node[b] # "none")' + One(Clients(b))'
             + One(b \in Range(waiting))' + One(b \in Range(InHand))'
      BY <1>1, <1>4, <1>8, <3>2, <3>3, <3>4, <3>5 DEF One
    <3> QED BY <1>1, <1>4, <1>5, <1>6, <1>9, <1>10, <1>11, <2>2, <3>1, <3>2, <3>6 DEF Entry
  <2> QED BY <2>1, <2>2
<1> QED BY <1>12 DEF Ledger

\* The GPU ends a drawing.
LEMMA FenceLedger == ASSUME Inv, NEW b \in Buffers, FenceSignals(b) PROVE Ledger'
<1>1. /\ UNCHANGED <<alive, robbed, held, pc, buf, taken, ref, node, dirty, waiting>>
      /\ UNCHANGED <<wpc, wbuf, drawWait>> /\ sync' = [sync EXCEPT ![b] = "signalled"]
  BY DEF FenceSignals, surfaceVars, queueVars, bufferVars, listVars, callVars, workerVars
<1>2. InHand' = InHand
  BY <1>1 DEF InHand
<1>3. \A c \in Buffers : sync'[c] = sync[c] \/ sync'[c] # "pending"
  BY <1>1 DEF Inv, TypeInv, BufferType
<1>4. ASSUME NEW c \in Buffers PROVE Entry(c)'
  BY <1>1, <1>2, <1>3, OutsideKept DEF SameQueue
<1> QED BY <1>4 DEF Ledger

\* What fini has taken from the queue nobody else has.
LEMMA RobbedAlone ==
    ASSUME Inv, NEW c \in robbed
    PROVE  ~Clients(c) /\ c \notin Range(waiting) /\ c \notin Range(InHand)
<1>1. held = {} /\ WorkerDone /\ \A t \in Threads : pc[t] = "idle"
  BY DEF Inv, LifeInv
<1>2. waiting = <<>> /\ InHand = <<>>
  BY <1>1, Hand DEF WorkerDone, Inv
<1> QED BY <1>1, <1>2, Short DEF Clients, CalledWith

\* The consumer acquires a frame, releases one, resets its queue.
LEMMA ConsumerLedger ==
    ASSUME Careful, Inv, ConsumerAcquire \/ ConsumerReset \/ \E b \in Buffers : ConsumerRelease(b)
    PROVE  Ledger'
<1>1. /\ UNCHANGED <<alive, held, pc, buf, taken, sync, waiting>>
      /\ UNCHANGED <<wpc, wbuf, drawWait>>
  BY DEF ConsumerAcquire, ConsumerReset, ConsumerRelease, surfaceVars, listVars, callVars,
     workerVars
<1>2. InHand' = InHand
  BY <1>1 DEF InHand
<1>3. QueueType /\ \A c \in Buffers : Entry(c) /\ ref[c] \in Nat /\ node[c] \in NodeState
  BY DEF Inv, TypeInv, QueueType, BufferType, Ledger
<1>4. CASE ConsumerAcquire
  <2> PICK b : b = Head(dirty)
    OBVIOUS
  <2>1. /\ dirty # <<>> /\ node' = [node EXCEPT ![b] = "acquired"] /\ dirty' = Tail(dirty)
        /\ UNCHANGED <<ref, robbed>>
    BY <1>4 DEF ConsumerAcquire, bufferVars
  <2>2. /\ b \in Buffers /\ Range(dirty) = Range(dirty') \cup {b} /\ b \notin Range(dirty')
    <3>1. dirty \in Seq(Buffers) /\ IsInjective(dirty)
      BY DEF Inv, TypeInv, QueueType, ListInv
    <3> QED BY <2>1, <3>1, Taken
  <2>3. node'[b] = "acquired" /\ \A c \in Buffers : c # b => node'[c] = node[c]
    BY <2>1, <2>2 DEF Inv, TypeInv, QueueType
  <2>4. node[b] = "dirty" /\ Entry(b)
    BY <1>3, <2>2 DEF Entry
  <2>5. Places(b)' = Places(b)
    BY <1>1, <1>2, OutsideSame DEF Places, One
  <2>6. ASSUME NEW c \in Buffers PROVE Entry(c)'
    <3>1. CASE c # b
      BY <1>1, <1>2, <2>1, <2>2, <2>3, <3>1, OutsideKept DEF SameQueue
    <3>2. CASE c = b
      BY <1>1, <1>2, <2>1, <2>2, <2>3, <2>4, <2>5, <3>2, OutsideSame DEF Entry, One
    <3> QED BY <3>1, <3>2
  <2> QED BY <2>6 DEF Ledger
<1>5. ASSUME NEW b \in Buffers, ConsumerRelease(b) PROVE Ledger'
  <2>1. /\ node[b] = "acquired" /\ node' = Released(node, b) /\ UNCHANGED <<ref, robbed, dirty>>
    BY <1>5 DEF ConsumerRelease, bufferVars
  <2>2. node'[b] = "free" /\ \A c \in Buffers : c # b => node'[c] = node[c]
    BY <1>3, <2>1, ReleaseType
  <2>3. Places(b)' = Places(b) /\ Entry(b)
    BY <1>1, <1>2, <1>3, OutsideSame DEF Places, One
  <2>4. ASSUME NEW c \in Buffers PROVE Entry(c)'
    <3>1. CASE c # b
      BY <1>1, <1>2, <2>1, <2>2, <3>1, OutsideKept DEF SameQueue
    <3>2. CASE c = b
      BY <1>1, <1>2, <2>1, <2>2, <2>3, <3>2, OutsideSame DEF Entry, One
    <3> QED BY <3>1, <3>2
  <2> QED BY <2>4 DEF Ledger
<1>6. CASE ConsumerReset
  <2> DEFINE r == [c \in Buffers |-> IF node[c] = "none" THEN ref[c] ELSE Decremented(ref[c])]
  <2>1. /\ node' = [c \in Buffers |-> "none"] /\ dirty' = <<>> /\ robbed' = {} /\ CountsBecome(r)
        /\ \A t \in Threads : pc[t] \notin {"deqRef", "getTake", "getGive"}
    BY <1>3, <1>6 DEF ConsumerReset, Cleared, Careful, AllRules, QueueType
  <2>2. r \in [Buffers -> Nat]
    BY <1>3 DEF Decremented
  <2>3. ref' = r
    BY <2>1, <2>2, CountsType DEF Inv, TypeInv
  <2>4. taken = {} /\ \A c : ~CalledWith(c, {"deqRef"})
    BY <2>1 DEF Inv, ThreadInv, CalledWith
  <2>5. ASSUME NEW c \in Buffers PROVE Entry(c)'
    <3>1. ref'[c] = IF node[c] = "none" THEN ref[c] ELSE Decremented(ref[c])
      BY <2>3
    <3>2. Places(c)' = Places(c) /\ Entry(c) /\ ref[c] \in Nat
      BY <1>1, <1>2, <1>3, OutsideSame DEF Places, One
    <3>3. node'[c] = "none" /\ c \notin Range(dirty') /\ One(c \in robbed)' = 0
      BY <2>1, Short DEF One
    <3>4. ref[c] + One(c \in robbed)
             = One(node[c] # "none") + One(Clients(c)) + One(c \in Range(waiting))
               + One(c \in Range(InHand))
      BY <3>2 DEF Entry
    <3>5. c \in robbed => ~Clients(c) /\ c \notin Range(waiting) /\ c \notin Range(InHand)
      BY RobbedAlone
    <3>6. ref'[c] = One(Clients(c)) + One(c \in Range(waiting)) + One(c \in Range(InHand))
      <4>1. ASSUME NEW n \in {0, 1}, NEW m \in Nat, ref[c] = n + m,
                   n = One(node[c] # "none")
            PROVE  ref'[c] = m
        BY <3>1, <4>1 DEF One, Decremented
      <4>2. CASE c \in robbed
        <5>1. /\ One(Clients(c)) = 0 /\ One(c \in Range(waiting)) = 0
              /\ One(c \in Range(InHand)) = 0 /\ One(c \in robbed) = 1
          BY <3>5, <4>2 DEF One
        <5>2. One(node[c] # "none") = 1 /\ ref[c] = 0
          BY <3>2, <3>4, <5>1 DEF One
        <5>3. ref'[c] = 0
          BY <3>1, <5>2 DEF Decremented
        <5> QED BY <5>1, <5>3
      <4>3. CASE c \notin robbed
        <5>1. One(c \in robbed) = 0
          BY <4>3 DEF One
        <5>2. PICK m \in Nat : m = One(Clients(c)) + One(c \in Range(waiting))
                                   + One(c \in Range(InHand))
          BY DEF One
        <5>3. ref[c] = One(node[c] # "none") + m /\ One(node[c] # "none") \in {0, 1}
          BY <3>2, <3>4, <5>1, <5>2 DEF One
        <5> QED BY <4>1, <5>2, <5>3
      <4> QED BY <4>2, <4>3
    <3>7. (Clients(c)' <=> Clients(c)) /\ waiting' = waiting
      BY <1>1, OutsideSame
    <3>8. ref'[c] + One(c \in robbed)' = One(node[c] # "none")' + One(Clients(c))'
             + One(c \in Range(waiting))' + One(c \in Range(InHand))'
      BY <1>2, <3>2, <3>3, <3>6, <3>7 DEF One
    <3> QED BY <1>1, <1>2, <2>4, <3>2, <3>3, <3>8, OutsideSame DEF Entry
  <2> QED BY <2>5 DEF Ledger
<1> QED BY <1>4, <1>5, <1>6

\* While nobody is in a call, no thread has a buffer.
LEMMA NobodyCalls ==
    ASSUME \A x \in Threads : pc[x] \notin WithBuf /\ pc'[x] \notin WithBuf, NEW c
    PROVE  /\ \A L \in SUBSET WithBuf : ~CalledWith(c, L) /\ ~CalledWith(c, L)'
           /\ Clients(c) <=> c \in held
           /\ Clients(c)' <=> c \in held'
<1>1. \A L \in SUBSET WithBuf : ~CalledWith(c, L) /\ ~CalledWith(c, L)'
  BY DEF CalledWith
<1>2. ~CalledWith(c, {"enqLock", "push"}) /\ ~CalledWith(c, {"enqLock", "push"})'
  BY <1>1 DEF WithBuf
<1> QED BY <1>1, <1>2 DEF Clients

\* A surface or a swapchain is made: it finds no frame of an earlier one.
LEMMA CreateLedger ==
    ASSUME Inv, NEW t \in Threads, SurfaceInit(t) \/ CreateSwapchain(t)
    PROVE  Ledger'
<1>1. CASE CreateSwapchain(t)
  <2>1. /\ waiting = <<>> /\ drawWait = NoBuffer
        /\ waiting' = <<>> /\ drawWait' = NoBuffer
        /\ UNCHANGED <<alive, robbed, held, pc, buf, taken, ref, node, dirty, sync, wpc, wbuf>>
    BY <1>1 DEF CreateSwapchain, Inv, LifeInv, WorkerDone, queueVars, bufferVars, callVars
  <2>2. InHand' = InHand
    BY <2>1 DEF InHand
  <2>3. ASSUME NEW c \in Buffers PROVE Entry(c)'
    BY <2>1, <2>2, OutsideKept DEF SameQueue
  <2> QED BY <2>3 DEF Ledger
<1>2. CASE SurfaceInit(t)
  <2>1. /\ Idle /\ InState(node, "dequeued") = {}
        /\ UNCHANGED <<held, pc, buf, taken, ref, robbed, node, dirty, sync, waiting>>
        /\ UNCHANGED <<wpc, wbuf, drawWait>>
    BY <1>2 DEF SurfaceInit, queueVars, bufferVars, listVars, callVars, workerVars
  <2>2. InHand' = InHand
    BY <2>1 DEF InHand
  <2>3. ASSUME NEW c \in Buffers PROVE Entry(c)'
    <3>1. SamePlaces(c) /\ SameCount(c) /\ SameQueue(c)
      BY <2>1, <2>2 DEF SamePlaces, SameCount, SameQueue, Clients, CalledWith
    <3>2. node[c] # "dequeued"
      BY <2>1 DEF InState, Inv, TypeInv, QueueType
    <3> QED BY <3>1, <3>2, EntryKept DEF Inv, Ledger
  <2> QED BY <2>3 DEF Ledger
<1> QED BY <1>1, <1>2

\* A thread that destroys something and goes on: no buffer moves.
LEMMA DestroyLedger ==
    ASSUME Careful, Inv, NEW t \in Threads,
           DestroyCall(t) \/ FiniCall(t) \/ Unlist(t) \/ DropList(t)
    PROVE  Ledger'
<1>1. /\ UNCHANGED <<alive, robbed, taken, ref, node, dirty, sync, wpc, wbuf, drawWait, held>>
      /\ waiting' \in {waiting, <<>>}
  BY DEF DestroyCall, FiniCall, Unlist, DropList, surfaceVars, queueVars, bufferVars, listVars,
     workerVars
<1>2. /\ WorkerDone /\ \A x \in Threads : x = t \/ pc[x] = "idle"
      /\ pc[t] \in {"idle", "unlist", "finiUnlist", "drop"}
  <2>1. CASE DestroyCall(t) \/ FiniCall(t)
    BY <2>1 DEF DestroyCall, FiniCall, Idle, Careful, AllRules
  <2>2. CASE Unlist(t) \/ DropList(t)
    <3>1. pc[t] \in {"unlist", "finiUnlist", "drop"}
      BY <2>2 DEF Unlist, DropList
    <3> QED BY <3>1 DEF Inv, LifeInv, Destroying, Finalising
  <2> QED BY <2>1, <2>2
<1>3. PICK l \in Destroying \cup {"idle"} : Goto(t, l)
  BY DEF DestroyCall, FiniCall, Unlist, DropList, Return, Destroying, Finalising
<1>4. \A x \in Threads : pc'[x] = IF x = t THEN l ELSE "idle"
  BY <1>2, <1>3 DEF Goto, Inv, TypeInv, CallType
<1>5. waiting' = waiting /\ InHand' = InHand
  BY <1>1, <1>2 DEF WorkerDone, InHand
<1>6. ASSUME NEW c \in Buffers PROVE Entry(c)'
  <2>1. \A x \in Threads : pc[x] \notin WithBuf /\ pc'[x] \notin WithBuf
    BY <1>2, <1>3, <1>4 DEF WithBuf, Destroying, Finalising
  <2>2. /\ \A L \in SUBSET WithBuf : ~CalledWith(c, L) /\ ~CalledWith(c, L)'
        /\ Clients(c)' <=> Clients(c)
    BY <1>1, <2>1, NobodyCalls
  <2>3. SamePlaces(c) /\ SameCount(c) /\ SameQueue(c)
    BY <1>1, <1>5, <2>2 DEF SamePlaces, SameCount, SameQueue
  <2> QED BY <1>1, <2>3, EntryKept DEF Inv, Ledger
<1> QED BY <1>6 DEF Ledger

\* The rest of fini: gbm drops a reference of the application, or, if it has none
\* on current_buffer any more, of the queue.
LEMMA FiniRestLedger == ASSUME Inv, NEW t \in Threads, FiniRest(t) PROVE Ledger'
<1> DEFINE r == [c \in Buffers |-> IF c = current THEN Decremented(ref[c]) ELSE ref[c]]
<1>1. /\ UNCHANGED <<taken, node, dirty, sync, wpc, wbuf, drawWait>>
      /\ waiting' = <<>> /\ alive' = FALSE /\ CountsBecome(r) /\ held' = {}
      /\ pc[t] = "finiDrop" /\ Goto(t, "idle")
      /\ robbed' = {b \in Tracked(node) : b = current /\ b \notin held}
  BY DEF FiniRest, Return, queueVars, workerVars
<1>2. /\ held \subseteq {current} /\ WorkerDone /\ robbed = {}
      /\ \A x \in Threads : x = t \/ pc[x] = "idle"
  BY <1>1 DEF Inv, LifeInv, Destroying, Finalising
<1>3. \A x \in Threads : pc'[x] = "idle"
  BY <1>1, <1>2 DEF Goto, Inv, TypeInv, CallType
<1>4. waiting = <<>> /\ InHand = <<>> /\ InHand' = <<>>
  BY <1>1, <1>2, Hand DEF WorkerDone, InHand, Inv
<1>5. r \in [Buffers -> Nat]
  BY DEF Decremented, Inv, TypeInv, BufferType
<1>6. ref' = r
  BY <1>1, <1>5, CountsType DEF Inv, TypeInv
<1>7. ASSUME NEW c \in Buffers PROVE Entry(c)'
  <2>1. \A x \in Threads : pc[x] \notin WithBuf /\ pc'[x] \notin WithBuf
    BY <1>1, <1>2, <1>3 DEF WithBuf
  <2>2. /\ \A L \in SUBSET WithBuf : ~CalledWith(c, L) /\ ~CalledWith(c, L)'
        /\ (Clients(c) <=> c \in held) /\ ~Clients(c)'
    BY <1>1, <2>1, NobodyCalls
  <2>3. /\ ~CalledWith(c, {"deqRef"}) /\ ~CalledWith(c, {"deqRef"})'
        /\ ~CalledWith(c, {"deqRef", "enqLock", "enqFence", "push"})
        /\ ~CalledWith(c, {"deqRef", "enqLock", "enqFence", "push"})'
    BY <2>2 DEF WithBuf
  <2>4. /\ c \notin Range(waiting) /\ c \notin Range(waiting)'
        /\ c \notin Range(InHand) /\ c \notin Range(InHand)'
    BY <1>1, <1>4, Short
  <2>5. Entry(c) /\ ref[c] \in Nat
    BY DEF Inv, Ledger, TypeInv, BufferType
  <2>6. Places(c) = One(c \in held) + One(c \in taken) /\ Places(c)' = One(c \in taken)
    BY <1>1, <2>3, <2>4 DEF Places, One
  <2>7. /\ ref'[c] = IF c = current THEN Decremented(ref[c]) ELSE ref[c]
        /\ c \in robbed' <=> node[c] # "none" /\ c = current /\ c \notin held
    BY <1>1, <1>6 DEF Tracked, Inv, TypeInv, QueueType
  <2>8. ref[c] = One(node[c] # "none") + One(c \in held)
    BY <1>2, <2>2, <2>4, <2>5 DEF Entry, One
  <2>9. c \in held => c = current
    BY <1>2
  <2>10. ref'[c] + One(c \in robbed') = One(node[c] # "none")
    BY <2>5, <2>7, <2>8, <2>9 DEF One, Decremented
  <2> QED BY <1>1, <2>2, <2>3, <2>4, <2>5, <2>6, <2>10 DEF Entry, One
<1> QED BY <1>7 DEF Ledger

\* Every step keeps the account.
LEMMA LedgerStep == ASSUME Careful, Inv, [Next]_vars, TypeInv', WorkerInv' PROVE Ledger'
<1>1. CASE UNCHANGED vars
  <2>1. InHand' = InHand
    BY <1>1 DEF vars, workerVars, InHand
  <2>2. ASSUME NEW c \in Buffers PROVE Entry(c)'
    <3>1. UNCHANGED <<alive, robbed, held, pc, buf, taken, ref, node, sync, dirty, waiting>>
      BY <1>1 DEF vars, surfaceVars, queueVars, bufferVars, listVars, callVars
    <3> QED BY <2>1, <3>1, OutsideKept DEF SameQueue
  <2> QED BY <2>2 DEF Ledger
<1>2. CASE Worker
  BY <1>2, WorkerMovesLedger, WorkerPopLedger, DrawDoneLedger DEF Worker
<1>3. CASE Environment
  BY <1>3, FenceLedger, ConsumerLedger DEF Environment
<1>4. ASSUME NEW t \in Threads, Lifecycle(t) \/ Dequeue(t) \/ Enqueue(t) PROVE Ledger'
  <2>1. CASE GetTake(t)
    <3>1. CASE UNCHANGED <<node, ref, taken>>
      BY <2>1, <3>1, PassingLedger
    <3>2. CASE ~(UNCHANGED <<node, ref, taken>>)
      <4>1. PICK b : QueueDequeue(b) /\ taken' = taken \cup {b}
        BY <2>1, <3>2 DEF GetTake
      <4>2. pc[t] = "getTake" /\ UNCHANGED <<pc, buf>>
        BY <2>1, <3>2 DEF GetTake
      <4> QED BY <2>1, <4>1, <4>2, TakeLedger
    <3> QED BY <3>1, <3>2
  <2>2. CASE GetGive(t)
    <3>1. CASE UNCHANGED <<node, taken>>
      BY <2>2, <3>1, PassingLedger
    <3>2. CASE ~(UNCHANGED <<node, taken>>)
      <4>1. PICK b \in taken : node' = Released(node, b) /\ taken' = taken \ {b}
        BY <2>2, <3>2 DEF GetGive
      <4>2. UNCHANGED <<pc, buf>>
        BY <2>2, <3>2 DEF GetGive
      <4> QED BY <2>2, <4>1, <4>2, GiveLedger
    <3> QED BY <3>1, <3>2
  <2>3. CASE DequeueTake(t)
    <3>1. PICK b : QueueDequeue(b) /\ buf' = [buf EXCEPT ![t] = b]
      BY <2>3 DEF DequeueTake
    <3>2. /\ pc[t] \in {"deqLock", "asleep"} /\ taken' = taken /\ Goto(t, "deqRef")
          /\ pc[t] = "deqLock" => lock = NoThread
      BY <2>3 DEF DequeueTake, Acquire
    <3> QED BY <2>3, <3>1, <3>2, TakeLedger
  <2>4. CASE Lifecycle(t)
    BY <2>1, <2>2, <2>4, CreateLedger, DestroyLedger, FiniRestLedger, PassingLedger
       DEF Lifecycle
  <2>5. CASE Dequeue(t)
    BY <2>3, <2>5, PassingLedger, DequeueRefLedger DEF Dequeue
  <2>6. CASE Enqueue(t)
    BY <2>6, PassingLedger, EnqueueCallLedger, KeepLedger, PushLedger, UnrefLedger, QueueLedger
       DEF Enqueue
  <2> QED BY <1>4, <2>4, <2>5, <2>6
<1> QED BY <1>1, <1>2, <1>3, <1>4 DEF Next

\* Together.
LEMMA InvStep == ASSUME Careful, Inv, [Next]_vars PROVE Inv'
<1>1. TypeInv' /\ ThreadInv' /\ WorkerInv' /\ ListInv'
  BY TypeStep, ThreadStep, WorkerStep, ListStep DEF Inv
<1>2. LifeInv' /\ Ledger'
  BY <1>1, LifeStep, LedgerStep
<1> QED BY <1>1, <1>2 DEF Inv

\* The reference count of a buffer is what its holders add up to, for each
\* backend, if no pop overlaps a push and the application gives its buffers back
\* before it destroys what they come from, whatever order it, the worker and a
\* consumer that resets the queue take otherwise (tpl_tbm.c:280, 536, 550, 634;
\* tpl_gbm.c:374, 445); it is one less for the buffer whose reference gbm's fini
\* takes from the queue (tpl_gbm.c:326), until the queue is reset.
THEOREM NativeRefsExact == ASSUME Careful PROVE Spec => []RefsExact
<1>1. Inv => RefsExact
  BY DEF Inv, Ledger, Entry, RefsExact, Clients
<1>2. Inv /\ [Next]_vars => Inv'
  BY Careful, InvStep
<1> QED
  BY <1>1, <1>2, InvInit, PTL DEF Spec

\* A buffer is in one place, none that is dequeued is lost while the surface
\* exists, none is queued twice, and a frame the consumer may see is drawn, in
\* whatever order the worker, the consumer and the application's threads follow
\* each other, if no pop overlaps a push (tpl_tbm.c:551).
THEOREM NativeFrameOnce == ASSUME Careful PROVE Spec => []EachFrameOnce
<1>1. Inv => EachFrameOnce
  <2> SUFFICES ASSUME Inv PROVE EachFrameOnce
    OBVIOUS
  <2>1. ASSUME NEW b \in Buffers
        PROVE  /\ Places(b) <= 1
               /\ node[b] = "dequeued" => Places(b) = 1 \/ ~alive
               /\ node[b] \in {"free", "dirty", "acquired"} => Places(b) = 0
               /\ node[b] \in {"dirty", "acquired"} => sync[b] # "pending"
    BY DEF Inv, Ledger, Entry
  <2>2. /\ dirty \in Seq(Buffers) /\ waiting \in Seq(Buffers)
        /\ IsInjective(dirty) /\ IsInjective(waiting)
    BY DEF Inv, TypeInv, QueueType, ListType, ListInv
  <2>3. \A s \in {dirty, waiting} : Cardinality(Range(s)) = Len(s)
    BY <2>2, DistinctLength
  <2>4. Range(dirty) \subseteq Buffers
    BY <2>2 DEF Range
  <2>5. {b \in Buffers : node[b] = "dirty"} = Range(dirty)
    BY <2>4 DEF Inv, Ledger, Entry
  <2> QED BY <2>1, <2>3, <2>5 DEF EachFrameOnce
<1>2. Inv /\ [Next]_vars => Inv'
  BY Careful, InvStep
<1> QED
  BY <1>1, <1>2, InvInit, PTL DEF Spec

-----------------------------------------------------------------------------
(* The frames reach the consumer in the order they were posted             *)

\* The images of FrameOrder that are the application's, and its line.
Mine == held \cup {b \in Buffers : CalledWith(b, {"enqLock", "enqFence", "push"})}
Line == dirty \o InHand \o waiting

\* The line is a list of the frames in the queue, with the worker and waiting.
LEMMA LineType == Inv => /\ dirty \in Seq(Buffers) /\ InHand \in Seq(Buffers)
                         /\ waiting \in Seq(Buffers) /\ dirty \o InHand \in Seq(Buffers)
                         /\ Line \in Seq(Buffers)
                         /\ Range(Line) = Range(dirty) \cup Range(InHand) \cup Range(waiting)
<1> SUFFICES ASSUME Inv
             PROVE  /\ dirty \in Seq(Buffers) /\ InHand \in Seq(Buffers)
                    /\ waiting \in Seq(Buffers) /\ dirty \o InHand \in Seq(Buffers)
                    /\ Line \in Seq(Buffers)
                    /\ Range(Line) = Range(dirty) \cup Range(InHand) \cup Range(waiting)
  OBVIOUS
<1>1. dirty \in Seq(Buffers) /\ InHand \in Seq(Buffers) /\ waiting \in Seq(Buffers)
  BY Hand DEF Inv, TypeInv, QueueType, ListType
<1>2. dirty \o InHand \in Seq(Buffers) /\ Range(dirty \o InHand) = Range(dirty) \cup Range(InHand)
  BY <1>1, ConcatRange, ConcatProperties
<1>3. Line \in Seq(Buffers) /\ Range(Line) = Range(dirty \o InHand) \cup Range(waiting)
  <2> PICK s : s = dirty \o InHand
    OBVIOUS
  <2>1. s \o waiting \in Seq(Buffers) /\ Range(s \o waiting) = Range(s) \cup Range(waiting)
    <3>1. s \in Seq(Buffers) /\ waiting \in Seq(Buffers)
      BY <1>1, <1>2
    <3>2. s \o waiting \in Seq(Buffers)
      BY <3>1, ConcatProperties
    <3>3. Range(s \o waiting) = Range(s) \cup Range(waiting)
      BY <3>1, ConcatRange
    <3> QED BY <3>2, <3>3
  <2>2. Line = s \o waiting
    BY DEF Line
  <2> QED BY <2>1, <2>2
<1> QED BY <1>1, <1>2, <1>3

\* A step of a thread that is in none of the places where a buffer is Mine,
\* before or after, except perhaps with one that stays so.
LEMMA MineKept ==
    ASSUME Inv, NEW t \in Threads, NEW l, Goes(t, l), held' = held,
           \/ pc[t] \notin {"enqLock", "enqFence", "push"}
              /\ l \notin {"enqLock", "enqFence", "push"}
           \/ /\ pc[t] \in {"enqLock", "enqFence", "push"} /\ buf' = buf
              /\ l \in {"enqLock", "enqFence", "push"}
    PROVE  Mine' = Mine
<1>1. /\ \A x \in Threads : pc'[x] = IF x = t THEN l ELSE pc[x]
      /\ \A x \in Threads : x # t => buf'[x] = buf[x]
  BY Moved DEF Inv
<1>2. \A c \in Buffers : CalledWith(c, {"enqLock", "enqFence", "push"})'
                            <=> CalledWith(c, {"enqLock", "enqFence", "push"})
  BY <1>1 DEF CalledWith
<1> QED BY <1>2 DEF Mine

\* A thread gives a buffer away.
LEMMA MineLost ==
    ASSUME Inv, NEW t \in Threads, NEW l, Goes(t, l), held' = held, NEW b, b = buf[t],
           pc[t] \in {"enqFence", "push"}, l \notin {"enqLock", "enqFence", "push"}
    PROVE  b \in Mine /\ Mine' = Mine \ {b}
<1>1. /\ \A x \in Threads : pc'[x] = IF x = t THEN l ELSE pc[x]
      /\ \A x \in Threads : x # t => buf'[x] = buf[x]
  BY Moved DEF Inv
<1>2. /\ b \in Buffers /\ b \notin held
      /\ \A x \in Threads : x # t /\ pc[x] \in WithBuf => buf[x] # b
  BY InOnePlace DEF WithBuf
<1>3. /\ CalledWith(b, {"enqLock", "enqFence", "push"})
      /\ ~CalledWith(b, {"enqLock", "enqFence", "push"})'
  BY <1>1, <1>2 DEF CalledWith, WithBuf
<1>4. \A c \in Buffers : c # b => (CalledWith(c, {"enqLock", "enqFence", "push"})'
                                     <=> CalledWith(c, {"enqLock", "enqFence", "push"}))
  BY <1>1, <1>2 DEF CalledWith
<1> QED BY <1>2, <1>3, <1>4 DEF Mine

\* Nothing of it is another's while nobody destroys or uses anything.
LEMMA MineIdle ==
    ASSUME \A x \in Threads : pc[x] \notin WithBuf /\ pc'[x] \notin WithBuf
    PROVE  Mine = held /\ Mine' = held'
<1>1. \A c : /\ ~CalledWith(c, {"enqLock", "enqFence", "push"})
             /\ ~CalledWith(c, {"enqLock", "enqFence", "push"})'
  BY DEF CalledWith, WithBuf
<1> QED BY <1>1 DEF Mine

\* The line does not change while the queue and the worker's frames do not.
LEMMA LineSame ==
    ASSUME UNCHANGED <<dirty, waiting, wpc, wbuf, drawWait>>
    PROVE  Line' = Line
  BY DEF Line, InHand

\* The actions of FrameOrder, in terms of Mine and Line.
LEMMA AsFrames ==
    /\ \A b : b \notin Mine \cup Range(Line) /\ Mine' = Mine \cup {b} /\ Line' = Line
              /\ shown' = shown => Frames!Take(b)
    /\ \A b : b \in Mine /\ Mine' = Mine \ {b} /\ Line' = Append(Line, b) /\ shown' = shown
              => Frames!Post(b)
    /\ Line # <<>> /\ shown' = Head(Line) /\ Line' = Tail(Line) /\ Mine' = Mine => Frames!Present
    /\ Mine' = Mine /\ Line' = Line /\ shown' = shown => UNCHANGED Frames!vars
  BY DEF Mine, Line, Frames!Take, Frames!Post, Frames!Present, Frames!vars, Frames!Range, Range

\* Some of the line, one frame behind the other, is forgotten.
LEMMA AsForget ==
    ASSUME NEW p \in Seq(Buffers), NEW q \in Seq(Buffers), NEW r \in Seq(Buffers),
           Line = (p \o q) \o r, Line' = p \o r, Mine' \subseteq Mine, shown' = shown
    PROVE  Frames!Forget
<1>1. Shortened((p \o q) \o r, p \o r)
  BY CutOut
<1>2. Shortened(Line, Line')
  BY <1>1
<1>3. \E m, n \in 0..Len(Line) :
         m <= n /\ Line' = SubSeq(Line, 1, m) \o SubSeq(Line, n + 1, Len(Line))
  BY <1>2 DEF Shortened
<1> QED BY <1>3 DEF Mine, Line, Frames!Forget

\* The application gets a buffer, which was in nobody's line.
LEMMA TakeFrame ==
    ASSUME Inv, NEW t \in Threads, DequeueRef(t)
    PROVE  \E b \in Buffers : Frames!Take(b)
<1> PICK b : b = buf[t]
  OBVIOUS
<1>1. /\ pc[t] = "deqRef" /\ Goes(t, "idle") /\ held' = held \cup {b}
      /\ UNCHANGED <<dirty, shown, waiting, wpc, wbuf, drawWait>>
  BY DEF DequeueRef, Return, Goes, queueVars, listVars, workerVars
<1>2. /\ b \in Buffers /\ b \notin held /\ b \notin Range(dirty) /\ b \notin Range(InHand)
      /\ b \notin Range(waiting) /\ \A x \in Threads : x # t /\ pc[x] \in WithBuf => buf[x] # b
  BY <1>1, InOnePlace DEF WithBuf
<1>3. ~CalledWith(b, {"enqLock", "enqFence", "push"})
  BY <1>1, <1>2 DEF CalledWith, WithBuf
<1>4. b \notin Mine \cup Range(Line)
  BY <1>2, <1>3, LineType DEF Mine
<1>5. /\ \A x \in Threads : pc'[x] = IF x = t THEN "idle" ELSE pc[x]
      /\ \A x \in Threads : x # t => buf'[x] = buf[x]
  BY <1>1, Moved DEF Inv
<1>6. \A c \in Buffers : CalledWith(c, {"enqLock", "enqFence", "push"})'
                            <=> CalledWith(c, {"enqLock", "enqFence", "push"})
  BY <1>1, <1>5 DEF CalledWith
<1>7. Mine' = Mine \cup {b}
  BY <1>1, <1>2, <1>6 DEF Mine
<1>8. Line' = Line
  BY <1>1, LineSame
<1>9. Frames!Take(b)
  BY <1>1, <1>4, <1>7, <1>8, AsFrames
<1> QED BY <1>2, <1>9

\* Vulkan: it posts one, behind those that wait.
LEMMA PushFrame ==
    ASSUME Inv, NEW t \in Threads, Push(t)
    PROVE  \E b \in Buffers : Frames!Post(b)
<1> PICK b : b = buf[t]
  OBVIOUS
<1>1. /\ pc[t] = "push" /\ Goes(t, "pushCount") /\ held' = held /\ waiting' = Append(waiting, b)
      /\ UNCHANGED <<dirty, shown, wpc, wbuf, drawWait>>
  BY DEF Push, Goes, queueVars, workerVars
<1>2. b \in Buffers
  BY <1>1, InOnePlace DEF WithBuf
<1>3. b \in Mine /\ Mine' = Mine \ {b}
  <2> PICK l : l = "pushCount"
    OBVIOUS
  <2> QED BY <1>1, MineLost
<1>4. InHand' = InHand
  BY <1>1 DEF InHand
<1>5. Line' = Append(Line, b)
  <2> PICK s : s = dirty \o InHand
    OBVIOUS
  <2>1. Line = s \o waiting /\ Line' = s \o Append(waiting, b)
    BY <1>1, <1>4 DEF Line
  <2>2. s \in Seq(Buffers) /\ waiting \in Seq(Buffers)
    BY LineType
  <2> QED BY <1>2, <2>1, <2>2, ConcatAppend
<1>6. Frames!Post(b)
  BY <1>1, <1>3, <1>5, AsFrames
<1> QED BY <1>2, <1>6

\* EGL: it posts one, at the end of the queue; or the queue, which was reset,
\* refuses the frame and it is lost.
LEMMA QueueFrame ==
    ASSUME Inv, NEW t \in Threads, EnqueueQueue(t)
    PROVE  Frames!Forget \/ \E b \in Buffers : Frames!Post(b)
<1> PICK b : b = buf[t]
  OBVIOUS
<1>1. /\ pc[t] = "enqFence" /\ Goes(t, "idle") /\ held' = held /\ QueueEnqueue(b)
      /\ UNCHANGED <<shown, waiting, wpc, wbuf, drawWait>>
  BY DEF EnqueueQueue, Return, Goes, listVars, workerVars
<1>2. b \in Buffers
  BY <1>1, InOnePlace DEF WithBuf
<1>3. b \in Mine /\ Mine' = Mine \ {b}
  <2> PICK l : l = "idle"
    OBVIOUS
  <2> QED BY <1>1, MineLost
<1>4. WorkerDone
  BY <1>1 DEF Inv, ThreadInv, LifeInv
<1>5. InHand = <<>> /\ InHand' = InHand /\ waiting = <<>> /\ waiting' = <<>>
  BY <1>1, <1>4, NativeAssumption DEF WorkerDone, InHand, Inv, TypeInv, WorkerType
<1>6. dirty \in Seq(Buffers)
  BY LineType
<1>7. dirty' = IF node[b] = "dequeued" THEN Append(dirty, b) ELSE dirty
  BY <1>1 DEF QueueEnqueue
<1>8. dirty' \in Seq(Buffers)
  BY <1>2, <1>6, <1>7, Appended
<1>9. Line = dirty /\ Line' = dirty'
  BY <1>5, <1>6, <1>8, ConcatEmptySeq DEF Line
<1>10. CASE node[b] = "dequeued"
  BY <1>1, <1>2, <1>3, <1>7, <1>9, <1>10, AsFrames
<1>11. CASE node[b] # "dequeued"
  <2>1. dirty' = dirty /\ <<>> \in Seq(Buffers)
    BY <1>7, <1>11
  <2>2. dirty = (dirty \o <<>>) \o <<>> /\ dirty = dirty \o <<>>
    BY <1>6, <2>1, ConcatEmptySeq
  <2>3. Mine' \subseteq Mine
    BY <1>3
  <2> QED BY <1>1, <1>6, <1>9, <2>1, <2>2, <2>3, AsForget
<1> QED BY <1>10, <1>11

\* The consumer sees the first of them.
LEMMA AcquireFrame ==
    ASSUME Inv, ConsumerAcquire
    PROVE  Frames!Present
<1>1. /\ dirty # <<>> /\ shown' = Head(dirty) /\ dirty' = Tail(dirty)
      /\ UNCHANGED <<held, pc, buf, waiting, wpc, wbuf, drawWait>>
  BY DEF ConsumerAcquire, callVars, listVars, workerVars
<1>2. InHand' = InHand
  BY <1>1 DEF InHand
<1>3. Mine' = Mine
  BY <1>1 DEF Mine, CalledWith
<1>4. dirty \in Seq(Buffers) /\ InHand \in Seq(Buffers) /\ waiting \in Seq(Buffers)
      /\ dirty \o InHand \in Seq(Buffers)
  BY LineType
<1> PICK s : s = dirty \o InHand
  OBVIOUS
<1>5. s # <<>> /\ Head(s) = Head(dirty) /\ Tail(s) = Tail(dirty) \o InHand
  BY <1>1, <1>4, ConcatTaken
<1>6. s \o waiting # <<>> /\ Head(s \o waiting) = Head(s) /\ Tail(s \o waiting) = Tail(s) \o waiting
  BY <1>4, <1>5, ConcatTaken
<1>7. Line = s \o waiting /\ Line' = (Tail(dirty) \o InHand) \o waiting
  BY <1>1, <1>2 DEF Line
<1>8. Line # <<>> /\ shown' = Head(Line) /\ Line' = Tail(Line)
  BY <1>1, <1>5, <1>6, <1>7
<1> QED BY <1>3, <1>8, AsFrames

\* It forgets what is in its queue.
LEMMA ResetFrame ==
    ASSUME Inv, ConsumerReset
    PROVE  Frames!Forget
<1>1. dirty' = <<>> /\ UNCHANGED <<held, pc, buf, shown, waiting, wpc, wbuf, drawWait>>
  BY DEF ConsumerReset, callVars, listVars, workerVars
<1>2. InHand' = InHand
  BY <1>1 DEF InHand
<1>3. Mine' = Mine
  BY <1>1 DEF Mine, CalledWith
<1>4. /\ dirty \in Seq(Buffers) /\ InHand \in Seq(Buffers) /\ waiting \in Seq(Buffers)
      /\ <<>> \in Seq(Buffers) /\ InHand \o waiting \in Seq(Buffers)
  <2>1. dirty \in Seq(Buffers) /\ InHand \in Seq(Buffers) /\ waiting \in Seq(Buffers)
    BY LineType
  <2>2. InHand \o waiting \in Seq(Buffers)
    BY <2>1, ConcatProperties
  <2>3. <<>> \in Seq(Buffers)
    OBVIOUS
  <2> QED BY <2>1, <2>2, <2>3
<1> PICK r : r = InHand \o waiting
  OBVIOUS
<1>5. Line = dirty \o r
  <2>1. (dirty \o InHand) \o waiting = dirty \o (InHand \o waiting)
    <3>1. dirty \in Seq(Buffers) /\ InHand \in Seq(Buffers) /\ waiting \in Seq(Buffers)
      BY <1>4
    <3> QED BY <3>1, ConcatAssociative, SMTT(30)
  <2> QED BY <2>1 DEF Line
<1>6. Line = (<<>> \o dirty) \o r
  BY <1>4, <1>5, ConcatEmptySeq
<1>7. Line' = (<<>> \o InHand) \o waiting
  BY <1>1, <1>2 DEF Line
<1>8. Line' = <<>> \o r
  BY <1>4, <1>7, ConcatAssociative
<1>9. Mine' \subseteq Mine
  BY <1>3
<1> QED BY <1>1, <1>4, <1>6, <1>8, <1>9, AsForget

\* The worker gives its frame to the queue, where it stays in line, or is lost if
\* the queue was reset.
LEMMA DrawnFrame ==
    ASSUME Inv, WorkerDrawDone
    PROVE  Frames!Forget \/ UNCHANGED Frames!vars
<1>1. /\ wpc = "drawDone" /\ QueueEnqueue(wbuf)
      /\ UNCHANGED <<held, pc, buf, shown, waiting, scanning>>
      /\ wpc' = (IF scanning THEN "pop" ELSE "look") /\ wbuf' = NoBuffer
      /\ drawWait' = IF scanning THEN drawWait ELSE NoBuffer
  BY DEF WorkerDrawDone, callVars, listVars
<1>2. wbuf \in Buffers /\ (scanning => drawWait = NoBuffer)
  BY <1>1 DEF Inv, TypeInv, WorkerType, WorkerInv
<1>3. InHand = <<wbuf>> /\ InHand' = <<>>
  BY <1>1, <1>2 DEF InHand
<1>4. Mine' = Mine
  BY <1>1 DEF Mine, CalledWith
<1>5. dirty \in Seq(Buffers) /\ waiting \in Seq(Buffers) /\ <<wbuf>> \in Seq(Buffers)
  BY <1>2, LineType
<1>6. Line = (dirty \o <<wbuf>>) \o waiting
  BY <1>3 DEF Line
<1>7. dirty' = IF node[wbuf] = "dequeued" THEN Append(dirty, wbuf) ELSE dirty
  BY <1>1 DEF QueueEnqueue
<1>8. dirty' \in Seq(Buffers)
  BY <1>2, <1>5, <1>7, Appended
<1>9. Line' = dirty' \o waiting
  BY <1>1, <1>3, <1>8, ConcatEmptySeq DEF Line
<1>10. CASE node[wbuf] = "dequeued"
  <2>1. dirty' = dirty \o <<wbuf>>
    BY <1>2, <1>5, <1>7, <1>10, AppendIsConcat
  <2>2. Line' = Line
    BY <1>6, <1>9, <2>1
  <2> QED BY <1>1, <1>4, <2>2, AsFrames
<1>11. CASE node[wbuf] # "dequeued"
  <2>1. Line' = dirty \o waiting
    BY <1>7, <1>9, <1>11
  <2>2. Mine' \subseteq Mine
    BY <1>4
  <2> QED BY <1>1, <1>5, <1>6, <2>1, <2>2, AsForget
<1> QED BY <1>10, <1>11

\* It takes one from draw_waiting_queue: the line is the same.
LEMMA PoppedFrame ==
    ASSUME Inv, WorkerPop
    PROVE  UNCHANGED Frames!vars
<1>1. /\ waiting # <<>> /\ waiting' = Tail(waiting) /\ wpc = "pop"
      /\ UNCHANGED <<held, pc, buf, shown, dirty>>
      /\ \/ drawWait' = Head(waiting) /\ wpc' = "epoll"
         \/ wbuf' = Head(waiting) /\ wpc' = "drawDone"
  BY DEF WorkerPop, callVars, queueVars
<1>2. dirty \in Seq(Buffers) /\ waiting \in Seq(Buffers)
  BY LineType
<1>3. Head(waiting) \in Buffers
  BY <1>1, <1>2, Taken
<1>4. InHand = <<>> /\ InHand' = <<Head(waiting)>>
  BY <1>1, <1>3, NativeAssumption DEF InHand, Inv, WorkerInv
<1>5. Line = (dirty \o <<>>) \o waiting /\ Line' = (dirty \o <<Head(waiting)>>) \o Tail(waiting)
  BY <1>1, <1>4 DEF Line
<1>6. Line' = Line
  BY <1>1, <1>2, <1>5, HeadMoved
<1>7. Mine' = Mine
  BY <1>1 DEF Mine, CalledWith
<1> QED BY <1>1, <1>6, <1>7, AsFrames

\* The application starts to give one back, which stays its own until it posts it.
LEMMA EnqueueCallFrame ==
    ASSUME Inv, NEW t \in Threads, EnqueueCall(t)
    PROVE  UNCHANGED Frames!vars
<1>1. PICK b \in held : /\ held' = held \ {b} /\ buf' = [buf EXCEPT ![t] = b]
                        /\ Goto(t, "enqLock") /\ pc[t] = "idle"
                        /\ UNCHANGED <<shown, dirty, waiting, wpc, wbuf, drawWait>>
  BY DEF EnqueueCall, queueVars, listVars, workerVars
<1>2. b \in Buffers
  BY DEF Inv, TypeInv, CallType
<1>3. /\ \A x \in Threads : pc'[x] = IF x = t THEN "enqLock" ELSE pc[x]
      /\ \A x \in Threads : buf'[x] = IF x = t THEN b ELSE buf[x]
  BY <1>1, <1>2 DEF Goto, Inv, TypeInv, CallType
<1>4. CalledWith(b, {"enqLock", "enqFence", "push"})'
  BY <1>3 DEF CalledWith
<1>5. \A c \in Buffers : c # b => (CalledWith(c, {"enqLock", "enqFence", "push"})'
                                     <=> CalledWith(c, {"enqLock", "enqFence", "push"}))
  BY <1>1, <1>3 DEF CalledWith
<1>6. Mine' = Mine
  BY <1>1, <1>2, <1>4, <1>5 DEF Mine
<1>7. Line' = Line
  BY <1>1, LineSame
<1> QED BY <1>1, <1>6, <1>7, AsFrames

\* In the other steps of a call nobody's buffers change.
LEMMA CallFrame ==
    ASSUME Inv, NEW t \in Threads, CallStep(t),
           ~DequeueRef(t), ~Push(t), ~EnqueueQueue(t), ~EnqueueCall(t)
    PROVE  UNCHANGED Frames!vars
<1>1. UNCHANGED <<held, shown, dirty, waiting, wpc, wbuf, drawWait>>
  <2>1. UNCHANGED <<held, shown, dirty, waiting>>
    BY DEF CallStep, Dequeue, Enqueue, queueVars, listVars, GetCall, GetTake, GetGive, DequeueCall,
       DequeueTake, DequeueSleep, EnqueueKeep, PushCount, Notify, EnqueueUnref
  <2>2. UNCHANGED <<wpc, wbuf, drawWait>>
    BY CallFacts
  <2> QED BY <2>1, <2>2
<1>2. Mine' = Mine
  <2>1. ASSUME NEW l, Goes(t, l), pc[t] \notin {"enqLock", "enqFence", "push"},
               l \notin {"enqLock", "enqFence", "push"}
        PROVE  Mine' = Mine
    BY <1>1, <2>1, MineKept
  <2>2. CASE GetCall(t) \/ GetGive(t) \/ DequeueCall(t) \/ DequeueTake(t) \/ DequeueSleep(t)
             \/ GetTake(t) \/ PushCount(t) \/ Notify(t)
    <3>1. pc[t] \notin {"enqLock", "enqFence", "push"}
      BY <2>2 DEF GetCall, GetGive, DequeueCall, DequeueTake, DequeueSleep, GetTake, PushCount,
         Notify
    <3>2. \/ UNCHANGED <<pc, buf>>
          \/ \E l \in {"idle", "getTake", "getGive", "deqLock", "deqRef", "asleep", "notify"} :
                Goes(t, l)
      BY <2>2 DEF GetCall, GetGive, DequeueCall, DequeueTake, DequeueSleep, GetTake, PushCount,
         Notify, Return, Goes
    <3>3. CASE UNCHANGED <<pc, buf>>
      BY <1>1, <3>3 DEF Mine, CalledWith
    <3>4. ASSUME NEW l \in {"idle", "getTake", "getGive", "deqLock", "deqRef", "asleep", "notify"},
                 Goes(t, l)
          PROVE  Mine' = Mine
      BY <2>1, <3>1, <3>4
    <3> QED BY <3>2, <3>3, <3>4
  <2>3. CASE EnqueueKeep(t)
    <3>1. Goes(t, "push") /\ pc[t] = "enqLock" /\ buf' = buf
      BY <2>3 DEF EnqueueKeep, Goes
    <3> PICK l : l = "push"
      OBVIOUS
    <3> QED BY <1>1, <3>1, MineKept
  <2>4. CASE EnqueueUnref(t)
    <3> PICK b : b = buf[t]
      OBVIOUS
    <3>1. pc[t] = "enqLock"
      BY <2>4 DEF EnqueueUnref
    <3>2. b \in Buffers /\ Clients(b)
      BY <3>1, InOnePlace DEF Clients, CalledWith, WithBuf
    <3>3. ref[b] # 0
      BY <3>2, ClientCounts
    <3>4. Goes(t, "enqFence") /\ buf' = buf
      BY <2>4, <3>3 DEF EnqueueUnref, Goes
    <3> PICK l : l = "enqFence"
      OBVIOUS
    <3> QED BY <1>1, <3>1, <3>4, MineKept
  <2> QED BY <2>2, <2>3, <2>4 DEF CallStep, Dequeue, Enqueue
<1>3. Line' = Line
  BY <1>1, LineSame
<1> QED BY <1>1, <1>2, <1>3, AsFrames

\* The surface and its swapchain come and go with no frame in line but those in the
\* queue; with the surface go the buffers that are left.
LEMMA LifeFrame ==
    ASSUME Inv, Careful, NEW t \in Threads, Lifecycle(t), ~CallStep(t)
    PROVE  Frames!Forget \/ UNCHANGED Frames!vars
<1>1. ASSUME UNCHANGED <<shown, dirty>>, WorkerDone, waiting' = waiting,
             UNCHANGED <<wpc, wbuf, drawWait>>
      PROVE  Line' = Line /\ shown' = shown
  BY <1>1, LineSame
<1>2. CASE SurfaceInit(t) \/ CreateSwapchain(t)
  <2>1. UNCHANGED <<held, pc, buf, shown, dirty, wpc, wbuf>>
    BY <1>2 DEF SurfaceInit, CreateSwapchain, callVars, queueVars, workerVars
  <2>2. waiting' = waiting /\ drawWait' = drawWait
    <3>1. CASE SurfaceInit(t)
      BY <3>1 DEF SurfaceInit, listVars, workerVars
    <3>2. CASE CreateSwapchain(t)
      BY <3>2 DEF CreateSwapchain, Inv, LifeInv, WorkerDone
    <3> QED BY <1>2, <3>1, <3>2
  <2>3. Line' = Line
    BY <2>1, <2>2, LineSame
  <2>4. Mine' = Mine
    BY <2>1 DEF Mine, CalledWith
  <2> QED BY <2>1, <2>3, <2>4, AsFrames
<1>3. CASE DestroyCall(t) \/ FiniCall(t) \/ Unlist(t) \/ DropList(t)
  <2>1. /\ UNCHANGED <<held, shown, dirty, wpc, wbuf, drawWait>>
        /\ pc[t] \notin {"enqLock", "enqFence", "push"}
        /\ \E l \in {"unlist", "finiUnlist", "drop", "finiDrop", "idle"} : Goes(t, l)
    BY <1>3 DEF DestroyCall, FiniCall, Unlist, DropList, Idle, Goes, Return, queueVars, workerVars
  <2>2. waiting' = waiting
    <3>1. CASE DestroyCall(t) \/ FiniCall(t) \/ Unlist(t)
      BY <3>1 DEF DestroyCall, FiniCall, Unlist, listVars
    <3>2. CASE DropList(t)
      <4>1. pc[t] \in Destroying /\ waiting' = <<>>
        BY <3>2 DEF DropList, Destroying
      <4> QED BY <4>1 DEF Inv, LifeInv, WorkerDone
    <3> QED BY <1>3, <3>1, <3>2
  <2>3. Line' = Line
    BY <2>1, <2>2, LineSame
  <2>4. PICK l \in {"unlist", "finiUnlist", "drop", "finiDrop", "idle"} : Goes(t, l)
    BY <2>1
  <2>5. l \notin {"enqLock", "enqFence", "push"}
    OBVIOUS
  <2>6. Mine' = Mine
    BY <2>1, <2>4, <2>5, MineKept
  <2> QED BY <2>1, <2>3, <2>6, AsFrames
<1>4. CASE FiniRest(t)
  <2>1. /\ pc[t] \in Destroying /\ pc[t] \notin WithBuf /\ waiting' = <<>> /\ held' = {}
        /\ UNCHANGED <<shown, dirty, wpc, wbuf, drawWait>> /\ Goes(t, "idle")
    BY <1>4 DEF FiniRest, Return, Goes, Destroying, Finalising, WithBuf, queueVars, workerVars
  <2>2. waiting' = waiting /\ \A x \in Threads : x = t \/ pc[x] = "idle"
    BY <2>1 DEF Inv, LifeInv, WorkerDone
  <2>3. \A x \in Threads : pc'[x] = IF x = t THEN "idle" ELSE pc[x]
    BY <2>1, Moved DEF Inv
  <2>4. \A x \in Threads : pc[x] \notin WithBuf /\ pc'[x] \notin WithBuf
    BY <2>1, <2>2, <2>3 DEF WithBuf
  <2>5. Mine' \subseteq Mine
    BY <2>1, <2>4, MineIdle
  <2>6. Line' = Line
    BY <2>1, <2>2, LineSame
  <2>7. Line \in Seq(Buffers) /\ <<>> \in Seq(Buffers)
    BY LineType
  <2>8. Line = (Line \o <<>>) \o <<>> /\ Line = Line \o <<>>
    BY <2>7, ConcatEmptySeq
  <2> PICK p : p = Line
    OBVIOUS
  <2>9. p \in Seq(Buffers) /\ Line = (p \o <<>>) \o <<>> /\ Line' = p \o <<>>
    BY <2>6, <2>7, <2>8
  <2> QED BY <2>1, <2>5, <2>7, <2>9, AsForget
<1> QED BY <1>2, <1>3, <1>4 DEF Lifecycle, CallStep

\* Every step is one of FrameOrder's, or none to it.
LEMMA FrameStep ==
    ASSUME Careful, Inv, [Next]_vars
    PROVE  [Frames!Next]_(Frames!vars)
<1>1. ASSUME UNCHANGED <<held, pc, buf, shown, dirty, waiting>>, InHand' = InHand
      PROVE  UNCHANGED Frames!vars
  <2>1. Mine' = Mine
    BY <1>1 DEF Mine, CalledWith
  <2>2. Line' = Line
    BY <1>1 DEF Line
  <2> QED BY <1>1, <2>1, <2>2, AsFrames
<1>2. CASE UNCHANGED vars \/ \E b \in Buffers : FenceSignals(b) \/ ConsumerRelease(b)
  <2>1. UNCHANGED <<held, pc, buf, shown, dirty, waiting, wpc, wbuf, drawWait>>
    BY <1>2 DEF FenceSignals, ConsumerRelease, vars, callVars, queueVars, listVars, workerVars
  <2>2. InHand' = InHand
    BY <2>1 DEF InHand
  <2> QED BY <1>1, <2>1, <2>2
<1>3. CASE WorkerNotified \/ WorkerFence \/ WorkerLook \/ WorkerDrained
  <2>1. UNCHANGED <<held, pc, buf, shown, dirty, waiting>>
    BY <1>3 DEF WorkerNotified, WorkerFence, WorkerLook, WorkerDrained, callVars, queueVars, listVars
  <2>2. InHand' = InHand
    BY <1>3 DEF WorkerNotified, WorkerFence, WorkerLook, WorkerDrained, InHand
  <2> QED BY <1>1, <2>1, <2>2
<1>4. CASE WorkerPop \/ WorkerDrawDone \/ ConsumerAcquire \/ ConsumerReset
  BY <1>4, PoppedFrame, DrawnFrame, AcquireFrame, ResetFrame DEF Frames!Next
<1>5. ASSUME NEW t \in Threads, CallStep(t)
      PROVE  [Frames!Next]_(Frames!vars)
  <2>1. CASE DequeueRef(t)
    BY <2>1, TakeFrame DEF Frames!Next
  <2>2. CASE Push(t)
    BY <2>2, PushFrame DEF Frames!Next
  <2>3. CASE EnqueueQueue(t)
    BY <2>3, QueueFrame DEF Frames!Next
  <2>4. CASE EnqueueCall(t)
    BY <2>4, EnqueueCallFrame
  <2> QED BY <1>5, <2>1, <2>2, <2>3, <2>4, CallFrame
<1>6. ASSUME NEW t \in Threads, Lifecycle(t) \/ Dequeue(t) \/ Enqueue(t)
      PROVE  [Frames!Next]_(Frames!vars)
  BY <1>5, <1>6, LifeFrame DEF CallStep, Frames!Next
<1> QED BY <1>2, <1>3, <1>4, <1>6 DEF Next, Worker, Environment

\* The surface keeps the promise of FrameOrder: frames reach the consumer in the
\* order they were posted, whichever thread takes them there, each of them once but
\* for those a reset forgets, and no buffer is the application's while it is in line;
\* if no pop overlaps a push, which could lose a frame of draw_waiting_queue.
THEOREM NativeFrameOrder == ASSUME Careful PROVE Spec => ImplementsFrameOrder
<1>1. Inv /\ [Next]_vars => Inv'
  BY Careful, InvStep
<1>2. Init => Frames!Init
  <2> SUFFICES ASSUME Init PROVE Frames!Init
    OBVIOUS
  <2>1. /\ InHand = <<>> /\ dirty = <<>> /\ waiting = <<>> /\ held = {}
        /\ \A b : ~CalledWith(b, {"enqLock", "enqFence", "push"})
    BY DEF Init, InHand, CalledWith
  <2>2. dirty \o InHand \o waiting = <<>>
    BY <2>1
  <2> QED BY <2>1, <2>2 DEF Init, Frames!Init
<1>3. Inv /\ [Next]_vars => [Frames!Next]_(Frames!vars)
  BY Careful, FrameStep
<1> QED
  BY <1>1, <1>2, <1>3, InvInit, PTL DEF Spec, ImplementsFrameOrder, Frames!Spec
=============================================================================
