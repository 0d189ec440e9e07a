-------------------------- MODULE WaylandEglProofs --------------------------
(***************************************************************************)
(* Theorems about WaylandEgl, for every set of threads and buffers, every  *)
(* queue size, every fault and every distribution of the callbacks.        *)
(***************************************************************************)
EXTENDS WaylandEgl, TLAPS

-----------------------------------------------------------------------------
(* Types                                                                   *)

\* A count that is decremented stays a number ...
LEMMA DecrementedType ==
    ASSUME TypeOK
    PROVE  /\ \A b \in Buffers : Decremented(ref[b]) \in Nat
           /\ \A b \in Buffers : Decremented(dequeued[b]) \in Nat
           /\ \A b \in Buffers : Decremented(attached[b]) \in Nat
  BY DEF TypeOK, BufferTypes, ListTypes, Decremented

\* Where a thread works on the buffer in buf.
WithBuffer == {"deqRef", "deqFlag", "deqPush", "vblCall", "vblWait", "vblRelock", "enqTrack",
               "enqCheck", "enqUnref", "enqRef", "commit", "track"}

\* The types, and what makes them inductive: a thread that works on a buffer has one.
TypeInv == TypeOK /\ \A t \in AppThreads : pc[t] \in WithBuffer => buf[t] \in Buffers

\* ... and so does one that is incremented.
LEMMA IncrementedType ==
    ASSUME NEW f \in [Buffers -> Nat], NEW b \in Buffers
    PROVE  [f EXCEPT ![b] = @ + 1] \in [Buffers -> Nat]
  OBVIOUS

\* The counts become numbers, and what hangs on them keeps its type.
LEMMA CountsTypes ==
    ASSUME TypeOK, NEW r \in [Buffers -> Nat], CountsBecome(r), UNCHANGED front
    PROVE  BufferTypes'
  BY DEF TypeOK, CountsBecome, BufferTypes, Scanout

\* The same for one reference less, ...
LEMMA UnrefTypes ==
    ASSUME TypeOK, NEW b, Unref(b), UNCHANGED front
    PROVE  BufferTypes'
<1> [ref EXCEPT ![b] = Decremented(@)] \in [Buffers -> Nat]
  BY DecrementedType DEF TypeOK, BufferTypes
<1> QED
  BY CountsTypes DEF Unref

\* ... for the queue's references, ...
LEMMA ClearQueueTypes ==
    ASSUME TypeOK, ClearQueue, UNCHANGED front
    PROVE  node' \in [Buffers -> NodeState] /\ BufferTypes'
<1>1. node' \in [Buffers -> NodeState]
  BY DEF TypeOK, QueueTypes, ClearQueue, Cleared, NodeState
<1>2. QueueRefsDropped \in [Buffers -> Nat]
  BY DecrementedType DEF TypeOK, BufferTypes, QueueRefsDropped
<1> QED
  BY <1>1, <1>2, CountsTypes DEF ClearQueue

\* ... and for those of attached_buffers.
LEMMA DropAttachedTypes ==
    ASSUME TypeOK, DropAttached, UNCHANGED front
    PROVE  attached' \in [Buffers -> Nat] /\ BufferTypes'
<1> DEFINE left == [b \in Buffers |-> IF attached[b] >= ref[b] THEN 0 ELSE ref[b] - attached[b]]
<1>1. left \in [Buffers -> Nat]
  BY DEF TypeOK, BufferTypes, ListTypes
<1>2. CountsBecome(left) /\ attached' = [b \in Buffers |-> 0]
  BY DEF DropAttached
<1> QED
  BY <1>1, <1>2, CountsTypes

\* The flags after a reset are flags.
LEMMA FlaggedType == TypeOK => Flagged \in [Buffers -> BOOLEAN]
  BY DEF TypeOK, BufferTypes, Flagged

\* A release leaves node states.
LEMMA ReleasedType ==
    ASSUME TypeOK, NEW b
    PROVE  Released(node, b) \in [Buffers -> NodeState]
  BY DEF TypeOK, QueueTypes, NodeState, Released

\* What the queue can hand out are buffers.
LEMMA DequeuableType == TypeOK => Dequeuable(node, IsAlive, QueueSize) \subseteq Buffers
  BY DEF TypeOK, QueueTypes, Dequeuable, InState

\* A step of any thread or of the compositor keeps the types.
LEMMA TypeStep == TypeInv /\ [Next]_vars => TypeInv'
<1> SUFFICES ASSUME TypeInv, [Next]_vars PROVE TypeInv'
  OBVIOUS
<1> USE SurfaceAssumption DEF Threads, queueVars, bufferVars, listVars, flagVars, vblankVars,
        threadVars, callbackVars, envVars, Goto, GotoWith, Return, Acquire, Callback, At,
        TypeOK, TypeInv
<1>1. ASSUME NEW t \in AppThreads, DequeueReset(t) PROVE TypeInv'
  <2>1. BufferTypes'
    BY <1>1, FlaggedType DEF DequeueReset, BufferTypes
  <2>2. FlagTypes'
    BY <1>1 DEF DequeueReset, FlagTypes
  <2>3. ThreadTypes'
    BY <1>1 DEF DequeueReset, ThreadTypes, LockedPC, UnlockedPC
  <2>4. QueueTypes' /\ ListTypes'
    BY <1>1 DEF DequeueReset, QueueTypes, ListTypes
  <2>5. \A u \in AppThreads : pc'[u] \in WithBuffer => buf'[u] \in Buffers
    BY <1>1 DEF DequeueReset, WithBuffer, ThreadTypes
  <2> QED BY <2>1, <2>2, <2>3, <2>4, <2>5
<1>2. ASSUME NEW t \in AppThreads, DequeuePend(t) PROVE TypeInv'
  <2>1. ThreadTypes'
    BY <1>2 DEF DequeuePend, ThreadTypes, LockedPC, UnlockedPC
  <2>2. QueueTypes' /\ BufferTypes' /\ ListTypes' /\ FlagTypes'
    BY <1>2 DEF DequeuePend, QueueTypes, BufferTypes, ListTypes, FlagTypes
  <2>3. \A u \in AppThreads : pc'[u] \in WithBuffer => buf'[u] \in Buffers
    BY <1>2 DEF DequeuePend, WithBuffer, ThreadTypes
  <2> QED BY <2>1, <2>2, <2>3
<1>3. ASSUME NEW t \in AppThreads, DequeueWait(t) PROVE TypeInv'
  <2>1. ThreadTypes'
    BY <1>3 DEF DequeueWait, ThreadTypes, LockedPC, UnlockedPC
  <2>2. QueueTypes' /\ BufferTypes' /\ ListTypes' /\ FlagTypes'
    BY <1>3 DEF DequeueWait, QueueTypes, BufferTypes, ListTypes, FlagTypes
  <2>3. \A u \in AppThreads : pc'[u] \in WithBuffer => buf'[u] \in Buffers
    BY <1>3 DEF DequeueWait, WithBuffer, ThreadTypes
  <2> QED BY <2>1, <2>2, <2>3
<1>3t. ASSUME NEW t \in AppThreads, DequeueTest(t) PROVE TypeInv'
  <2>1. ThreadTypes'
    BY <1>3t DEF DequeueTest, ThreadTypes, LockedPC, UnlockedPC
  <2>2. QueueTypes' /\ BufferTypes' /\ ListTypes' /\ FlagTypes'
    BY <1>3t DEF DequeueTest, QueueTypes, BufferTypes, ListTypes, FlagTypes
  <2>3. \A u \in AppThreads : pc'[u] \in WithBuffer => buf'[u] \in Buffers
    BY <1>3t DEF DequeueTest, WithBuffer, ThreadTypes
  <2> QED BY <2>1, <2>2, <2>3
<1>4. ASSUME NEW t \in AppThreads, DequeueRelock(t) PROVE TypeInv'
  <2>1. ThreadTypes'
    BY <1>4 DEF DequeueRelock, ThreadTypes, LockedPC, UnlockedPC
  <2>2. QueueTypes' /\ BufferTypes' /\ ListTypes' /\ FlagTypes'
    BY <1>4 DEF DequeueRelock, QueueTypes, BufferTypes, ListTypes, FlagTypes
  <2>3. \A u \in AppThreads : pc'[u] \in WithBuffer => buf'[u] \in Buffers
    BY <1>4 DEF DequeueRelock, WithBuffer, ThreadTypes
  <2> QED BY <2>1, <2>2, <2>3
<1>5. ASSUME NEW t \in AppThreads, DequeueFail(t) PROVE TypeInv'
  <2>1. ThreadTypes'
    BY <1>5 DEF DequeueFail, ThreadTypes, LockedPC, UnlockedPC
  <2>2. QueueTypes' /\ BufferTypes' /\ ListTypes' /\ FlagTypes'
    BY <1>5 DEF DequeueFail, QueueTypes, BufferTypes, ListTypes, FlagTypes
  <2>3. \A u \in AppThreads : pc'[u] \in WithBuffer => buf'[u] \in Buffers
    BY <1>5 DEF DequeueFail, WithBuffer, ThreadTypes
  <2> QED BY <2>1, <2>2, <2>3
<1>6. ASSUME NEW t \in AppThreads, DequeueQueue(t) PROVE TypeInv'
  <2>1. QueueTypes'
    BY <1>6 DEF DequeueQueue, QueueTypes, NodeState
  <2>2. BufferTypes'
    BY <1>6 DEF DequeueQueue, BufferTypes
  <2>3. ThreadTypes'
    BY <1>6, DequeuableType DEF DequeueQueue, ThreadTypes, LockedPC, UnlockedPC
  <2>4. ListTypes' /\ FlagTypes'
    BY <1>6 DEF DequeueQueue, ListTypes, FlagTypes
  <2>5. \A u \in AppThreads : pc'[u] \in WithBuffer => buf'[u] \in Buffers
    BY <1>6, DequeuableType DEF DequeueQueue, WithBuffer, ThreadTypes
  <2> QED BY <2>1, <2>2, <2>3, <2>4, <2>5
<1>7. ASSUME NEW t \in AppThreads, DequeueRef(t) PROVE TypeInv'
  <2>1. BufferTypes'
    <3>1. buf[t] \in Buffers /\ [ref EXCEPT ![buf[t]] = @ + 1] \in [Buffers -> Nat]
      BY <1>7, IncrementedType DEF DequeueRef, BufferTypes, WithBuffer
    <3> QED BY <1>7, <3>1 DEF DequeueRef, BufferTypes
  <2>2. FlagTypes'
    BY <1>7 DEF DequeueRef, FlagTypes
  <2>3. ThreadTypes'
    BY <1>7 DEF DequeueRef, ThreadTypes, LockedPC, UnlockedPC
  <2>4. QueueTypes' /\ ListTypes'
    BY <1>7 DEF DequeueRef, QueueTypes, ListTypes
  <2>5. \A u \in AppThreads : pc'[u] \in WithBuffer => buf'[u] \in Buffers
    BY <1>7 DEF DequeueRef, WithBuffer, ThreadTypes
  <2> QED BY <2>1, <2>2, <2>3, <2>4, <2>5
<1>7f. ASSUME NEW t \in AppThreads, DequeueFlag(t) PROVE TypeInv'
  <2>1. BufferTypes'
    <3>1. CASE Unref(buf[t]) BY <1>7f, <3>1, UnrefTypes DEF DequeueFlag
    <3>2. CASE ~Unref(buf[t]) BY <1>7f, <3>2 DEF DequeueFlag, BufferTypes
    <3> QED BY <3>1, <3>2
  <2>2. FlagTypes'
    BY <1>7f DEF DequeueFlag, FlagTypes
  <2>3. ThreadTypes'
    BY <1>7f DEF DequeueFlag, ThreadTypes, LockedPC, UnlockedPC
  <2>4. QueueTypes' /\ ListTypes'
    BY <1>7f DEF DequeueFlag, QueueTypes, ListTypes
  <2>5. \A u \in AppThreads : pc'[u] \in WithBuffer => buf'[u] \in Buffers
    BY <1>7f DEF DequeueFlag, WithBuffer, ThreadTypes
  <2> QED BY <2>1, <2>2, <2>3, <2>4, <2>5
<1>8. ASSUME NEW t \in AppThreads, DequeuePush(t) PROVE TypeInv'
  <2>1. ListTypes'
    BY <1>8, IncrementedType DEF DequeuePush, ListTypes, WithBuffer
  <2>2. ThreadTypes'
    BY <1>8 DEF DequeuePush, ThreadTypes, LockedPC, UnlockedPC
  <2>3. QueueTypes' /\ BufferTypes' /\ FlagTypes'
    BY <1>8 DEF DequeuePush, QueueTypes, BufferTypes, FlagTypes
  <2>4. \A u \in AppThreads : pc'[u] \in WithBuffer => buf'[u] \in Buffers
    BY <1>8 DEF DequeuePush, WithBuffer, ThreadTypes
  <2> QED BY <2>1, <2>2, <2>3, <2>4
<1>9. ASSUME NEW t \in AppThreads, VblankWait(t) PROVE TypeInv'
  <2>1. ThreadTypes'
    BY <1>9 DEF VblankWait, ThreadTypes, LockedPC, UnlockedPC
  <2>2. QueueTypes' /\ BufferTypes' /\ ListTypes' /\ FlagTypes'
    BY <1>9 DEF VblankWait, QueueTypes, BufferTypes, ListTypes, FlagTypes
  <2>3. \A u \in AppThreads : pc'[u] \in WithBuffer => buf'[u] \in Buffers
    BY <1>9 DEF VblankWait, WithBuffer, ThreadTypes
  <2> QED BY <2>1, <2>2, <2>3
<1>9c. ASSUME NEW t \in AppThreads, VblankCall(t) PROVE TypeInv'
  <2>1. ThreadTypes'
    BY <1>9c DEF VblankCall, ThreadTypes, LockedPC, UnlockedPC
  <2>2. QueueTypes' /\ BufferTypes' /\ ListTypes' /\ FlagTypes'
    BY <1>9c DEF VblankCall, QueueTypes, BufferTypes, ListTypes, FlagTypes
  <2>3. \A u \in AppThreads : pc'[u] \in WithBuffer => buf'[u] \in Buffers
    BY <1>9c DEF VblankCall, WithBuffer, ThreadTypes
  <2> QED BY <2>1, <2>2, <2>3
<1>10. ASSUME NEW t \in AppThreads, VblankRelock(t) PROVE TypeInv'
  <2>1. ThreadTypes'
    BY <1>10 DEF VblankRelock, ThreadTypes, LockedPC, UnlockedPC
  <2>2. QueueTypes' /\ BufferTypes' /\ ListTypes' /\ FlagTypes'
    BY <1>10 DEF VblankRelock, QueueTypes, BufferTypes, ListTypes, FlagTypes
  <2>3. \A u \in AppThreads : pc'[u] \in WithBuffer => buf'[u] \in Buffers
    BY <1>10 DEF VblankRelock, WithBuffer, ThreadTypes
  <2> QED BY <2>1, <2>2, <2>3
<1>11. ASSUME NEW t \in AppThreads, EnqueueTrack(t) PROVE TypeInv'
  <2>1. ListTypes'
    BY <1>11, DecrementedType DEF EnqueueTrack, ListTypes
  <2>2. ThreadTypes'
    BY <1>11 DEF EnqueueTrack, ThreadTypes, LockedPC, UnlockedPC
  <2>3. QueueTypes' /\ BufferTypes' /\ FlagTypes'
    BY <1>11 DEF EnqueueTrack, QueueTypes, BufferTypes, FlagTypes
  <2>4. \A u \in AppThreads : pc'[u] \in WithBuffer => buf'[u] \in Buffers
    BY <1>11 DEF EnqueueTrack, WithBuffer, ThreadTypes
  <2> QED BY <2>1, <2>2, <2>3, <2>4
<1>12. ASSUME NEW t \in AppThreads, EnqueueCheck(t) PROVE TypeInv'
  <2>1. QueueTypes'
    BY <1>12 DEF EnqueueCheck, QueueTypes, NodeState
  <2>2. ThreadTypes'
    BY <1>12 DEF EnqueueCheck, ThreadTypes, LockedPC, UnlockedPC
  <2>3. BufferTypes' /\ ListTypes' /\ FlagTypes'
    BY <1>12 DEF EnqueueCheck, BufferTypes, ListTypes, FlagTypes
  <2>4. \A u \in AppThreads : pc'[u] \in WithBuffer => buf'[u] \in Buffers
    BY <1>12 DEF EnqueueCheck, WithBuffer, ThreadTypes
  <2> QED BY <2>1, <2>2, <2>3, <2>4
<1>13. ASSUME NEW t \in AppThreads, EnqueueUnref(t) PROVE TypeInv'
  <2>1. BufferTypes'
    BY <1>13, UnrefTypes DEF EnqueueUnref
  <2>2. ThreadTypes'
    BY <1>13 DEF EnqueueUnref, ThreadTypes, LockedPC, UnlockedPC
  <2>3. QueueTypes' /\ ListTypes' /\ FlagTypes'
    BY <1>13 DEF EnqueueUnref, QueueTypes, ListTypes, FlagTypes
  <2>4. \A u \in AppThreads : pc'[u] \in WithBuffer => buf'[u] \in Buffers
    BY <1>13 DEF EnqueueUnref, WithBuffer, ThreadTypes
  <2> QED BY <2>1, <2>2, <2>3, <2>4
<1>14. ASSUME NEW t \in AppThreads, EnqueueAcquire(t) PROVE TypeInv'
  <2>1. QueueTypes'
    BY <1>14 DEF EnqueueAcquire, QueueTypes, NodeState
  <2>2. ThreadTypes'
    BY <1>14 DEF EnqueueAcquire, ThreadTypes, LockedPC, UnlockedPC, InState, QueueTypes
  <2>3. BufferTypes' /\ ListTypes' /\ FlagTypes'
    BY <1>14 DEF EnqueueAcquire, BufferTypes, ListTypes, FlagTypes
  <2>4. \A u \in AppThreads : pc'[u] \in WithBuffer => buf'[u] \in Buffers
    BY <1>14 DEF EnqueueAcquire, WithBuffer, ThreadTypes, QueueTypes, InState
  <2> QED BY <2>1, <2>2, <2>3, <2>4
<1>15. ASSUME NEW t \in AppThreads, EnqueueRef(t) PROVE TypeInv'
  <2>1. BufferTypes'
    BY <1>15, IncrementedType DEF EnqueueRef, BufferTypes, WithBuffer
  <2>2. ThreadTypes'
    BY <1>15 DEF EnqueueRef, ThreadTypes, LockedPC, UnlockedPC
  <2>3. QueueTypes' /\ ListTypes' /\ FlagTypes'
    BY <1>15 DEF EnqueueRef, QueueTypes, ListTypes, FlagTypes
  <2>4. \A u \in AppThreads : pc'[u] \in WithBuffer => buf'[u] \in Buffers
    BY <1>15 DEF EnqueueRef, WithBuffer, ThreadTypes
  <2> QED BY <2>1, <2>2, <2>3, <2>4
<1>16. ASSUME NEW t \in AppThreads, Commit(t) PROVE TypeInv'
  <2>1. BufferTypes'
    BY <1>16 DEF Commit, BufferTypes, Scanout, WithBuffer
  <2>2. FlagTypes'
    BY <1>16 DEF Commit, FlagTypes
  <2>3. ThreadTypes'
    BY <1>16 DEF Commit, ThreadTypes, LockedPC, UnlockedPC
  <2>4. QueueTypes' /\ ListTypes'
    BY <1>16 DEF Commit, QueueTypes, ListTypes
  <2>5. \A u \in AppThreads : pc'[u] \in WithBuffer => buf'[u] \in Buffers
    BY <1>16 DEF Commit, WithBuffer, ThreadTypes
  <2> QED BY <2>1, <2>2, <2>3, <2>4, <2>5
<1>17. ASSUME NEW t \in AppThreads, CommitTrack(t) PROVE TypeInv'
  <2>1. ListTypes'
    BY <1>17, IncrementedType DEF CommitTrack, ListTypes, WithBuffer
  <2>2. ThreadTypes'
    BY <1>17 DEF CommitTrack, ThreadTypes, LockedPC, UnlockedPC
  <2>3. QueueTypes' /\ BufferTypes' /\ FlagTypes'
    BY <1>17 DEF CommitTrack, QueueTypes, BufferTypes, FlagTypes
  <2>4. \A u \in AppThreads : pc'[u] \in WithBuffer => buf'[u] \in Buffers
    BY <1>17 DEF CommitTrack, WithBuffer, ThreadTypes
  <2> QED BY <2>1, <2>2, <2>3, <2>4
<1>18. ASSUME NEW t \in AppThreads, CommitArm(t) PROVE TypeInv'
  <2>1. FlagTypes'
    BY <1>18 DEF CommitArm, FlagTypes
  <2>2. ThreadTypes'
    BY <1>18 DEF CommitArm, ThreadTypes, LockedPC, UnlockedPC
  <2>3. QueueTypes' /\ BufferTypes' /\ ListTypes'
    BY <1>18 DEF CommitArm, QueueTypes, BufferTypes, ListTypes
  <2>4. \A u \in AppThreads : pc'[u] \in WithBuffer => buf'[u] \in Buffers
    BY <1>18 DEF CommitArm, WithBuffer, ThreadTypes
  <2> QED BY <2>1, <2>2, <2>3, <2>4
<1>19. ASSUME NEW t \in AppThreads, CommitArmed(t) PROVE TypeInv'
  <2>1. FlagTypes'
    BY <1>19 DEF CommitArmed, FlagTypes
  <2>2. ThreadTypes'
    BY <1>19 DEF CommitArmed, ThreadTypes, LockedPC, UnlockedPC
  <2>3. QueueTypes' /\ BufferTypes' /\ ListTypes'
    BY <1>19 DEF CommitArmed, QueueTypes, BufferTypes, ListTypes
  <2>4. \A u \in AppThreads : pc'[u] \in WithBuffer => buf'[u] \in Buffers
    BY <1>19 DEF CommitArmed, WithBuffer, ThreadTypes
  <2> QED BY <2>1, <2>2, <2>3, <2>4
<1>20. ASSUME NEW t \in AppThreads, FiniQueue(t) PROVE TypeInv'
  <2>1. QueueTypes'
    BY <1>20, ClearQueueTypes DEF FiniQueue, QueueTypes
  <2>2. BufferTypes'
    BY <1>20, ClearQueueTypes DEF FiniQueue
  <2>3. FlagTypes'
    BY <1>20 DEF FiniQueue, FlagTypes
  <2>4. ThreadTypes'
    BY <1>20 DEF FiniQueue, ThreadTypes, LockedPC, UnlockedPC
  <2>5. ListTypes'
    BY <1>20 DEF FiniQueue, ListTypes
  <2>6. \A u \in AppThreads : pc'[u] \in WithBuffer => buf'[u] \in Buffers
    BY <1>20 DEF FiniQueue, WithBuffer, ThreadTypes
  <2> QED BY <2>1, <2>2, <2>3, <2>4, <2>5, <2>6
<1>21. ASSUME NEW t \in AppThreads, FiniDrop(t) PROVE TypeInv'
  <2>1. BufferTypes'
    BY <1>21, DropAttachedTypes DEF FiniDrop
  <2>2. ListTypes'
    BY <1>21, DropAttachedTypes DEF FiniDrop, ListTypes
  <2>3. FlagTypes'
    BY <1>21 DEF FiniDrop, FlagTypes
  <2>4. ThreadTypes'
    BY <1>21 DEF FiniDrop, ThreadTypes, LockedPC, UnlockedPC
  <2>5. QueueTypes'
    BY <1>21 DEF FiniDrop, QueueTypes
  <2>6. \A u \in AppThreads : pc'[u] \in WithBuffer => buf'[u] \in Buffers
    BY <1>21 DEF FiniDrop, WithBuffer, ThreadTypes
  <2> QED BY <2>1, <2>2, <2>3, <2>4, <2>5, <2>6
<1>22. ASSUME NEW t \in AppThreads, DequeueCall(t) PROVE TypeInv'
  <2>1. QueueTypes'
    BY <1>22, ClearQueueTypes DEF DequeueCall, QueueTypes
  <2>2. BufferTypes'
    BY <1>22, ClearQueueTypes DEF DequeueCall, BufferTypes
  <2>3. FlagTypes'
    BY <1>22 DEF DequeueCall, FlagTypes
  <2>4. ThreadTypes'
    BY <1>22 DEF DequeueCall, ThreadTypes, LockedPC, UnlockedPC
  <2>5. ListTypes'
    BY <1>22 DEF DequeueCall, ListTypes
  <2>6. \A u \in AppThreads : pc'[u] \in WithBuffer => buf'[u] \in Buffers
    BY <1>22 DEF DequeueCall, WithBuffer, ThreadTypes
  <2> QED BY <2>1, <2>2, <2>3, <2>4, <2>5, <2>6
<1>23. ASSUME NEW t \in AppThreads, NEW b \in Buffers, EnqueueCall(t, b) PROVE TypeInv'
  <2>1. ListTypes'
    BY <1>23 DEF EnqueueCall, ListTypes
  <2>2. ThreadTypes'
    BY <1>23 DEF EnqueueCall, ThreadTypes, LockedPC, UnlockedPC
  <2>3. QueueTypes' /\ BufferTypes' /\ FlagTypes'
    BY <1>23 DEF EnqueueCall, QueueTypes, BufferTypes, FlagTypes
  <2>4. \A u \in AppThreads : pc'[u] \in WithBuffer => buf'[u] \in Buffers
    BY <1>23 DEF EnqueueCall, WithBuffer, ThreadTypes, ListTypes
  <2> QED BY <2>1, <2>2, <2>3, <2>4
<1>24. ASSUME NEW t \in AppThreads, FiniCall(t) PROVE TypeInv'
  <2>1. ThreadTypes'
    BY <1>24 DEF FiniCall, ThreadTypes, LockedPC, UnlockedPC
  <2>2. QueueTypes' /\ BufferTypes' /\ ListTypes' /\ FlagTypes'
    BY <1>24 DEF FiniCall, QueueTypes, BufferTypes, ListTypes, FlagTypes
  <2>3. \A u \in AppThreads : pc'[u] \in WithBuffer => buf'[u] \in Buffers
    BY <1>24 DEF FiniCall, WithBuffer, ThreadTypes
  <2> QED BY <2>1, <2>2, <2>3
<1>25. ASSUME NEW x \in Threads, ReleaseTrack(x) PROVE TypeInv'
  <2>1. ListTypes'
    BY <1>25, DecrementedType DEF ReleaseTrack, ListTypes
  <2>2. ThreadTypes'
    BY <1>25 DEF ReleaseTrack, ThreadTypes, LockedPC, UnlockedPC, CallbackPC
  <2>3. QueueTypes' /\ BufferTypes' /\ FlagTypes'
    BY <1>25 DEF ReleaseTrack, QueueTypes, BufferTypes, FlagTypes
  <2>4. \A u \in AppThreads : pc'[u] \in WithBuffer => buf'[u] \in Buffers
    BY <1>25 DEF ReleaseTrack, WithBuffer, ThreadTypes
  <2> QED BY <2>1, <2>2, <2>3, <2>4
<1>26. ASSUME NEW x \in Threads, ReleaseQueue(x) PROVE TypeInv'
  <2>1. QueueTypes'
    BY <1>26, ReleasedType DEF ReleaseQueue, QueueTypes
  <2>2. ThreadTypes'
    BY <1>26 DEF ReleaseQueue, ThreadTypes, LockedPC, UnlockedPC, CallbackPC
  <2>3. BufferTypes' /\ ListTypes' /\ FlagTypes'
    BY <1>26 DEF ReleaseQueue, BufferTypes, ListTypes, FlagTypes
  <2>4. \A u \in AppThreads : pc'[u] \in WithBuffer => buf'[u] \in Buffers
    BY <1>26 DEF ReleaseQueue, WithBuffer, ThreadTypes
  <2> QED BY <2>1, <2>2, <2>3, <2>4
<1>27. ASSUME NEW x \in Threads, ReleaseUnref(x) PROVE TypeInv'
  <2>1. BufferTypes'
    BY <1>27, UnrefTypes DEF ReleaseUnref
  <2>2. ThreadTypes'
    BY <1>27 DEF ReleaseUnref, ThreadTypes, LockedPC, UnlockedPC, CallbackPC
  <2>3. QueueTypes' /\ ListTypes' /\ FlagTypes'
    BY <1>27 DEF ReleaseUnref, QueueTypes, ListTypes, FlagTypes
  <2>4. \A u \in AppThreads : pc'[u] \in WithBuffer => buf'[u] \in Buffers
    BY <1>27 DEF ReleaseUnref, WithBuffer, ThreadTypes
  <2> QED BY <2>1, <2>2, <2>3, <2>4
<1>28. ASSUME NEW x \in Threads, ResetCallback(x) PROVE TypeInv'
  <2>1. BufferTypes'
    BY <1>28, FlaggedType DEF ResetCallback, BufferTypes
  <2>2. FlagTypes'
    BY <1>28 DEF ResetCallback, FlagTypes
  <2>3. ThreadTypes'
    BY <1>28 DEF ResetCallback, ThreadTypes, LockedPC, UnlockedPC, CallbackPC
  <2>4. QueueTypes' /\ ListTypes'
    BY <1>28 DEF ResetCallback, QueueTypes, ListTypes
  <2>5. \A u \in AppThreads : pc'[u] \in WithBuffer => buf'[u] \in Buffers
    BY <1>28 DEF ResetCallback, WithBuffer, ThreadTypes
  <2> QED BY <2>1, <2>2, <2>3, <2>4, <2>5
<1>29. ASSUME NEW x \in Threads, FlushQueue(x) PROVE TypeInv'
  <2>1. QueueTypes'
    BY <1>29, ClearQueueTypes DEF FlushQueue, QueueTypes
  <2>2. BufferTypes'
    <3>1. CASE ClearQueue BY <1>29, <3>1, ClearQueueTypes DEF FlushQueue
    <3>2. CASE UNCHANGED bufferVars BY <1>29, <3>2 DEF FlushQueue, BufferTypes
    <3> QED BY <1>29, <3>1, <3>2 DEF FlushQueue
  <2>3. ThreadTypes'
    BY <1>29 DEF FlushQueue, ThreadTypes, LockedPC, UnlockedPC, CallbackPC
  <2>4. ListTypes' /\ FlagTypes'
    BY <1>29 DEF FlushQueue, ListTypes, FlagTypes
  <2>5. \A u \in AppThreads : pc'[u] \in WithBuffer => buf'[u] \in Buffers
    BY <1>29 DEF FlushQueue, WithBuffer, ThreadTypes
  <2> QED BY <2>1, <2>2, <2>3, <2>4, <2>5
<1>30. ASSUME NEW x \in Threads, FlushDrop(x) PROVE TypeInv'
  <2>1. BufferTypes'
    BY <1>30, DropAttachedTypes DEF FlushDrop
  <2>2. ListTypes'
    BY <1>30, DropAttachedTypes DEF FlushDrop, ListTypes
  <2>3. ThreadTypes'
    BY <1>30 DEF FlushDrop, ThreadTypes, LockedPC, UnlockedPC
  <2>4. QueueTypes' /\ FlagTypes'
    BY <1>30 DEF FlushDrop, QueueTypes, FlagTypes
  <2>5. \A u \in AppThreads : pc'[u] \in WithBuffer => buf'[u] \in Buffers
    BY <1>30 DEF FlushDrop, WithBuffer, ThreadTypes
  <2> QED BY <2>1, <2>2, <2>3, <2>4, <2>5
<1>31. ASSUME NEW x \in Threads, ReleaseCallback(x) PROVE TypeInv'
  <2>1. BufferTypes'
    BY <1>31 DEF ReleaseCallback, BufferTypes, Scanout
  <2>2. ThreadTypes'
    BY <1>31 DEF ReleaseCallback, ThreadTypes, LockedPC, UnlockedPC, CallbackPC
  <2>3. QueueTypes' /\ ListTypes' /\ FlagTypes'
    BY <1>31 DEF ReleaseCallback, WakeAll, QueueTypes, ListTypes, FlagTypes
  <2>4. \A u \in AppThreads : pc'[u] \in WithBuffer => buf'[u] \in Buffers
    BY <1>31 DEF ReleaseCallback, WithBuffer, ThreadTypes
  <2> QED BY <2>1, <2>2, <2>3, <2>4
<1>32. ASSUME NEW x \in Threads, ResetEvent(x) PROVE TypeInv'
  <2>1. QueueTypes'
    BY <1>32, ClearQueueTypes DEF ResetEvent, QueueTypes
  <2>2. BufferTypes'
    BY <1>32, ClearQueueTypes DEF ResetEvent
  <2>3. ThreadTypes'
    BY <1>32 DEF ResetEvent, ThreadTypes, LockedPC, UnlockedPC, CallbackPC
  <2>4. ListTypes' /\ FlagTypes'
    BY <1>32 DEF WakeAll, ResetEvent, ListTypes, FlagTypes
  <2>5. \A u \in AppThreads : pc'[u] \in WithBuffer => buf'[u] \in Buffers
    BY <1>32 DEF ResetEvent, WithBuffer, ThreadTypes
  <2> QED BY <2>1, <2>2, <2>3, <2>4, <2>5
<1>33. ASSUME NEW x \in Threads, VblankCallback(x) PROVE TypeInv'
  <2>1. FlagTypes'
    BY <1>33 DEF WakeAll, VblankCallback, FlagTypes
  <2>2. QueueTypes' /\ BufferTypes' /\ ListTypes' /\ ThreadTypes'
    BY <1>33 DEF VblankCallback, QueueTypes, BufferTypes, ListTypes, ThreadTypes
  <2>3. \A u \in AppThreads : pc'[u] \in WithBuffer => buf'[u] \in Buffers
    BY <1>33 DEF VblankCallback, WithBuffer, ThreadTypes
  <2> QED BY <2>1, <2>2, <2>3
<1>34. ASSUME NEW x \in Threads, ResizeCallback(x) PROVE TypeInv'
  <2>1. QueueTypes'
    BY <1>34 DEF ResizeCallback, QueueTypes, Sizes
  <2>2. FlagTypes'
    BY <1>34 DEF ResizeCallback, FlagTypes, QueueTypes, Sizes
  <2>3. BufferTypes' /\ ListTypes' /\ ThreadTypes'
    BY <1>34 DEF ResizeCallback, BufferTypes, ListTypes, ThreadTypes
  <2>4. \A u \in AppThreads : pc'[u] \in WithBuffer => buf'[u] \in Buffers
    BY <1>34 DEF ResizeCallback, WithBuffer, ThreadTypes
  <2> QED BY <2>1, <2>2, <2>3, <2>4
<1>35. ASSUME NEW x \in Threads, FlushCallback(x) PROVE TypeInv'
  <2>1. ThreadTypes'
    BY <1>35 DEF FlushCallback, ThreadTypes, LockedPC, UnlockedPC
  <2>2. QueueTypes' /\ BufferTypes' /\ ListTypes' /\ FlagTypes'
    BY <1>35 DEF FlushCallback, QueueTypes, BufferTypes, ListTypes, FlagTypes
  <2>3. \A u \in AppThreads : pc'[u] \in WithBuffer => buf'[u] \in Buffers
    BY <1>35 DEF FlushCallback, WithBuffer, ThreadTypes
  <2> QED BY <2>1, <2>2, <2>3
<1>35o. ASSUME NEW x \in Threads, OtherEvent(x) PROVE TypeInv'
  <2>1. ThreadTypes'
    BY <1>35o DEF OtherEvent, ThreadTypes, LockedPC, UnlockedPC
  <2>2. QueueTypes' /\ BufferTypes' /\ ListTypes' /\ FlagTypes'
    BY <1>35o DEF OtherEvent, QueueTypes, BufferTypes, ListTypes, FlagTypes
  <2>3. \A u \in AppThreads : pc'[u] \in WithBuffer => buf'[u] \in Buffers
    BY <1>35o DEF OtherEvent, WithBuffer, ThreadTypes
  <2> QED BY <2>1, <2>2, <2>3
<1>36. ASSUME NEW b \in Buffers, ServerRelease(b) PROVE TypeInv'
  <2>1. BufferTypes'
    BY <1>36 DEF ServerRelease, BufferTypes, Scanout
  <2>2. QueueTypes' /\ ListTypes' /\ FlagTypes' /\ ThreadTypes'
    BY <1>36 DEF ServerRelease, QueueTypes, ListTypes, FlagTypes, ThreadTypes
  <2>3. \A u \in AppThreads : pc'[u] \in WithBuffer => buf'[u] \in Buffers
    BY <1>36 DEF ServerRelease, WithBuffer, ThreadTypes
  <2> QED BY <2>1, <2>2, <2>3
<1>37. CASE Disconnect
  <2>1. FlagTypes'
    BY <1>37 DEF Disconnect, FlagTypes
  <2>2. QueueTypes' /\ BufferTypes' /\ ListTypes' /\ ThreadTypes'
    BY <1>37 DEF Disconnect, QueueTypes, BufferTypes, ListTypes, ThreadTypes
  <2>3. \A u \in AppThreads : pc'[u] \in WithBuffer => buf'[u] \in Buffers
    BY <1>37 DEF Disconnect, WithBuffer, ThreadTypes
  <2> QED BY <2>1, <2>2, <2>3
<1>38. CASE UNCHANGED vars
  BY <1>38 DEF vars, WithBuffer, QueueTypes, BufferTypes, ListTypes, FlagTypes, ThreadTypes
<1> HIDE DEF TypeInv, TypeOK, Threads, queueVars, bufferVars, listVars, flagVars, vblankVars, threadVars,
        callbackVars, envVars
<1> QED
  BY <1>1, <1>2, <1>3, <1>3t, <1>4, <1>5, <1>6, <1>7, <1>7f, <1>8, <1>9, <1>9c, <1>10,
     <1>11, <1>12, <1>13, <1>14,
     <1>15, <1>16, <1>17, <1>18, <1>19, <1>20, <1>21, <1>22, <1>23, <1>24, <1>25, <1>26,
     <1>27, <1>28, <1>29, <1>30, <1>31, <1>32, <1>33, <1>34, <1>35, <1>35o, <1>36, <1>37, <1>38
     DEF Next, CallStep, CallbackStep, Begin, Finished

\* The types hold in the beginning.
LEMMA TypeInit == Init => TypeInv
<1> SUFFICES ASSUME Init PROVE TypeInv
  OBVIOUS
<1>1. QueueTypes
  BY DEF Init, QueueTypes, NodeState, Sizes
<1>2. BufferTypes
  BY DEF Init, BufferTypes, Scanout
<1>3. ListTypes
  BY DEF Init, ListTypes
<1>4. FlagTypes
  BY DEF Init, FlagTypes
<1>5. ThreadTypes
  BY DEF Init, ThreadTypes, UnlockedPC, CallbackPC
<1>6. \A t \in AppThreads : pc[t] \notin WithBuffer
  BY DEF Init, WithBuffer, Threads
<1> QED BY <1>1, <1>2, <1>3, <1>4, <1>5, <1>6 DEF TypeOK, TypeInv

\* Every reachable state has the types the code declares.
THEOREM TypeCorrect == Spec => []TypeOK
<1>1. TypeInv => TypeOK
  BY DEF TypeInv
<1> QED
  BY <1>1, TypeInit, TypeStep, PTL DEF Spec

-----------------------------------------------------------------------------
(* The object lock                                                         *)

\* The thread that is inside a locked part of a call is the owner of the lock.
LockInv == \A t \in AppThreads : pc[t] \in LockedPC => lock = t

\* LockInv is inductive: at most one call works on the queue at a time.
LEMMA LockStep == TypeInv /\ LockInv /\ [Next]_vars => LockInv'
<1> SUFFICES ASSUME TypeInv, LockInv, [Next]_vars PROVE LockInv'
  OBVIOUS
<1> USE SurfaceAssumption DEF LockInv, LockedPC, Threads, TypeInv, TypeOK, ThreadTypes,
        queueVars, bufferVars, listVars, flagVars, vblankVars, threadVars, callbackVars, envVars,
        Goto, GotoWith, Return, Acquire, Callback, At
<1>1. ASSUME NEW t \in AppThreads, DequeueReset(t) PROVE LockInv'
  BY <1>1 DEF DequeueReset
<1>2. ASSUME NEW t \in AppThreads, DequeuePend(t) PROVE LockInv'
  BY <1>2 DEF DequeuePend
<1>3. ASSUME NEW t \in AppThreads, DequeueWait(t) PROVE LockInv'
  BY <1>3 DEF DequeueWait
<1>3t. ASSUME NEW t \in AppThreads, DequeueTest(t) PROVE LockInv'
  BY <1>3t DEF DequeueTest
<1>4. ASSUME NEW t \in AppThreads, DequeueRelock(t) PROVE LockInv'
  BY <1>4 DEF DequeueRelock
<1>5. ASSUME NEW t \in AppThreads, DequeueFail(t) PROVE LockInv'
  BY <1>5 DEF DequeueFail
<1>6. ASSUME NEW t \in AppThreads, DequeueQueue(t) PROVE LockInv'
  BY <1>6 DEF DequeueQueue
<1>7. ASSUME NEW t \in AppThreads, DequeueRef(t) PROVE LockInv'
  BY <1>7 DEF DequeueRef
<1>7f. ASSUME NEW t \in AppThreads, DequeueFlag(t) PROVE LockInv'
  BY <1>7f DEF DequeueFlag
<1>8. ASSUME NEW t \in AppThreads, DequeuePush(t) PROVE LockInv'
  BY <1>8 DEF DequeuePush
<1>9. ASSUME NEW t \in AppThreads, VblankWait(t) PROVE LockInv'
  BY <1>9 DEF VblankWait
<1>9c. ASSUME NEW t \in AppThreads, VblankCall(t) PROVE LockInv'
  BY <1>9c DEF VblankCall
<1>10. ASSUME NEW t \in AppThreads, VblankRelock(t) PROVE LockInv'
  BY <1>10 DEF VblankRelock
<1>11. ASSUME NEW t \in AppThreads, EnqueueTrack(t) PROVE LockInv'
  BY <1>11 DEF EnqueueTrack
<1>12. ASSUME NEW t \in AppThreads, EnqueueCheck(t) PROVE LockInv'
  BY <1>12 DEF EnqueueCheck
<1>13. ASSUME NEW t \in AppThreads, EnqueueUnref(t) PROVE LockInv'
  BY <1>13 DEF EnqueueUnref
<1>14. ASSUME NEW t \in AppThreads, EnqueueAcquire(t) PROVE LockInv'
  BY <1>14 DEF EnqueueAcquire
<1>15. ASSUME NEW t \in AppThreads, EnqueueRef(t) PROVE LockInv'
  BY <1>15 DEF EnqueueRef
<1>16. ASSUME NEW t \in AppThreads, Commit(t) PROVE LockInv'
  BY <1>16 DEF Commit
<1>17. ASSUME NEW t \in AppThreads, CommitTrack(t) PROVE LockInv'
  BY <1>17 DEF CommitTrack
<1>18. ASSUME NEW t \in AppThreads, CommitArm(t) PROVE LockInv'
  BY <1>18 DEF CommitArm
<1>19. ASSUME NEW t \in AppThreads, CommitArmed(t) PROVE LockInv'
  BY <1>19 DEF CommitArmed
<1>20. ASSUME NEW t \in AppThreads, FiniQueue(t) PROVE LockInv'
  BY <1>20 DEF FiniQueue
<1>21. ASSUME NEW t \in AppThreads, FiniDrop(t) PROVE LockInv'
  BY <1>21 DEF FiniDrop
<1>22. ASSUME NEW t \in AppThreads, DequeueCall(t) PROVE LockInv'
  BY <1>22 DEF DequeueCall
<1>23. ASSUME NEW t \in AppThreads, NEW b \in Buffers, EnqueueCall(t, b) PROVE LockInv'
  BY <1>23 DEF EnqueueCall
<1>24. ASSUME NEW t \in AppThreads, FiniCall(t) PROVE LockInv'
  BY <1>24 DEF FiniCall
<1>25. ASSUME NEW x \in Threads, ReleaseTrack(x) PROVE LockInv'
  BY <1>25 DEF ReleaseTrack
<1>26. ASSUME NEW x \in Threads, ReleaseQueue(x) PROVE LockInv'
  BY <1>26 DEF ReleaseQueue
<1>27. ASSUME NEW x \in Threads, ReleaseUnref(x) PROVE LockInv'
  BY <1>27 DEF ReleaseUnref
<1>28. ASSUME NEW x \in Threads, ResetCallback(x) PROVE LockInv'
  BY <1>28 DEF ResetCallback
<1>29. ASSUME NEW x \in Threads, FlushQueue(x) PROVE LockInv'
  BY <1>29 DEF FlushQueue
<1>30. ASSUME NEW x \in Threads, FlushDrop(x) PROVE LockInv'
  BY <1>30 DEF FlushDrop
<1>31. ASSUME NEW x \in Threads, ReleaseCallback(x) PROVE LockInv'
  BY <1>31 DEF ReleaseCallback
<1>32. ASSUME NEW x \in Threads, ResetEvent(x) PROVE LockInv'
  BY <1>32 DEF ResetEvent
<1>33. ASSUME NEW x \in Threads, VblankCallback(x) PROVE LockInv'
  BY <1>33 DEF VblankCallback
<1>34. ASSUME NEW x \in Threads, ResizeCallback(x) PROVE LockInv'
  BY <1>34 DEF ResizeCallback
<1>35. ASSUME NEW x \in Threads, FlushCallback(x) PROVE LockInv'
  BY <1>35 DEF FlushCallback
<1>35o. ASSUME NEW x \in Threads, OtherEvent(x) PROVE LockInv'
  BY <1>35o DEF OtherEvent
<1>36. ASSUME NEW b \in Buffers, ServerRelease(b) PROVE LockInv'
  BY <1>36 DEF ServerRelease
<1>37. CASE Disconnect
  BY <1>37 DEF Disconnect
<1>38. CASE UNCHANGED vars
  BY <1>38 DEF vars
<1> HIDE DEF LockInv, LockedPC, Threads, TypeInv, TypeOK, ThreadTypes, queueVars, bufferVars,
        listVars, flagVars, vblankVars, threadVars, callbackVars, envVars
<1> QED
  BY <1>1, <1>2, <1>3, <1>3t, <1>4, <1>5, <1>6, <1>7, <1>7f, <1>8, <1>9, <1>9c, <1>10,
     <1>11, <1>12, <1>13, <1>14,
     <1>15, <1>16, <1>17, <1>18, <1>19, <1>20, <1>21, <1>22, <1>23, <1>24, <1>25, <1>26,
     <1>27, <1>28, <1>29, <1>30, <1>31, <1>32, <1>33, <1>34, <1>35, <1>35o, <1>36, <1>37, <1>38
     DEF Next, CallStep, CallbackStep, Begin, Finished

\* A frame is in the queue only between the queue_enqueue and the queue_acquire
\* of the call that owns the lock.
LEMMA FrameStep == TypeInv /\ LockInv /\ AcquiresOwnFrame /\ [Next]_vars => AcquiresOwnFrame'
<1> SUFFICES ASSUME TypeInv, LockInv, AcquiresOwnFrame, [Next]_vars PROVE AcquiresOwnFrame'
  OBVIOUS
<1> DOMAIN node = Buffers /\ DOMAIN node' = Buffers
  BY TypeStep DEF TypeInv, TypeOK, QueueTypes
<1> USE SurfaceAssumption DEF AcquiresOwnFrame, InState, LockInv, LockedPC, Threads, TypeInv,
        TypeOK, ThreadTypes, queueVars, bufferVars, listVars, flagVars, vblankVars, threadVars,
        callbackVars, envVars, Goto, GotoWith, Return, Acquire, Callback, At
<1>1. ASSUME NEW t \in AppThreads, DequeueReset(t) PROVE AcquiresOwnFrame'
  BY <1>1 DEF DequeueReset
<1>2. ASSUME NEW t \in AppThreads, DequeuePend(t) PROVE AcquiresOwnFrame'
  BY <1>2 DEF DequeuePend
<1>3. ASSUME NEW t \in AppThreads, DequeueWait(t) PROVE AcquiresOwnFrame'
  BY <1>3 DEF DequeueWait
<1>3t. ASSUME NEW t \in AppThreads, DequeueTest(t) PROVE AcquiresOwnFrame'
  BY <1>3t DEF DequeueTest
<1>4. ASSUME NEW t \in AppThreads, DequeueRelock(t) PROVE AcquiresOwnFrame'
  BY <1>4 DEF DequeueRelock
<1>5. ASSUME NEW t \in AppThreads, DequeueFail(t) PROVE AcquiresOwnFrame'
  BY <1>5 DEF DequeueFail
<1>6. ASSUME NEW t \in AppThreads, DequeueQueue(t) PROVE AcquiresOwnFrame'
  BY <1>6 DEF DequeueQueue
<1>7. ASSUME NEW t \in AppThreads, DequeueRef(t) PROVE AcquiresOwnFrame'
  BY <1>7 DEF DequeueRef
<1>7f. ASSUME NEW t \in AppThreads, DequeueFlag(t) PROVE AcquiresOwnFrame'
  BY <1>7f DEF DequeueFlag
<1>8. ASSUME NEW t \in AppThreads, DequeuePush(t) PROVE AcquiresOwnFrame'
  BY <1>8 DEF DequeuePush
<1>9. ASSUME NEW t \in AppThreads, VblankWait(t) PROVE AcquiresOwnFrame'
  BY <1>9 DEF VblankWait
<1>9c. ASSUME NEW t \in AppThreads, VblankCall(t) PROVE AcquiresOwnFrame'
  BY <1>9c DEF VblankCall
<1>10. ASSUME NEW t \in AppThreads, VblankRelock(t) PROVE AcquiresOwnFrame'
  BY <1>10 DEF VblankRelock
<1>11. ASSUME NEW t \in AppThreads, EnqueueTrack(t) PROVE AcquiresOwnFrame'
  BY <1>11 DEF EnqueueTrack
<1>12. ASSUME NEW t \in AppThreads, EnqueueCheck(t) PROVE AcquiresOwnFrame'
  BY <1>12 DEF EnqueueCheck
<1>13. ASSUME NEW t \in AppThreads, EnqueueUnref(t) PROVE AcquiresOwnFrame'
  BY <1>13 DEF EnqueueUnref
<1>14. ASSUME NEW t \in AppThreads, EnqueueAcquire(t) PROVE AcquiresOwnFrame'
  BY <1>14 DEF EnqueueAcquire
<1>15. ASSUME NEW t \in AppThreads, EnqueueRef(t) PROVE AcquiresOwnFrame'
  BY <1>15 DEF EnqueueRef
<1>16. ASSUME NEW t \in AppThreads, Commit(t) PROVE AcquiresOwnFrame'
  BY <1>16 DEF Commit
<1>17. ASSUME NEW t \in AppThreads, CommitTrack(t) PROVE AcquiresOwnFrame'
  BY <1>17 DEF CommitTrack
<1>18. ASSUME NEW t \in AppThreads, CommitArm(t) PROVE AcquiresOwnFrame'
  BY <1>18 DEF CommitArm
<1>19. ASSUME NEW t \in AppThreads, CommitArmed(t) PROVE AcquiresOwnFrame'
  BY <1>19 DEF CommitArmed
<1>20. ASSUME NEW t \in AppThreads, FiniQueue(t) PROVE AcquiresOwnFrame'
  BY <1>20 DEF FiniQueue, ClearQueue, Cleared
<1>21. ASSUME NEW t \in AppThreads, FiniDrop(t) PROVE AcquiresOwnFrame'
  BY <1>21 DEF FiniDrop
<1>22. ASSUME NEW t \in AppThreads, DequeueCall(t) PROVE AcquiresOwnFrame'
  BY <1>22 DEF DequeueCall, ClearQueue, Cleared
<1>23. ASSUME NEW t \in AppThreads, NEW b \in Buffers, EnqueueCall(t, b) PROVE AcquiresOwnFrame'
  BY <1>23 DEF EnqueueCall
<1>24. ASSUME NEW t \in AppThreads, FiniCall(t) PROVE AcquiresOwnFrame'
  BY <1>24 DEF FiniCall
<1>25. ASSUME NEW x \in Threads, ReleaseTrack(x) PROVE AcquiresOwnFrame'
  BY <1>25 DEF ReleaseTrack
<1>26. ASSUME NEW x \in Threads, ReleaseQueue(x) PROVE AcquiresOwnFrame'
  BY <1>26 DEF ReleaseQueue, Released
<1>27. ASSUME NEW x \in Threads, ReleaseUnref(x) PROVE AcquiresOwnFrame'
  BY <1>27 DEF ReleaseUnref
<1>28. ASSUME NEW x \in Threads, ResetCallback(x) PROVE AcquiresOwnFrame'
  BY <1>28 DEF ResetCallback
<1>29. ASSUME NEW x \in Threads, FlushQueue(x) PROVE AcquiresOwnFrame'
  BY <1>29 DEF FlushQueue, ClearQueue, Cleared
<1>30. ASSUME NEW x \in Threads, FlushDrop(x) PROVE AcquiresOwnFrame'
  BY <1>30 DEF FlushDrop
<1>31. ASSUME NEW x \in Threads, ReleaseCallback(x) PROVE AcquiresOwnFrame'
  BY <1>31 DEF ReleaseCallback
<1>32. ASSUME NEW x \in Threads, ResetEvent(x) PROVE AcquiresOwnFrame'
  BY <1>32 DEF ResetEvent, ClearQueue, Cleared
<1>33. ASSUME NEW x \in Threads, VblankCallback(x) PROVE AcquiresOwnFrame'
  BY <1>33 DEF VblankCallback
<1>34. ASSUME NEW x \in Threads, ResizeCallback(x) PROVE AcquiresOwnFrame'
  BY <1>34 DEF ResizeCallback
<1>35. ASSUME NEW x \in Threads, FlushCallback(x) PROVE AcquiresOwnFrame'
  BY <1>35 DEF FlushCallback
<1>35o. ASSUME NEW x \in Threads, OtherEvent(x) PROVE AcquiresOwnFrame'
  BY <1>35o DEF OtherEvent
<1>36. ASSUME NEW b \in Buffers, ServerRelease(b) PROVE AcquiresOwnFrame'
  BY <1>36 DEF ServerRelease
<1>37. CASE Disconnect
  BY <1>37 DEF Disconnect
<1>38. CASE UNCHANGED vars
  BY <1>38 DEF vars
<1> HIDE DEF AcquiresOwnFrame, InState, LockInv, LockedPC, Threads, TypeInv, TypeOK, ThreadTypes,
        queueVars, bufferVars, listVars, flagVars, vblankVars, threadVars, callbackVars, envVars
<1> QED
  BY <1>1, <1>2, <1>3, <1>3t, <1>4, <1>5, <1>6, <1>7, <1>7f, <1>8, <1>9, <1>9c, <1>10,
     <1>11, <1>12, <1>13, <1>14,
     <1>15, <1>16, <1>17, <1>18, <1>19, <1>20, <1>21, <1>22, <1>23, <1>24, <1>25, <1>26,
     <1>27, <1>28, <1>29, <1>30, <1>31, <1>32, <1>33, <1>34, <1>35, <1>35o, <1>36, <1>37, <1>38
     DEF Next, CallStep, CallbackStep, Begin, Finished

\* With any number of threads on a surface, enqueue commits the buffer it was
\* given: the object lock makes its queue_enqueue and queue_acquire one step.
THEOREM OwnFrame == Spec => []AcquiresOwnFrame
<1>1. Init => TypeInv /\ LockInv /\ AcquiresOwnFrame
  BY TypeInit DEF Init, LockInv, LockedPC, AcquiresOwnFrame, InState, Threads
<1> QED
  BY <1>1, TypeStep, LockStep, FrameStep, PTL DEF Spec

-----------------------------------------------------------------------------
(* The vblank gate                                                         *)

\* One thread posts the frames, and tdm_client never fails.
OnePoster ==
    /\ \A t, u \in AppThreads : "enqueue" \in Runs[t] /\ "enqueue" \in Runs[u] => t = u
    /\ "vblank" \notin Faults

EnqueuePC == {"vblCall", "vblWait", "vblRelock", "enqTrack", "enqCheck", "enqUnref", "enqAcquire", "enqRef",
              "commit", "track", "arm", "armed"}

\* Behind the gate the vblank of the previous commit is over.
GateInv ==
    \A t \in AppThreads :
        /\ pc[t] \in EnqueuePC => "enqueue" \in Runs[t]
        /\ pc[t] \in EnqueuePC \ {"vblCall", "vblWait"} => vblankDone

\* Every step keeps the gate.
LEMMA GateStep == OnePoster /\ TypeInv /\ GateInv /\ [Next]_vars => GateInv'
<1> SUFFICES ASSUME OnePoster, TypeInv, GateInv, [Next]_vars PROVE GateInv'
  OBVIOUS
<1> USE SurfaceAssumption DEF OnePoster, GateInv, EnqueuePC, Threads, TypeInv, TypeOK, ThreadTypes,
        queueVars, bufferVars, listVars, flagVars, vblankVars, threadVars, callbackVars, envVars,
        Goto, GotoWith, Return, Acquire, Callback, At
<1>1. ASSUME NEW t \in AppThreads, DequeueReset(t) PROVE GateInv'
  BY <1>1 DEF DequeueReset
<1>2. ASSUME NEW t \in AppThreads, DequeuePend(t) PROVE GateInv'
  BY <1>2 DEF DequeuePend
<1>3. ASSUME NEW t \in AppThreads, DequeueWait(t) PROVE GateInv'
  BY <1>3 DEF DequeueWait
<1>3t. ASSUME NEW t \in AppThreads, DequeueTest(t) PROVE GateInv'
  BY <1>3t DEF DequeueTest
<1>4. ASSUME NEW t \in AppThreads, DequeueRelock(t) PROVE GateInv'
  BY <1>4 DEF DequeueRelock
<1>5. ASSUME NEW t \in AppThreads, DequeueFail(t) PROVE GateInv'
  BY <1>5 DEF DequeueFail
<1>6. ASSUME NEW t \in AppThreads, DequeueQueue(t) PROVE GateInv'
  BY <1>6 DEF DequeueQueue
<1>7. ASSUME NEW t \in AppThreads, DequeueRef(t) PROVE GateInv'
  BY <1>7 DEF DequeueRef
<1>7f. ASSUME NEW t \in AppThreads, DequeueFlag(t) PROVE GateInv'
  BY <1>7f DEF DequeueFlag
<1>8. ASSUME NEW t \in AppThreads, DequeuePush(t) PROVE GateInv'
  BY <1>8 DEF DequeuePush
<1>9. ASSUME NEW t \in AppThreads, VblankWait(t) PROVE GateInv'
  BY <1>9 DEF VblankWait
<1>9c. ASSUME NEW t \in AppThreads, VblankCall(t) PROVE GateInv'
  BY <1>9c DEF VblankCall
<1>10. ASSUME NEW t \in AppThreads, VblankRelock(t) PROVE GateInv'
  BY <1>10 DEF VblankRelock
<1>11. ASSUME NEW t \in AppThreads, EnqueueTrack(t) PROVE GateInv'
  BY <1>11 DEF EnqueueTrack
<1>12. ASSUME NEW t \in AppThreads, EnqueueCheck(t) PROVE GateInv'
  BY <1>12 DEF EnqueueCheck
<1>13. ASSUME NEW t \in AppThreads, EnqueueUnref(t) PROVE GateInv'
  BY <1>13 DEF EnqueueUnref
<1>14. ASSUME NEW t \in AppThreads, EnqueueAcquire(t) PROVE GateInv'
  BY <1>14 DEF EnqueueAcquire
<1>15. ASSUME NEW t \in AppThreads, EnqueueRef(t) PROVE GateInv'
  BY <1>15 DEF EnqueueRef
<1>16. ASSUME NEW t \in AppThreads, Commit(t) PROVE GateInv'
  BY <1>16 DEF Commit
<1>17. ASSUME NEW t \in AppThreads, CommitTrack(t) PROVE GateInv'
  BY <1>17 DEF CommitTrack
<1>18. ASSUME NEW t \in AppThreads, CommitArm(t) PROVE GateInv'
  BY <1>18 DEF CommitArm
<1>19. ASSUME NEW t \in AppThreads, CommitArmed(t) PROVE GateInv'
  BY <1>19 DEF CommitArmed
<1>20. ASSUME NEW t \in AppThreads, FiniQueue(t) PROVE GateInv'
  BY <1>20 DEF FiniQueue
<1>21. ASSUME NEW t \in AppThreads, FiniDrop(t) PROVE GateInv'
  BY <1>21 DEF FiniDrop
<1>22. ASSUME NEW t \in AppThreads, DequeueCall(t) PROVE GateInv'
  BY <1>22 DEF DequeueCall
<1>23. ASSUME NEW t \in AppThreads, NEW b \in Buffers, EnqueueCall(t, b) PROVE GateInv'
  BY <1>23 DEF EnqueueCall
<1>24. ASSUME NEW t \in AppThreads, FiniCall(t) PROVE GateInv'
  BY <1>24 DEF FiniCall
<1>25. ASSUME NEW x \in Threads, ReleaseTrack(x) PROVE GateInv'
  BY <1>25 DEF ReleaseTrack
<1>26. ASSUME NEW x \in Threads, ReleaseQueue(x) PROVE GateInv'
  BY <1>26 DEF ReleaseQueue
<1>27. ASSUME NEW x \in Threads, ReleaseUnref(x) PROVE GateInv'
  BY <1>27 DEF ReleaseUnref
<1>28. ASSUME NEW x \in Threads, ResetCallback(x) PROVE GateInv'
  BY <1>28 DEF ResetCallback
<1>29. ASSUME NEW x \in Threads, FlushQueue(x) PROVE GateInv'
  BY <1>29 DEF FlushQueue
<1>30. ASSUME NEW x \in Threads, FlushDrop(x) PROVE GateInv'
  BY <1>30 DEF FlushDrop
<1>31. ASSUME NEW x \in Threads, ReleaseCallback(x) PROVE GateInv'
  BY <1>31 DEF ReleaseCallback
<1>32. ASSUME NEW x \in Threads, ResetEvent(x) PROVE GateInv'
  BY <1>32 DEF ResetEvent
<1>33. ASSUME NEW x \in Threads, VblankCallback(x) PROVE GateInv'
  BY <1>33 DEF VblankCallback
<1>34. ASSUME NEW x \in Threads, ResizeCallback(x) PROVE GateInv'
  BY <1>34 DEF ResizeCallback
<1>35. ASSUME NEW x \in Threads, FlushCallback(x) PROVE GateInv'
  BY <1>35 DEF FlushCallback
<1>35o. ASSUME NEW x \in Threads, OtherEvent(x) PROVE GateInv'
  BY <1>35o DEF OtherEvent
<1>36. ASSUME NEW b \in Buffers, ServerRelease(b) PROVE GateInv'
  BY <1>36 DEF ServerRelease
<1>37. CASE Disconnect
  BY <1>37 DEF Disconnect
<1>38. CASE UNCHANGED vars
  BY <1>38 DEF vars
<1> HIDE DEF OnePoster, GateInv, EnqueuePC, Threads, TypeInv, TypeOK, ThreadTypes, queueVars,
        bufferVars, listVars, flagVars, vblankVars, threadVars, callbackVars, envVars
<1> QED
  BY <1>1, <1>2, <1>3, <1>3t, <1>4, <1>5, <1>6, <1>7, <1>7f, <1>8, <1>9, <1>9c, <1>10,
     <1>11, <1>12, <1>13, <1>14,
     <1>15, <1>16, <1>17, <1>18, <1>19, <1>20, <1>21, <1>22, <1>23, <1>24, <1>25, <1>26,
     <1>27, <1>28, <1>29, <1>30, <1>31, <1>32, <1>33, <1>34, <1>35, <1>35o, <1>36, <1>37, <1>38
     DEF Next, CallStep, CallbackStep, Begin, Finished

\* With one posting thread the compositor gets at most one frame per vblank.
THEOREM OneCommit == ASSUME OnePoster PROVE Spec => OneCommitPerVblank
<1>1. Init => TypeInv /\ GateInv
  BY TypeInit DEF Init, GateInv, EnqueuePC, Threads
<1>2. TypeInv /\ GateInv /\ [Next]_vars
         => [\A t \in AppThreads : pc[t] = "commit" /\ pc'[t] = "track" => vblankDone]_vars
  BY DEF GateInv, EnqueuePC
<1>3. TypeInv /\ GateInv /\ [Next]_vars => TypeInv' /\ GateInv'
  BY OnePoster, TypeStep, GateStep
<1> QED
  BY <1>1, <1>2, <1>3, PTL DEF Spec, OneCommitPerVblank

-----------------------------------------------------------------------------
(* The window size                                                         *)

\* wl_egl_window_resize is only called by a thread that itself dequeues, and
\* then no other thread does.
ResizeByRenderer ==
    \A x \in Threads, t \in AppThreads : "resize" \in Runs[x] /\ "dequeue" \in Runs[t] => x = t

\* While its reset callback runs the queue has the size of the window.
SizeInv ==
    /\ ResizeNotLost
    /\ \A t \in AppThreads : pc[t] = "deqReset" => "dequeue" \in Runs[t] /\ winSize = qSize

\* Every step keeps SizeInv.
LEMMA SizeStep == ResizeByRenderer /\ TypeInv /\ SizeInv /\ [Next]_vars => SizeInv'
<1> SUFFICES ASSUME ResizeByRenderer, TypeInv, SizeInv, [Next]_vars PROVE SizeInv'
  OBVIOUS
<1> USE SurfaceAssumption DEF ResizeByRenderer, SizeInv, ResizeNotLost, Threads, TypeInv, TypeOK,
        ThreadTypes, queueVars, bufferVars, listVars, flagVars, vblankVars, threadVars,
        callbackVars, envVars, Goto, GotoWith, Return, Acquire, Callback, At
<1>1. ASSUME NEW t \in AppThreads, DequeueReset(t) PROVE SizeInv'
  BY <1>1 DEF DequeueReset
<1>2. ASSUME NEW t \in AppThreads, DequeuePend(t) PROVE SizeInv'
  BY <1>2 DEF DequeuePend
<1>3. ASSUME NEW t \in AppThreads, DequeueWait(t) PROVE SizeInv'
  BY <1>3 DEF DequeueWait
<1>3t. ASSUME NEW t \in AppThreads, DequeueTest(t) PROVE SizeInv'
  BY <1>3t DEF DequeueTest
<1>4. ASSUME NEW t \in AppThreads, DequeueRelock(t) PROVE SizeInv'
  BY <1>4 DEF DequeueRelock
<1>5. ASSUME NEW t \in AppThreads, DequeueFail(t) PROVE SizeInv'
  BY <1>5 DEF DequeueFail
<1>6. ASSUME NEW t \in AppThreads, DequeueQueue(t) PROVE SizeInv'
  BY <1>6 DEF DequeueQueue
<1>7. ASSUME NEW t \in AppThreads, DequeueRef(t) PROVE SizeInv'
  BY <1>7 DEF DequeueRef
<1>7f. ASSUME NEW t \in AppThreads, DequeueFlag(t) PROVE SizeInv'
  BY <1>7f DEF DequeueFlag
<1>8. ASSUME NEW t \in AppThreads, DequeuePush(t) PROVE SizeInv'
  BY <1>8 DEF DequeuePush
<1>9. ASSUME NEW t \in AppThreads, VblankWait(t) PROVE SizeInv'
  BY <1>9 DEF VblankWait
<1>9c. ASSUME NEW t \in AppThreads, VblankCall(t) PROVE SizeInv'
  BY <1>9c DEF VblankCall
<1>10. ASSUME NEW t \in AppThreads, VblankRelock(t) PROVE SizeInv'
  BY <1>10 DEF VblankRelock
<1>11. ASSUME NEW t \in AppThreads, EnqueueTrack(t) PROVE SizeInv'
  BY <1>11 DEF EnqueueTrack
<1>12. ASSUME NEW t \in AppThreads, EnqueueCheck(t) PROVE SizeInv'
  BY <1>12 DEF EnqueueCheck
<1>13. ASSUME NEW t \in AppThreads, EnqueueUnref(t) PROVE SizeInv'
  BY <1>13 DEF EnqueueUnref
<1>14. ASSUME NEW t \in AppThreads, EnqueueAcquire(t) PROVE SizeInv'
  BY <1>14 DEF EnqueueAcquire
<1>15. ASSUME NEW t \in AppThreads, EnqueueRef(t) PROVE SizeInv'
  BY <1>15 DEF EnqueueRef
<1>16. ASSUME NEW t \in AppThreads, Commit(t) PROVE SizeInv'
  BY <1>16 DEF Commit
<1>17. ASSUME NEW t \in AppThreads, CommitTrack(t) PROVE SizeInv'
  BY <1>17 DEF CommitTrack
<1>18. ASSUME NEW t \in AppThreads, CommitArm(t) PROVE SizeInv'
  BY <1>18 DEF CommitArm
<1>19. ASSUME NEW t \in AppThreads, CommitArmed(t) PROVE SizeInv'
  BY <1>19 DEF CommitArmed
<1>20. ASSUME NEW t \in AppThreads, FiniQueue(t) PROVE SizeInv'
  BY <1>20 DEF FiniQueue
<1>21. ASSUME NEW t \in AppThreads, FiniDrop(t) PROVE SizeInv'
  BY <1>21 DEF FiniDrop
<1>22. ASSUME NEW t \in AppThreads, DequeueCall(t) PROVE SizeInv'
  BY <1>22 DEF DequeueCall
<1>23. ASSUME NEW t \in AppThreads, NEW b \in Buffers, EnqueueCall(t, b) PROVE SizeInv'
  BY <1>23 DEF EnqueueCall
<1>24. ASSUME NEW t \in AppThreads, FiniCall(t) PROVE SizeInv'
  BY <1>24 DEF FiniCall
<1>25. ASSUME NEW x \in Threads, ReleaseTrack(x) PROVE SizeInv'
  BY <1>25 DEF ReleaseTrack
<1>26. ASSUME NEW x \in Threads, ReleaseQueue(x) PROVE SizeInv'
  BY <1>26 DEF ReleaseQueue
<1>27. ASSUME NEW x \in Threads, ReleaseUnref(x) PROVE SizeInv'
  BY <1>27 DEF ReleaseUnref
<1>28. ASSUME NEW x \in Threads, ResetCallback(x) PROVE SizeInv'
  BY <1>28 DEF ResetCallback
<1>29. ASSUME NEW x \in Threads, FlushQueue(x) PROVE SizeInv'
  BY <1>29 DEF FlushQueue
<1>30. ASSUME NEW x \in Threads, FlushDrop(x) PROVE SizeInv'
  BY <1>30 DEF FlushDrop
<1>31. ASSUME NEW x \in Threads, ReleaseCallback(x) PROVE SizeInv'
  BY <1>31 DEF ReleaseCallback
<1>32. ASSUME NEW x \in Threads, ResetEvent(x) PROVE SizeInv'
  BY <1>32 DEF ResetEvent
<1>33. ASSUME NEW x \in Threads, VblankCallback(x) PROVE SizeInv'
  BY <1>33 DEF VblankCallback
<1>34. ASSUME NEW x \in Threads, ResizeCallback(x) PROVE SizeInv'
  BY <1>34 DEF ResizeCallback
<1>35. ASSUME NEW x \in Threads, FlushCallback(x) PROVE SizeInv'
  BY <1>35 DEF FlushCallback
<1>35o. ASSUME NEW x \in Threads, OtherEvent(x) PROVE SizeInv'
  BY <1>35o DEF OtherEvent
<1>36. ASSUME NEW b \in Buffers, ServerRelease(b) PROVE SizeInv'
  BY <1>36 DEF ServerRelease
<1>37. CASE Disconnect
  BY <1>37 DEF Disconnect
<1>38. CASE UNCHANGED vars
  BY <1>38 DEF vars
<1> HIDE DEF ResizeByRenderer, SizeInv, ResizeNotLost, Threads, TypeInv, TypeOK, ThreadTypes, queueVars,
        bufferVars, listVars, flagVars, vblankVars, threadVars, callbackVars, envVars
<1> QED
  BY <1>1, <1>2, <1>3, <1>3t, <1>4, <1>5, <1>6, <1>7, <1>7f, <1>8, <1>9, <1>9c, <1>10,
     <1>11, <1>12, <1>13, <1>14,
     <1>15, <1>16, <1>17, <1>18, <1>19, <1>20, <1>21, <1>22, <1>23, <1>24, <1>25, <1>26,
     <1>27, <1>28, <1>29, <1>30, <1>31, <1>32, <1>33, <1>34, <1>35, <1>35o, <1>36, <1>37, <1>38
     DEF Next, CallStep, CallbackStep, Begin, Finished

\* If the window is resized by the thread that renders, no new size is lost.
THEOREM NoResizeLost == ASSUME ResizeByRenderer PROVE Spec => []ResizeNotLost
<1>1. Init => TypeInv /\ SizeInv
  BY TypeInit DEF Init, SizeInv, ResizeNotLost, Threads
<1>2. TypeInv /\ SizeInv /\ [Next]_vars => TypeInv' /\ SizeInv'
  BY ResizeByRenderer, TypeStep, SizeStep
<1>3. SizeInv => ResizeNotLost
  BY DEF SizeInv
<1> QED
  BY <1>1, <1>2, <1>3, PTL DEF Spec
=============================================================================
