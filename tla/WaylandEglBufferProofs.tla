----------------------- MODULE WaylandEglBufferProofs -----------------------
(***************************************************************************)
(* Theorems about the buffers of WaylandEgl: their reference counts, where *)
(* each of them is, and that the whole keeps the promise of BufferFlow.    *)
(* They hold for every set of threads and buffers, every queue size, every *)
(* MaxHeld and every fault, and for every distribution of the calls and    *)
(* callbacks that is Careful.                                              *)
(***************************************************************************)
EXTENDS WaylandEglProofs, FiniteSetTheorems

\* Who resets or flushes the queue or destroys the surface is the only one that
\* dequeues and enqueues: the backend's callbacks do not take the object lock.
\* Who drops the attached buffers (flush, fini) is the only one that hears of
\* their release.  And if the compositor may release a buffer before commit()
\* has returned, the committing thread is the one that hears of it.
Careful ==
    \A x, y \in Threads : x # y =>
        /\ Runs[x] \cap {"reset", "flush", "fini"} # {} => Runs[y] \cap {"dequeue", "enqueue"} = {}
        /\ Runs[x] \cap {"flush", "fini"} # {} => "release" \notin Runs[y]
        /\ EarlyRelease /\ "enqueue" \in Runs[x] => "release" \notin Runs[y]

DequeuePC == {"deqReset", "deqPend", "deqTest", "deqWait", "deqRelock", "deqFail", "deqQueue",
              "deqRef", "deqFlag", "deqPush"}
FlushPC == {"flushPend", "flushDrop"}
FiniPC == {"finiPend", "finiDrop"}
DispatchPC == {"idle", "deqPend", "deqWait", "flushPend", "flushDrop", "finiPend"}
ReleasePC == {"relTrack", "relQueue", "relUnref"}

\* Where a thread has a buffer: from dequeue, from the application, in the queue,
\* and on its way to the compositor; and where it has a reference of its own on it.
Fetched == {"deqRef", "deqFlag", "deqPush"}
Given == {"vblCall", "vblWait", "vblRelock", "enqTrack", "enqCheck"}
Queued == {"enqUnref", "enqAcquire"}
Leaving == {"enqRef", "commit", "track"}
Bare == {"deqRef", "deqFlag"}    \* the buffer may still lack its wl_buffer
Holding == Fetched \cup Given \cup Queued \cup Leaving
Referring == Holding \ {"deqRef", "enqAcquire", "enqRef"}

\* The stages the books tell apart.
Stages == {Holding, Referring, Fetched, Given, Fetched \cup Given, Queued, Leaving,
           {"enqRef"}, Bare, {"track"}}

-----------------------------------------------------------------------------
(* The invariant                                                           *)

\* A thread is only where its calls and callbacks lead.
Role(x) ==
    /\ pc[x] \in DequeuePC => "dequeue" \in Runs[x]
    /\ pc[x] \in EnqueuePC => "enqueue" \in Runs[x]
    /\ pc[x] \in FlushPC => "flush" \in Runs[x]
    /\ pc[x] \in FiniPC => "fini" \in Runs[x]
    /\ x \notin AppThreads => pc[x] \in {"idle"} \cup FlushPC
    /\ cb[x] \in ReleasePC => "release" \in Runs[x] /\ cbBuf[x] \in Buffers
    /\ cb[x] = "resetCb" => Runs[x] \cap {"reset", "flush"} # {}
    /\ cb[x] \in {"none", "resetCb"} => cbBuf[x] = NoBuffer
    /\ cb[x] # "none" => pc[x] \in DispatchPC
    /\ cb[x] \in ReleasePC => pc[x] # "flushDrop"

RoleInv == \A x \in Threads : Role(x)

\* Each buffer is with one thread.
ThreadInv ==
    /\ \A t \in AppThreads : pc[t] \in Holding <=> buf[t] \in Buffers
    /\ \A t, x \in AppThreads : buf[t] = buf[x] /\ buf[t] \in Buffers => t = x

\* Each release event is with one callback until the buffer is free.
CallbackInv ==
    \A x, y \in Threads :
        cb[x] \in {"relTrack", "relQueue"} /\ cb[y] \in {"relTrack", "relQueue"}
           /\ cbBuf[x] = cbBuf[y] => x = y

\* A queue that was reset or flushed stays empty until the callback is over.
Emptied(x) == cb[x] = "resetCb" \/ pc[x] \in {"deqReset", "flushDrop", "finiDrop"}

Empty == \A b \in Buffers : node[b] = "none"

EmptyInv == \A x \in Threads : Emptied(x) => Empty

\* Of a surface that is gone nothing is left.
FiniInv ==
    ~alive =>
        /\ \A t \in AppThreads : pc[t] \in {"idle"} \cup FlushPC \cup FiniPC
        /\ \A x \in Threads : cb[x] \in {"none", "resetCb"}
        /\ \A b \in Buffers : node[b] = "none" /\ attached[b] = 0

\* Who works on b: a call, a callback.
Works(b, L) == \E t \in AppThreads : pc[t] \in L /\ buf[t] = b
Called(b, L) == \E x \in Threads : cb[x] \in L /\ cbBuf[x] = b
Releasers(b) == {x \in Threads : Releasing(x, b)}

\* The places where b can be outside the queue.
Places(b) ==
    One(b \in held) + One(Works(b, Holding)) + attached[b] + One(Called(b, {"relQueue"}))

\* The references on b are those of its owners.
Counted(b) ==
    /\ IsFiniteSet(Releasers(b))
    /\ ref[b] = One(node[b] # "none") + attached[b] + One(b \in held) + One(Works(b, Referring))
                + Cardinality(Releasers(b))

\* What the queue says of b agrees with where it is.
Placed(b) ==
    /\ Places(b) <= 1
    /\ node[b] = "free" => Places(b) = 0
    /\ node[b] = "dequeued" =>
          b \in held \/ Works(b, Fetched \cup Given) \/ "wl_buffer" \in Faults
    /\ node[b] = "dirty" <=> Works(b, Queued)
    /\ node[b] = "acquired" =>
          attached[b] > 0 \/ Works(b, Leaving) \/ Called(b, {"relQueue"})
    /\ Works(b, Fetched) => node[b] = "dequeued"
    /\ b \in held \/ Works(b, Given) => node[b] \in {"none", "dequeued"}
    /\ Works(b, {"enqRef"}) => node[b] = "acquired"
    /\ Works(b, Leaving) \/ attached[b] > 0 \/ Called(b, {"relQueue"}) =>
          node[b] \in {"none", "acquired"}

\* A buffer in use has its wl_buffer; a stale one is not in the queue.
Kept(b) ==
    /\ wlBuffer[b] => ref[b] > 0
    /\ Places(b) = 1 /\ ~Works(b, Bare) => wlBuffer[b]
    /\ bufReset[b] => node[b] = "none" /\ ref[b] > 0

\* attached_buffers lists what the compositor has.
Shown(b) ==
    /\ scanout[b] # "idle" =>
          ~Called(b, {"relTrack"}) /\ (attached[b] > 0 \/ Works(b, {"track"}))
    /\ Works(b, {"track"}) => scanout[b] # "idle" /\ (EarlyRelease \/ scanout[b] = "shown")
    /\ attached[b] > 0 => scanout[b] # "idle" \/ Called(b, {"relTrack"})
    /\ Called(b, {"relTrack"}) => attached[b] > 0

Entry(b) == Counted(b) /\ Placed(b) /\ Kept(b) /\ Shown(b)

Ledger == \A b \in Buffers : Entry(b)

Inv ==
    /\ TypeInv /\ LockInv /\ RoleInv /\ ThreadInv /\ CallbackInv /\ EmptyInv /\ FiniInv
    /\ Ledger

\* It holds in the beginning.
LEMMA InvInit == Init => Inv
<1> SUFFICES ASSUME Init PROVE Inv
  OBVIOUS
<1>1. TypeInv /\ LockInv
  BY TypeInit DEF Init, LockInv, LockedPC, Threads
<1>2. \A x \in Threads : pc[x] = "idle" /\ cb[x] = "none" /\ buf[x] = NoBuffer /\ cbBuf[x] = NoBuffer
  BY DEF Init
<1>3. RoleInv
  BY <1>2 DEF RoleInv, Role, DequeuePC, EnqueuePC, FlushPC, FiniPC, ReleasePC
<1>4. ThreadInv /\ CallbackInv /\ EmptyInv /\ FiniInv
  BY <1>2, SurfaceAssumption DEF Init, ThreadInv, CallbackInv, EmptyInv, Emptied, FiniInv, Holding,
     Fetched, Given, Queued, Leaving, Threads
<1>5. ASSUME NEW b \in Buffers PROVE Entry(b)
  <2>1. \A L : ~Works(b, L) /\ ~Called(b, L)
    BY <1>2, SurfaceAssumption DEF Works, Called, Threads
  <2>2. Releasers(b) = {}
    BY <1>2 DEF Releasers, Releasing
  <2>3. IsFiniteSet({}) /\ Cardinality({}) = 0
    BY FS_EmptySet
  <2>4. /\ node[b] = "none" /\ ref[b] = 0 /\ attached[b] = 0 /\ b \notin held /\ ~wlBuffer[b]
        /\ ~bufReset[b] /\ scanout[b] = "idle"
    BY DEF Init
  <2> QED BY <2>1, <2>2, <2>3, <2>4 DEF Entry, Counted, Placed, Kept, Shown, Places, One
<1> QED BY <1>1, <1>3, <1>4, <1>5 DEF Inv, Ledger

-----------------------------------------------------------------------------
(* What a step of one thread or one callback leaves alone                  *)

\* The step changes nothing that the ledger says of b itself.
SameData(b) ==
    /\ node'[b] = node[b] /\ ref'[b] = ref[b] /\ attached'[b] = attached[b]
    /\ scanout'[b] = scanout[b] /\ (b \in held' <=> b \in held)
    /\ (wlBuffer'[b] <=> wlBuffer[b]) /\ (bufReset'[b] <=> bufReset[b])

\* The part of the invariant that says where the buffers are.
Books == ThreadInv /\ CallbackInv /\ Ledger

\* Where a buffer is decides whether it is referenced and has its wl_buffer.
LEMMA EntryKept ==
    ASSUME NEW b \in Buffers, Entry(b), SameData(b), Releasers(b)' = Releasers(b),
           \A L : Called(b, L)' <=> Called(b, L),
           \A L \in Stages : Works(b, L)' <=> Works(b, L)
    PROVE  Entry(b)'
<1>1. /\ Works(b, Holding)' <=> Works(b, Holding)
      /\ Works(b, Referring)' <=> Works(b, Referring)
      /\ Works(b, Fetched)' <=> Works(b, Fetched)
      /\ Works(b, Given)' <=> Works(b, Given)
      /\ Works(b, Fetched \cup Given)' <=> Works(b, Fetched \cup Given)
      /\ Works(b, Queued)' <=> Works(b, Queued)
      /\ Works(b, Leaving)' <=> Works(b, Leaving)
      /\ Works(b, {"enqRef"})' <=> Works(b, {"enqRef"})
      /\ Works(b, Bare)' <=> Works(b, Bare)
      /\ Works(b, {"track"})' <=> Works(b, {"track"})
      /\ Called(b, {"relTrack"})' <=> Called(b, {"relTrack"})
      /\ Called(b, {"relQueue"})' <=> Called(b, {"relQueue"})
  BY DEF Stages
<1>2. Places(b)' = Places(b)
  BY <1>1 DEF Places, SameData, One
<1>3. Counted(b)'
  BY <1>1 DEF Entry, Counted, SameData, One
<1>4. Placed(b)'
  BY <1>1, <1>2 DEF Entry, Placed, SameData
<1>5. Kept(b)' /\ Shown(b)'
  BY <1>1, <1>2 DEF Entry, Kept, Shown, SameData
<1> QED BY <1>3, <1>4, <1>5 DEF Entry

\* A thread is where it has no buffer, and one that has a buffer is alone with it.
LEMMA WorksAlone ==
    ASSUME ThreadInv, NEW t \in AppThreads, buf[t] \in Buffers
    PROVE  /\ pc[t] \in Holding
           /\ \A L : Works(buf[t], L) <=> pc[t] \in L
  BY DEF ThreadInv, Works

\* Thread t goes to l and has buffer b from now on, or gives it away.
LEMMA OwnStep ==
    ASSUME Books, NEW t \in AppThreads, NEW l, NEW v, NEW b \in Buffers,
           \A u \in AppThreads : /\ pc'[u] = IF u = t THEN l ELSE pc[u]
                                 /\ buf'[u] = IF u = t THEN v ELSE buf[u],
           v \in {b, NoBuffer}, buf[t] \in {b, NoBuffer},
           l \in Holding <=> v = b,
           buf[t] = b \/ ~Works(b, Holding),
           cb' = cb, cbBuf' = cbBuf,
           \A c \in Buffers : c # b => SameData(c)
    PROVE  /\ ThreadInv' /\ CallbackInv'
           /\ \A c \in Buffers : c # b => Entry(c)'
           /\ \A L : Works(b, L)' <=> l \in L /\ l \in Holding
           /\ \A L : Called(b, L)' <=> Called(b, L)
           /\ Releasers(b)' = Releasers(b)
<1>1. \A u \in AppThreads : u # t => buf[u] # b
  BY DEF Books, ThreadInv, Works
<1>2. ThreadInv'
  <2>1. \A u \in AppThreads : pc'[u] \in Holding <=> buf'[u] \in Buffers
    BY SurfaceAssumption DEF Books, ThreadInv
  <2>2. \A u, x \in AppThreads : buf'[u] = buf'[x] /\ buf'[u] \in Buffers => u = x
    BY <1>1, SurfaceAssumption DEF Books, ThreadInv
  <2> QED BY <2>1, <2>2 DEF ThreadInv
<1>3. CallbackInv'
  BY DEF Books, CallbackInv
<1>4. \A c, L : /\ Called(c, L)' <=> Called(c, L)
                /\ Releasers(c)' = Releasers(c)
  BY DEF Called, Releasers, Releasing
<1>5. ASSUME NEW c \in Buffers, c # b PROVE Entry(c)'
  <2>1. ASSUME NEW L PROVE Works(c, L)' <=> Works(c, L)
    BY <1>5, SurfaceAssumption DEF Works
  <2>2. Entry(c) /\ SameData(c)
    BY <1>5 DEF Books, Ledger
  <2> QED BY <1>4, <2>1, <2>2, EntryKept
<1>6. ASSUME NEW L PROVE Works(b, L)' <=> l \in L /\ l \in Holding
  BY <1>1, SurfaceAssumption DEF Works
<1> QED BY <1>2, <1>3, <1>4, <1>5, <1>6

\* Nothing of the books changes but where threads are that have no buffer, or that
\* have one which is not in the queue yet.
Quiet ==
    /\ node' = node /\ ref' = ref /\ wlBuffer' = wlBuffer /\ bufReset' = bufReset
    /\ attached' = attached /\ scanout' = scanout /\ held' = held
    /\ cb' = cb /\ cbBuf' = cbBuf
    /\ \A u \in AppThreads :
          /\ buf'[u] = buf[u]
          /\ \/ pc'[u] = pc[u]
             \/ pc'[u] \notin Holding /\ pc[u] \notin Holding
             \/ pc'[u] \in Given /\ pc[u] \in Given

\* Two places of a thread that are the same stage.
LEMMA SameStage ==
    ASSUME NEW l, NEW k,
           l = k \/ (l \notin Holding /\ k \notin Holding) \/ (l \in Given /\ k \in Given)
    PROVE  \A L \in Stages : l \in L <=> k \in L
  BY DEF Stages, Holding, Referring, Fetched, Bare, Given, Queued, Leaving

\* Threads that stay in their stages work on the same buffers.
LEMMA StagesKept ==
    ASSUME NEW b \in Buffers,
           \A u \in AppThreads :
              /\ buf'[u] = buf[u]
              /\ \/ pc'[u] = pc[u]
                 \/ pc'[u] \notin Holding /\ pc[u] \notin Holding
                 \/ pc'[u] \in Given /\ pc[u] \in Given
    PROVE  \A L \in Stages : Works(b, L)' <=> Works(b, L)
<1> TAKE L \in Stages
<1>1. ASSUME NEW u \in AppThreads PROVE pc'[u] \in L <=> pc[u] \in L
  BY SameStage
<1> QED BY <1>1 DEF Works

\* A step that is quiet keeps the books.
LEMMA QuietBooks == ASSUME Books, Quiet PROVE Books'
<1>1. ThreadInv'
  <2>1. \A u \in AppThreads : buf'[u] = buf[u] /\ (pc'[u] \in Holding <=> pc[u] \in Holding)
    BY DEF Quiet, Holding
  <2> QED BY <2>1 DEF Books, ThreadInv
<1>2. CallbackInv'
  BY DEF Books, CallbackInv, Quiet
<1>3. ASSUME NEW b \in Buffers PROVE Entry(b)'
  <2>1. \A L \in Stages : Works(b, L)' <=> Works(b, L)
    BY StagesKept DEF Quiet
  <2>2. \A L : Called(b, L)' <=> Called(b, L)
    BY DEF Called, Quiet
  <2>3. Releasers(b)' = Releasers(b)
    BY DEF Releasers, Releasing, Quiet
  <2>4. Entry(b) /\ SameData(b)
    BY DEF Books, Ledger, Quiet, SameData
  <2> QED BY <2>1, <2>2, <2>3, <2>4, EntryKept
<1> QED BY <1>1, <1>2, <1>3 DEF Books, Ledger

\* The callback that x runs goes to l with buffer v: it has b from now on, or
\* drops it.
LEMMA OwnCallback ==
    ASSUME Books, NEW x \in Threads, NEW l, NEW v, NEW b \in Buffers,
           \A y \in Threads : /\ cb'[y] = IF y = x THEN l ELSE cb[y]
                              /\ cbBuf'[y] = IF y = x THEN v ELSE cbBuf[y],
           v \in {b, NoBuffer}, cbBuf[x] \in {b, NoBuffer},
           pc' = pc, buf' = buf,
           l = "relTrack" => ~Called(b, {"relTrack"}) /\ ~Called(b, {"relQueue"}),
           l = "relQueue" => cb[x] = "relTrack" /\ cbBuf[x] = b,
           v = NoBuffer => l \notin ReleasePC,
           \A c \in Buffers : c # b => SameData(c)
    PROVE  /\ ThreadInv' /\ CallbackInv'
           /\ \A c \in Buffers : c # b => Entry(c)'
           /\ \A L \in Stages : Works(b, L)' <=> Works(b, L)
           /\ \A k \in {"relTrack", "relQueue"} :
                 Called(b, {k})' <=> (v = b /\ l = k) \/ \E y \in Threads \ {x} : cb[y] = k /\ cbBuf[y] = b
           /\ Releasers(b)' = IF v = b /\ l \in {"relQueue", "relUnref"}
                              THEN Releasers(b) \cup {x} ELSE Releasers(b) \ {x}
<1>1. ThreadInv'
  BY DEF Books, ThreadInv
<1>2. CallbackInv'
  <2> SUFFICES ASSUME NEW y \in Threads, NEW z \in Threads,
                      cb'[y] \in {"relTrack", "relQueue"}, cb'[z] \in {"relTrack", "relQueue"},
                      cbBuf'[y] = cbBuf'[z]
               PROVE  y = z
    BY DEF CallbackInv
  <2>1. CASE y # x /\ z # x
    BY <2>1 DEF Books, CallbackInv
  <2>2. ASSUME NEW w \in Threads, w # x, cb[w] \in {"relTrack", "relQueue"}, cbBuf[w] = v,
               l \in {"relTrack", "relQueue"}
        PROVE  FALSE
    <3>1. v = b
      BY <2>2 DEF ReleasePC
    <3>2. CASE l = "relTrack"
      BY <2>2, <3>1, <3>2 DEF Called
    <3>3. CASE l = "relQueue"
      BY <2>2, <3>1, <3>3 DEF Books, CallbackInv
    <3> QED BY <2>2, <3>2, <3>3
  <2> QED BY <2>1, <2>2
<1>3. \A c, L : Works(c, L)' <=> Works(c, L)
  BY DEF Works
<1>4. ASSUME NEW c \in Buffers, c # b PROVE Entry(c)'
  <2>1. ASSUME NEW L PROVE Called(c, L)' <=> Called(c, L)
    BY <1>4, SurfaceAssumption DEF Called
  <2>2. Releasers(c)' = Releasers(c)
    BY <1>4, SurfaceAssumption DEF Releasers, Releasing
  <2>3. Entry(c) /\ SameData(c)
    BY <1>4 DEF Books, Ledger
  <2> QED BY <1>3, <2>1, <2>2, <2>3, EntryKept
<1>5. ASSUME NEW k \in {"relTrack", "relQueue"}
      PROVE  Called(b, {k})' <=> (v = b /\ l = k) \/ \E y \in Threads \ {x} : cb[y] = k /\ cbBuf[y] = b
  BY <1>5 DEF Called
<1>6. Releasers(b)' = IF v = b /\ l \in {"relQueue", "relUnref"}
                      THEN Releasers(b) \cup {x} ELSE Releasers(b) \ {x}
  BY SurfaceAssumption DEF Releasers, Releasing
<1> QED BY <1>1, <1>2, <1>3, <1>4, <1>5, <1>6

\* A buffer with a place has a reference and, unless it was just dequeued, its
\* wl_buffer; one with a node or a place has a reference.
LEMMA Referenced ==
    ASSUME NEW b \in Buffers, Counted(b), attached[b] \in Nat,
           node[b] # "none" \/ attached[b] > 0 \/ b \in held \/ Works(b, Referring)
              \/ Called(b, {"relQueue"}) \/ Releasers(b) # {}
    PROVE  ref[b] > 0
<1>1. Called(b, {"relQueue"}) => Releasers(b) # {}
  BY DEF Called, Releasers, Releasing
<1>2. Cardinality(Releasers(b)) \in Nat
  BY FS_CardinalityType DEF Counted
<1>3. Releasers(b) # {} => Cardinality(Releasers(b)) # 0
  BY FS_EmptySet DEF Counted
<1> QED BY <1>1, <1>2, <1>3 DEF Counted, One

-----------------------------------------------------------------------------
(* The steps that change every buffer                                      *)

\* The numbers the ledger adds.
LEMMA Numbers ==
    ASSUME TypeInv, NEW b \in Buffers
    PROVE  /\ ref[b] \in Nat /\ attached[b] \in Nat
           /\ node[b] \in NodeState /\ scanout[b] \in Scanout
           /\ wlBuffer[b] \in BOOLEAN /\ bufReset[b] \in BOOLEAN
  BY DEF TypeInv, TypeOK, QueueTypes, BufferTypes, ListTypes

\* The threads stay in their stages, and no release callback begins or goes on.
Still ==
    /\ \A u \in AppThreads :
          /\ buf'[u] = buf[u]
          /\ \/ pc'[u] = pc[u]
             \/ pc'[u] \notin Holding /\ pc[u] \notin Holding
             \/ pc'[u] \in Given /\ pc[u] \in Given
    /\ \A y \in Threads :
          /\ cbBuf'[y] = cbBuf[y]
          /\ cb'[y] = cb[y] \/ (cb'[y] \notin ReleasePC /\ cb[y] \notin ReleasePC)

\* Then every buffer is with the thread and the callback it was with.
LEMMA StillBooks ==
    ASSUME ThreadInv, CallbackInv, Still
    PROVE  /\ ThreadInv' /\ CallbackInv'
           /\ \A b \in Buffers : \A L \in Stages : Works(b, L)' <=> Works(b, L)
           /\ \A b \in Buffers : /\ Called(b, {"relTrack"})' <=> Called(b, {"relTrack"})
                                 /\ Called(b, {"relQueue"})' <=> Called(b, {"relQueue"})
                                 /\ Releasers(b)' = Releasers(b)
<1>1. ThreadInv'
  <2>1. \A u \in AppThreads : buf'[u] = buf[u] /\ (pc'[u] \in Holding <=> pc[u] \in Holding)
    BY DEF Still, Holding
  <2> QED BY <2>1 DEF ThreadInv
<1>2. \A b \in Buffers : \A L \in Stages : Works(b, L)' <=> Works(b, L)
  BY StagesKept DEF Still
<1>3. \A y \in Threads : /\ cbBuf'[y] = cbBuf[y]
                         /\ cb'[y] = "relTrack" <=> cb[y] = "relTrack"
                         /\ cb'[y] = "relQueue" <=> cb[y] = "relQueue"
                         /\ cb'[y] = "relUnref" <=> cb[y] = "relUnref"
  BY DEF Still, ReleasePC
<1>4. CallbackInv'
  BY <1>3 DEF CallbackInv
<1>5. \A b \in Buffers : /\ Called(b, {"relTrack"})' <=> Called(b, {"relTrack"})
                         /\ Called(b, {"relQueue"})' <=> Called(b, {"relQueue"})
                         /\ Releasers(b)' = Releasers(b)
  BY <1>3 DEF Called, Releasers, Releasing
<1> QED BY <1>1, <1>2, <1>4, <1>5

\* The queue forgets its buffers while no thread has one in it.
LEMMA ClearBooks ==
    ASSUME TypeInv, Books, ClearQueue, Still, attached' = attached, held' = held,
           \A u \in AppThreads : pc[u] \in Holding => pc[u] \in Given
    PROVE  Books'
<1>1. ASSUME NEW b \in Buffers PROVE Entry(b)'
  <2>1. /\ Counted(b) /\ Placed(b) /\ Kept(b) /\ Shown(b)
        /\ ref[b] \in Nat /\ attached[b] \in Nat /\ attached'[b] = attached[b]
        /\ (b \in held' <=> b \in held)
    BY Numbers DEF Books, Ledger, Entry
  <2>2. /\ Works(b, Holding)' <=> Works(b, Holding)
        /\ Works(b, Referring)' <=> Works(b, Referring)
        /\ Works(b, Bare)' <=> Works(b, Bare)
        /\ Called(b, {"relTrack"})' <=> Called(b, {"relTrack"})
        /\ Called(b, {"relQueue"})' <=> Called(b, {"relQueue"})
        /\ Releasers(b)' = Releasers(b)
    BY StillBooks DEF Books, Stages
  <2>3. /\ ~Works(b, Queued) /\ ~Works(b, Fetched) /\ ~Works(b, {"enqRef"})
        /\ ~Works(b, {"track"}) /\ ~Works(b, Bare)
        /\ ~Works(b, Queued)' /\ ~Works(b, Fetched)' /\ ~Works(b, {"enqRef"})'
        /\ ~Works(b, {"track"})' /\ ~Works(b, Bare)'
    <3>1. \A L \in {Queued, Fetched, {"enqRef"}, {"track"}, Bare} : ~Works(b, L)
      BY DEF Works, Holding, Given, Queued, Fetched, Bare, Leaving
    <3> QED BY <3>1, StillBooks DEF Books, Stages
  <2>4. Works(b, Holding) <=> Works(b, Referring)
    BY DEF Works, Holding, Given, Queued, Fetched, Leaving, Referring
  <2>5. /\ node'[b] = "none"
        /\ ref'[b] = IF node[b] = "none" THEN ref[b] ELSE Decremented(ref[b])
        /\ wlBuffer'[b] <=> wlBuffer[b] /\ ref'[b] > 0
        /\ bufReset'[b] <=> bufReset[b] /\ ref'[b] > 0
        /\ scanout'[b] = IF ref'[b] > 0 THEN scanout[b] ELSE "idle"
    BY DEF TypeInv, TypeOK, QueueTypes, ClearQueue, Cleared, CountsBecome, QueueRefsDropped
  <2>6. IsFiniteSet(Releasers(b)) /\ Cardinality(Releasers(b)) \in Nat
    BY <2>1, FS_CardinalityType DEF Counted
  <2>7. ref'[b] = attached[b] + One(b \in held) + One(Works(b, Referring)) + Cardinality(Releasers(b))
    BY <2>1, <2>5, <2>6 DEF Counted, One, Decremented
  <2>8. Counted(b)'
    BY <2>1, <2>2, <2>5, <2>6, <2>7 DEF Counted, One
  <2>9. Places(b)' = Places(b)
    BY <2>1, <2>2 DEF Places, One
  <2>10. Placed(b)'
    BY <2>1, <2>2, <2>3, <2>5, <2>9 DEF Placed
  <2>11. attached[b] > 0 \/ b \in held \/ Works(b, Referring) \/ Called(b, {"relQueue"})
            => ref'[b] > 0
    <3>1. Called(b, {"relQueue"}) => Cardinality(Releasers(b)) # 0
      BY <2>6, FS_EmptySet DEF Called, Releasers, Releasing
    <3> QED BY <2>1, <2>6, <2>7, <3>1 DEF One
  <2>12. Kept(b)'
    <3>1. Places(b) = 1 => ref'[b] > 0
      BY <2>1, <2>4, <2>11 DEF Places, One
    <3> QED BY <2>1, <2>3, <2>5, <2>9, <3>1 DEF Kept
  <2>13. Shown(b)'
    BY <2>1, <2>2, <2>3, <2>5, <2>11 DEF Shown
  <2> QED BY <2>8, <2>10, <2>12, <2>13 DEF Entry
<1> QED BY <1>1, StillBooks DEF Books, Ledger

\* The reset callback flags the buffers of an empty queue.
LEMMA FlagBooks ==
    ASSUME TypeInv, Books, Empty, bufReset' = Flagged, Still,
           node' = node, ref' = ref, wlBuffer' = wlBuffer, scanout' = scanout,
           attached' = attached, held' = held
    PROVE  Books'
<1>1. ASSUME NEW b \in Buffers PROVE Entry(b)'
  <2>1. /\ Counted(b) /\ Placed(b) /\ Kept(b) /\ Shown(b) /\ node[b] = "none"
    BY DEF Books, Ledger, Entry, Empty
  <2>2. /\ \A L \in Stages : Works(b, L)' <=> Works(b, L)
        /\ Called(b, {"relTrack"})' <=> Called(b, {"relTrack"})
        /\ Called(b, {"relQueue"})' <=> Called(b, {"relQueue"})
        /\ Releasers(b)' = Releasers(b)
    BY StillBooks DEF Books
  <2>3. /\ Works(b, Holding)' <=> Works(b, Holding)
        /\ Works(b, Referring)' <=> Works(b, Referring)
        /\ Works(b, Fetched)' <=> Works(b, Fetched)
        /\ Works(b, Given)' <=> Works(b, Given)
        /\ Works(b, Fetched \cup Given)' <=> Works(b, Fetched \cup Given)
        /\ Works(b, Queued)' <=> Works(b, Queued)
        /\ Works(b, Leaving)' <=> Works(b, Leaving)
        /\ Works(b, {"enqRef"})' <=> Works(b, {"enqRef"})
        /\ Works(b, Bare)' <=> Works(b, Bare)
        /\ Works(b, {"track"})' <=> Works(b, {"track"})
    BY <2>2 DEF Stages
  <2>4. Places(b)' = Places(b)
    BY <2>2, <2>3 DEF Places, One
  <2>5. Counted(b)'
    BY <2>1, <2>2, <2>3 DEF Counted, One
  <2>6. Placed(b)'
    BY <2>1, <2>2, <2>3, <2>4 DEF Placed
  <2>7. bufReset'[b] => bufReset[b] \/ wlBuffer[b]
    BY DEF Flagged
  <2>8. Kept(b)' /\ Shown(b)'
    BY <2>1, <2>2, <2>3, <2>4, <2>7 DEF Kept, Shown
  <2> QED BY <2>5, <2>6, <2>8 DEF Entry
<1> QED BY <1>1, StillBooks DEF Books, Ledger

\* The attached buffers are dropped when nobody works on one or hears of its
\* release and the queue is empty.
LEMMA DropBooks ==
    ASSUME TypeInv, Books, Empty, DropAttached, Still, node' = node, held' = held,
           \A y \in Threads : cb[y] \notin ReleasePC,
           \A u \in AppThreads : pc[u] \notin Holding
    PROVE  Books'
<1>1. ASSUME NEW b \in Buffers PROVE Entry(b)'
  <2>1. /\ Counted(b) /\ Placed(b) /\ Kept(b) /\ Shown(b) /\ node[b] = "none" /\ node'[b] = "none"
        /\ ref[b] \in Nat /\ attached[b] \in Nat /\ attached'[b] = 0
        /\ (b \in held' <=> b \in held)
    BY Numbers DEF Books, Ledger, Entry, Empty, DropAttached
  <2>2. \A L \in Stages : ~Works(b, L)
    BY DEF Works, Stages, Holding, Referring, Fetched, Bare, Given, Queued, Leaving
  <2>3. /\ ~Called(b, {"relTrack"}) /\ ~Called(b, {"relQueue"}) /\ Releasers(b) = {}
    BY DEF Called, Releasers, Releasing, ReleasePC
  <2>4. /\ \A L \in Stages : ~Works(b, L)'
        /\ ~Called(b, {"relTrack"})' /\ ~Called(b, {"relQueue"})' /\ Releasers(b)' = {}
    BY <2>2, <2>3, StillBooks DEF Books
  <2>5. /\ ~Works(b, Holding) /\ ~Works(b, Referring)
        /\ ~Works(b, Holding)' /\ ~Works(b, Referring)' /\ ~Works(b, Fetched)' /\ ~Works(b, Given)'
        /\ ~Works(b, Fetched \cup Given)' /\ ~Works(b, Queued)' /\ ~Works(b, Leaving)'
        /\ ~Works(b, {"enqRef"})' /\ ~Works(b, Bare)' /\ ~Works(b, {"track"})'
    BY <2>2, <2>4 DEF Stages
  <2>6. /\ ref'[b] = IF attached[b] >= ref[b] THEN 0 ELSE ref[b] - attached[b]
        /\ wlBuffer'[b] <=> wlBuffer[b] /\ ref'[b] > 0
        /\ bufReset'[b] <=> bufReset[b] /\ ref'[b] > 0
        /\ scanout'[b] = IF ref'[b] > 0 THEN scanout[b] ELSE "idle"
    BY DEF DropAttached, CountsBecome
  <2>7. IsFiniteSet({}) /\ Cardinality({}) = 0
    BY FS_EmptySet
  <2>8. ref[b] = attached[b] + One(b \in held) /\ attached[b] + One(b \in held) <= 1
    BY <2>1, <2>3, <2>5, <2>7 DEF Counted, Placed, Places, One
  <2>9. ref'[b] = One(b \in held)
    BY <2>1, <2>6, <2>8 DEF One
  <2>10. Counted(b)'
    BY <2>1, <2>4, <2>5, <2>7, <2>9 DEF Counted, One
  <2>11. Places(b)' = One(b \in held)
    BY <2>1, <2>4, <2>5 DEF Places, One
  <2>12. Placed(b)'
    BY <2>1, <2>4, <2>5, <2>11 DEF Placed, One
  <2>13. Places(b) = attached[b] + One(b \in held)
    BY <2>1, <2>3, <2>5 DEF Places, One
  <2>14. Kept(b)'
    <3>1. ~Works(b, Bare)
      BY <2>2 DEF Stages
    <3> QED BY <2>1, <2>6, <2>8, <2>9, <2>11, <2>13, <3>1 DEF Kept, One
  <2>15. Shown(b)'
    <3>1. ~Works(b, {"track"})
      BY <2>2 DEF Stages
    <3> QED BY <2>1, <2>4, <2>5, <2>6, <2>8, <2>9, <3>1 DEF Shown, One
  <2> QED BY <2>10, <2>12, <2>14, <2>15 DEF Entry
<1> QED BY <1>1, StillBooks DEF Books, Ledger

-----------------------------------------------------------------------------
(* The steps of a thread with its buffer                                   *)

\* What is known of the buffer a thread has.
LEMMA OwnEntry ==
    ASSUME Inv, NEW t \in AppThreads, pc[t] \in Holding
    PROVE  /\ buf[t] \in Buffers
           /\ Counted(buf[t]) /\ Placed(buf[t]) /\ Kept(buf[t]) /\ Shown(buf[t])
           /\ ref[buf[t]] \in Nat /\ attached[buf[t]] \in Nat
           /\ IsFiniteSet(Releasers(buf[t])) /\ Cardinality(Releasers(buf[t])) \in Nat
           /\ \A L : Works(buf[t], L) <=> pc[t] \in L
<1>1. buf[t] \in Buffers
  BY DEF Inv, ThreadInv
<1>2. Counted(buf[t]) /\ Placed(buf[t]) /\ Kept(buf[t]) /\ Shown(buf[t])
  BY <1>1 DEF Inv, Ledger, Entry
<1>3. IsFiniteSet(Releasers(buf[t])) /\ Cardinality(Releasers(buf[t])) \in Nat
  BY <1>2, FS_CardinalityType DEF Counted
<1> QED BY <1>1, <1>2, <1>3, WorksAlone, Numbers DEF Inv

\* The buffer goes to the application with its reference.
LEMMA DequeuePushBooks == ASSUME Inv, NEW t \in AppThreads, DequeuePush(t) PROVE Books'
<1>1. PICK b : b = buf[t]
  OBVIOUS
<1>2. pc[t] = "deqPush" /\ pc[t] \in Holding
  BY DEF DequeuePush, At, Holding, Fetched
<1>3. /\ b \in Buffers /\ Counted(b) /\ Placed(b) /\ Kept(b) /\ Shown(b)
      /\ ref[b] \in Nat /\ attached[b] \in Nat
      /\ IsFiniteSet(Releasers(b)) /\ Cardinality(Releasers(b)) \in Nat
      /\ \A L : Works(b, L) <=> "deqPush" \in L
  BY <1>1, <1>2, OwnEntry
<1>4. /\ node' = node /\ ref' = ref /\ wlBuffer' = wlBuffer /\ bufReset' = bufReset
      /\ scanout' = scanout /\ attached' = attached /\ held' = held \cup {b}
      /\ cb' = cb /\ cbBuf' = cbBuf
      /\ \A u \in AppThreads : /\ pc'[u] = IF u = t THEN "idle" ELSE pc[u]
                               /\ buf'[u] = IF u = t THEN NoBuffer ELSE buf[u]
  BY <1>1 DEF Inv, TypeInv, TypeOK, ThreadTypes, Threads, DequeuePush, bufferVars, callbackVars, queueVars,
     Return, GotoWith, Goto
<1>5. /\ ThreadInv' /\ CallbackInv'
      /\ \A c \in Buffers : c # b => Entry(c)'
      /\ \A L : ~Works(b, L)'
      /\ \A L : Called(b, L)' <=> Called(b, L)
      /\ Releasers(b)' = Releasers(b)
  <2>1. \A c \in Buffers : c # b => SameData(c)
    BY <1>4 DEF SameData
  <2>2. "idle" \notin Holding /\ b # NoBuffer
    BY <1>3, SurfaceAssumption DEF Holding, Fetched, Given, Queued, Leaving
  <2> QED BY <1>1, <1>3, <1>4, <2>1, <2>2, OwnStep DEF Inv, Books
<1>6. /\ Works(b, Holding) /\ Works(b, Referring) /\ Works(b, Fetched) /\ ~Works(b, Bare) /\ ~Works(b, {"track"})
  BY <1>3 DEF Holding, Referring, Fetched, Bare, Given, Queued, Leaving
<1>7. Counted(b)'
  BY <1>3, <1>4, <1>5, <1>6 DEF Counted, Placed, Places, One
<1>8. Placed(b)'
  BY <1>3, <1>4, <1>5, <1>6 DEF Placed, Places, One
<1>9. Kept(b)' /\ Shown(b)'
  BY <1>3, <1>4, <1>5, <1>6 DEF Placed, Places, Kept, Shown, One
<1> QED BY <1>5, <1>7, <1>8, <1>9 DEF Books, Ledger, Entry

\* The call takes its reference.
LEMMA DequeueRefBooks == ASSUME Inv, NEW t \in AppThreads, DequeueRef(t) PROVE Books'
<1>1. PICK b : b = buf[t]
  OBVIOUS
<1>2. pc[t] = "deqRef" /\ pc[t] \in Holding
  BY DEF DequeueRef, At, Holding, Fetched
<1>3. /\ b \in Buffers /\ Counted(b) /\ Placed(b) /\ Kept(b) /\ Shown(b)
      /\ ref[b] \in Nat /\ attached[b] \in Nat
      /\ IsFiniteSet(Releasers(b)) /\ Cardinality(Releasers(b)) \in Nat
      /\ \A L : Works(b, L) <=> "deqRef" \in L
  BY <1>1, <1>2, OwnEntry
<1>4. /\ Works(b, Holding) /\ ~Works(b, Referring) /\ Works(b, Fetched) /\ Works(b, Bare)
      /\ ~Works(b, {"track"}) /\ ~Works(b, Queued)
  BY <1>3 DEF Holding, Referring, Fetched, Bare, Given, Queued, Leaving
<1>5. b \in Buffers /\ b # NoBuffer /\ "deqFlag" \in Holding
  BY <1>3, SurfaceAssumption DEF Holding, Fetched, Given, Queued, Leaving
<1>6. /\ node' = node /\ wlBuffer' = wlBuffer /\ bufReset' = bufReset /\ scanout' = scanout
      /\ attached' = attached /\ held' = held /\ cb' = cb /\ cbBuf' = cbBuf
      /\ \A u \in AppThreads : /\ pc'[u] = IF u = t THEN "deqFlag" ELSE pc[u]
                               /\ buf'[u] = IF u = t THEN b ELSE buf[u]
  BY <1>1 DEF DequeueRef, queueVars, listVars, callbackVars, Inv, TypeInv, TypeOK, ThreadTypes,
     Threads, Goto
<1>7. ref'[b] = ref[b] + 1 /\ \A c \in Buffers : c # b => SameData(c)
  BY <1>1, <1>3, <1>6 DEF DequeueRef, Inv, TypeInv, TypeOK, BufferTypes, SameData
<1>8. /\ ThreadInv' /\ CallbackInv'
      /\ \A c \in Buffers : c # b => Entry(c)'
      /\ \A L : Works(b, L)' <=> "deqFlag" \in L
      /\ \A L : Called(b, L)' <=> Called(b, L)
      /\ Releasers(b)' = Releasers(b)
  BY <1>1, <1>5, <1>6, <1>7, OwnStep DEF Inv, Books
<1>9. /\ Works(b, Holding)' /\ Works(b, Referring)' /\ Works(b, Fetched)' /\ ~Works(b, Given)'
      /\ Works(b, Fetched \cup Given)' /\ ~Works(b, Queued)' /\ ~Works(b, Leaving)'
      /\ ~Works(b, {"enqRef"})' /\ Works(b, Bare)' /\ ~Works(b, {"track"})'
  BY <1>8 DEF Holding, Referring, Fetched, Bare, Given, Queued, Leaving
<1>10. Counted(b)'
  BY <1>3, <1>4, <1>6, <1>7, <1>8, <1>9 DEF Counted, One
<1>11. Placed(b)'
  BY <1>3, <1>4, <1>6, <1>8, <1>9 DEF Placed, Places, One
<1>12. Kept(b)' /\ Shown(b)'
  BY <1>3, <1>4, <1>6, <1>7, <1>8, <1>9 DEF Kept, Shown
<1> QED BY <1>8, <1>10, <1>11, <1>12 DEF Books, Ledger, Entry

\* A buffer without a reference has no wl_buffer, is not stale and not shown.
LEMMA Unreferenced ==
    ASSUME TypeInv, NEW b \in Buffers, Entry(b)
    PROVE  ref[b] > 0 \/ (~wlBuffer[b] /\ ~bufReset[b] /\ scanout[b] = "idle")
<1>1. /\ Counted(b) /\ Kept(b) /\ Shown(b) /\ ref[b] \in Nat /\ attached[b] \in Nat
  BY Numbers DEF Entry
<1>2. Works(b, {"track"}) => Works(b, Referring)
  BY DEF Works, Referring, Holding, Fetched, Leaving
<1>3. attached[b] > 0 \/ Works(b, Referring) => ref[b] > 0
  BY <1>1, Referenced
<1> QED BY <1>1, <1>2, <1>3 DEF Kept, Shown

\* The buffer has, or gets, its wl_buffer and is fresh; or the call gives it up
\* with the reference it took.
LEMMA DequeueFlagBooks == ASSUME Inv, NEW t \in AppThreads, DequeueFlag(t) PROVE Books'
<1>1. PICK b : b = buf[t]
  OBVIOUS
<1>2. pc[t] = "deqFlag" /\ pc[t] \in Holding
  BY DEF DequeueFlag, At, Holding, Fetched
<1>3. /\ b \in Buffers /\ Counted(b) /\ Placed(b) /\ Kept(b) /\ Shown(b)
      /\ ref[b] \in Nat /\ attached[b] \in Nat
      /\ IsFiniteSet(Releasers(b)) /\ Cardinality(Releasers(b)) \in Nat
      /\ \A L : Works(b, L) <=> "deqFlag" \in L
  BY <1>1, <1>2, OwnEntry
<1>4. /\ Works(b, Holding) /\ Works(b, Referring) /\ Works(b, Fetched) /\ ~Works(b, {"track"})
      /\ ~Works(b, Queued)
  BY <1>3 DEF Holding, Referring, Fetched, Bare, Given, Queued, Leaving
<1>5. b \in Buffers /\ b # NoBuffer /\ "idle" \notin Holding /\ "deqPush" \in Holding
  BY <1>3, SurfaceAssumption DEF Holding, Fetched, Given, Queued, Leaving
<1>6. /\ node' = node /\ attached' = attached /\ held' = held
      /\ cb' = cb /\ cbBuf' = cbBuf
  BY DEF DequeueFlag, queueVars, listVars, callbackVars
<1>7. node[b] = "dequeued" /\ ref[b] >= 2
  BY <1>3, <1>4 DEF Counted, Placed, One
<1>8. CASE /\ ref' = ref /\ scanout' = scanout
           /\ wlBuffer' = [wlBuffer EXCEPT ![b] = TRUE]
           /\ bufReset' = [bufReset EXCEPT ![b] = FALSE]
           /\ Goto(t, "deqPush") /\ buf' = buf
  <2>1. /\ wlBuffer'[b] /\ ~bufReset'[b]
        /\ \A c \in Buffers : c # b => SameData(c)
    BY <1>3, <1>6, <1>8 DEF Inv, TypeInv, TypeOK, BufferTypes, SameData
  <2>2. \A u \in AppThreads : /\ pc'[u] = IF u = t THEN "deqPush" ELSE pc[u]
                              /\ buf'[u] = IF u = t THEN b ELSE buf[u]
    BY <1>1, <1>8 DEF Inv, TypeInv, TypeOK, ThreadTypes, Threads, Goto
  <2>3. /\ ThreadInv' /\ CallbackInv'
        /\ \A c \in Buffers : c # b => Entry(c)'
        /\ \A L : Works(b, L)' <=> "deqPush" \in L
        /\ \A L : Called(b, L)' <=> Called(b, L)
        /\ Releasers(b)' = Releasers(b)
    BY <1>1, <1>5, <1>6, <2>1, <2>2, OwnStep DEF Inv, Books
  <2>4. /\ Works(b, Holding)' /\ Works(b, Referring)' /\ Works(b, Fetched)' /\ ~Works(b, Given)'
        /\ Works(b, Fetched \cup Given)' /\ ~Works(b, Queued)' /\ ~Works(b, Leaving)'
        /\ ~Works(b, {"enqRef"})' /\ ~Works(b, {"track"})'
    BY <2>3 DEF Holding, Referring, Fetched, Bare, Given, Queued, Leaving
  <2>5. Counted(b)' /\ Placed(b)'
    BY <1>3, <1>4, <1>6, <1>8, <2>3, <2>4 DEF Counted, Placed, Places, One
  <2>6. Kept(b)' /\ Shown(b)'
    BY <1>3, <1>4, <1>6, <1>7, <1>8, <2>1, <2>3, <2>4 DEF Kept, Shown
  <2> QED BY <2>3, <2>5, <2>6 DEF Books, Ledger, Entry
<1>9. CASE "wl_buffer" \in Faults /\ Return(t) /\ Unref(b)
  <2>1. /\ ref' = [ref EXCEPT ![b] = Decremented(@)]
        /\ \A c \in Buffers : /\ wlBuffer'[c] <=> wlBuffer[c] /\ ref'[c] > 0
                              /\ bufReset'[c] <=> bufReset[c] /\ ref'[c] > 0
                              /\ scanout'[c] = IF ref'[c] > 0 THEN scanout[c] ELSE "idle"
    BY <1>9 DEF Unref, CountsBecome
  <2>2. ref'[b] = ref[b] - 1 /\ ref'[b] > 0 /\ \A c \in Buffers : c # b => ref'[c] = ref[c]
    BY <1>3, <1>7, <2>1 DEF Decremented, Inv, TypeInv, TypeOK, BufferTypes
  <2>3. /\ wlBuffer'[b] <=> wlBuffer[b]
        /\ bufReset'[b] <=> bufReset[b]
        /\ scanout'[b] = scanout[b]
    BY <1>3, <2>1, <2>2
  <2>4. ASSUME NEW c \in Buffers, c # b PROVE SameData(c)
    <3>1. ref'[c] = ref[c] /\ Entry(c) /\ TypeInv
      BY <2>2, <2>4 DEF Inv, Ledger
    <3>2. ref[c] > 0 \/ (~wlBuffer[c] /\ ~bufReset[c] /\ scanout[c] = "idle")
      BY <3>1, Unreferenced
    <3> QED BY <1>6, <2>1, <3>1, <3>2 DEF SameData
  <2>5. \A u \in AppThreads : /\ pc'[u] = IF u = t THEN "idle" ELSE pc[u]
                              /\ buf'[u] = IF u = t THEN NoBuffer ELSE buf[u]
    BY <1>1, <1>9 DEF Inv, TypeInv, TypeOK, ThreadTypes, Threads, Return, Goto, GotoWith
  <2>6. /\ ThreadInv' /\ CallbackInv'
        /\ \A c \in Buffers : c # b => Entry(c)'
        /\ \A L : ~Works(b, L)'
        /\ \A L : Called(b, L)' <=> Called(b, L)
        /\ Releasers(b)' = Releasers(b)
    BY <1>1, <1>5, <1>6, <2>4, <2>5, OwnStep DEF Inv, Books
  <2>7. Counted(b)' /\ Placed(b)'
    BY <1>3, <1>4, <1>6, <1>7, <1>9, <2>2, <2>6 DEF Counted, Placed, Places, One
  <2>8. Kept(b)' /\ Shown(b)'
    BY <1>3, <1>4, <1>6, <1>7, <2>2, <2>3, <2>6 DEF Kept, Shown, Placed, Places, One
  <2> QED BY <2>6, <2>7, <2>8 DEF Books, Ledger, Entry
<1> QED BY <1>1, <1>8, <1>9 DEF DequeueFlag

\* A buffer of the queue becomes dirty; one the queue does not know, or that a
\* reset flagged, goes past it.
LEMMA EnqueueCheckBooks == ASSUME Inv, NEW t \in AppThreads, EnqueueCheck(t) PROVE Books'
<1>1. PICK b : b = buf[t]
  OBVIOUS
<1>2. pc[t] = "enqCheck" /\ pc[t] \in Holding
  BY DEF EnqueueCheck, At, Holding, Given
<1>3. /\ b \in Buffers /\ Counted(b) /\ Placed(b) /\ Kept(b) /\ Shown(b)
      /\ ref[b] \in Nat /\ attached[b] \in Nat
      /\ IsFiniteSet(Releasers(b)) /\ Cardinality(Releasers(b)) \in Nat
      /\ \A L : Works(b, L) <=> "enqCheck" \in L
  BY <1>1, <1>2, OwnEntry
<1>4. /\ Works(b, Holding) /\ Works(b, Referring) /\ Works(b, Given) /\ ~Works(b, {"track"})
      /\ ~Works(b, Queued) /\ ~Works(b, Bare)
  BY <1>3 DEF Holding, Referring, Fetched, Bare, Given, Queued, Leaving
<1>5. b \in Buffers /\ b # NoBuffer /\ "commit" \in Holding /\ "enqUnref" \in Holding
  BY <1>3, SurfaceAssumption DEF Holding, Fetched, Given, Queued, Leaving
<1>6. /\ ref' = ref /\ wlBuffer' = wlBuffer /\ bufReset' = bufReset
      /\ scanout' = scanout /\ attached' = attached /\ held' = held
      /\ cb' = cb /\ cbBuf' = cbBuf
  BY DEF EnqueueCheck, bufferVars, listVars, callbackVars
<1>7. wlBuffer[b] /\ Places(b) = 1
  BY <1>3, <1>4 DEF Placed, Places, Kept, One
<1>8. CASE node[b] = "none" /\ node' = node /\ Goto(t, "commit") /\ buf' = buf
  <2>1. \A c \in Buffers : SameData(c)
    BY <1>6, <1>8 DEF SameData
  <2>2. \A u \in AppThreads : /\ pc'[u] = IF u = t THEN "commit" ELSE pc[u]
                              /\ buf'[u] = IF u = t THEN b ELSE buf[u]
    BY <1>1, <1>8 DEF Inv, TypeInv, TypeOK, ThreadTypes, Threads, Goto
  <2>3. /\ ThreadInv' /\ CallbackInv'
        /\ \A c \in Buffers : c # b => Entry(c)'
        /\ \A L : Works(b, L)' <=> "commit" \in L
        /\ \A L : Called(b, L)' <=> Called(b, L)
        /\ Releasers(b)' = Releasers(b)
    BY <1>1, <1>5, <1>6, <2>1, <2>2, OwnStep DEF Inv, Books
  <2>4. /\ Works(b, Holding)' /\ Works(b, Referring)' /\ ~Works(b, Fetched)' /\ ~Works(b, Given)'
        /\ ~Works(b, Queued)' /\ Works(b, Leaving)' /\ ~Works(b, {"enqRef"})' /\ ~Works(b, {"track"})'
        /\ ~Works(b, Bare)'
    BY <2>3 DEF Holding, Referring, Fetched, Bare, Given, Queued, Leaving
  <2>5. Counted(b)' /\ Placed(b)'
    BY <1>3, <1>4, <1>6, <1>8, <2>3, <2>4 DEF Counted, Placed, Places, One
  <2>6. Kept(b)' /\ Shown(b)'
    BY <1>3, <1>4, <1>6, <1>7, <1>8, <2>3, <2>4 DEF Kept, Shown
  <2> QED BY <2>3, <2>5, <2>6 DEF Books, Ledger, Entry
<1>9. CASE /\ ~bufReset[b] /\ node[b] # "none" /\ node' = [node EXCEPT ![b] = "dirty"]
           /\ Goto(t, "enqUnref") /\ buf' = buf
  <2>1. node'[b] = "dirty" /\ \A c \in Buffers : c # b => SameData(c)
    BY <1>3, <1>6, <1>9 DEF Inv, TypeInv, TypeOK, QueueTypes, SameData
  <2>2. \A u \in AppThreads : /\ pc'[u] = IF u = t THEN "enqUnref" ELSE pc[u]
                              /\ buf'[u] = IF u = t THEN b ELSE buf[u]
    BY <1>1, <1>9 DEF Inv, TypeInv, TypeOK, ThreadTypes, Threads, Goto
  <2>3. /\ ThreadInv' /\ CallbackInv'
        /\ \A c \in Buffers : c # b => Entry(c)'
        /\ \A L : Works(b, L)' <=> "enqUnref" \in L
        /\ \A L : Called(b, L)' <=> Called(b, L)
        /\ Releasers(b)' = Releasers(b)
    BY <1>1, <1>5, <1>6, <2>1, <2>2, OwnStep DEF Inv, Books
  <2>4. /\ Works(b, Holding)' /\ Works(b, Referring)' /\ ~Works(b, Fetched)' /\ ~Works(b, Given)'
        /\ Works(b, Queued)' /\ ~Works(b, Leaving)' /\ ~Works(b, {"enqRef"})' /\ ~Works(b, {"track"})'
        /\ ~Works(b, Bare)'
    BY <2>3 DEF Holding, Referring, Fetched, Bare, Given, Queued, Leaving
  <2>5. attached[b] = 0 /\ b \notin held /\ ~Called(b, {"relQueue"})
    <3>1. attached[b] \in Nat
      BY <1>3
    <3> QED BY <1>4, <1>7, <3>1 DEF Places, One
  <2>6. Counted(b)'
    BY <1>3, <1>4, <1>6, <1>9, <2>1, <2>3, <2>4 DEF Counted, One
  <2>7. Placed(b)'
    <3>1. Places(b)' = 1
      BY <1>6, <2>3, <2>4, <2>5 DEF Places, One
    <3> QED BY <1>6, <2>1, <2>3, <2>4, <2>5, <3>1 DEF Placed
  <2>8. Kept(b)' /\ Shown(b)'
    BY <1>3, <1>4, <1>6, <1>7, <1>9, <2>1, <2>3, <2>4 DEF Kept, Shown
  <2> QED BY <2>3, <2>6, <2>7, <2>8 DEF Books, Ledger, Entry
<1>10. bufReset[b] => node[b] = "none"
  BY <1>3 DEF Kept
<1> QED BY <1>1, <1>7, <1>8, <1>9, <1>10 DEF EnqueueCheck

\* The queue keeps the only reference on the frame.
LEMMA EnqueueUnrefBooks == ASSUME Inv, NEW t \in AppThreads, EnqueueUnref(t) PROVE Books'
<1>1. PICK b : b = buf[t]
  OBVIOUS
<1>2. pc[t] = "enqUnref" /\ pc[t] \in Holding
  BY DEF EnqueueUnref, At, Holding, Queued, Leaving
<1>3. /\ b \in Buffers /\ Counted(b) /\ Placed(b) /\ Kept(b) /\ Shown(b)
      /\ ref[b] \in Nat /\ attached[b] \in Nat
      /\ IsFiniteSet(Releasers(b)) /\ Cardinality(Releasers(b)) \in Nat
      /\ \A L : Works(b, L) <=> "enqUnref" \in L
  BY <1>1, <1>2, OwnEntry
<1>4. /\ Works(b, Holding) /\ Works(b, Referring) /\ Works(b, Queued) /\ ~Works(b, {"track"})
      /\ ~Works(b, Bare)
  BY <1>3 DEF Holding, Referring, Fetched, Bare, Given, Queued, Leaving
<1>5. b \in Buffers /\ b # NoBuffer /\ "enqAcquire" \in Holding
  BY <1>3, SurfaceAssumption DEF Holding, Fetched, Given, Queued, Leaving
<1>6. /\ node' = node /\ attached' = attached /\ held' = held /\ cb' = cb /\ cbBuf' = cbBuf
      /\ \A u \in AppThreads : /\ pc'[u] = IF u = t THEN "enqAcquire" ELSE pc[u]
                               /\ buf'[u] = IF u = t THEN b ELSE buf[u]
  BY <1>1 DEF EnqueueUnref, queueVars, listVars, callbackVars, Inv, TypeInv, TypeOK, ThreadTypes,
     Threads, Goto
<1>7. \A c \in Buffers : c # b => SameData(c)
  <2> TAKE c \in Buffers
  <2>1. HAVE c # b
  <2>2. ref'[c] = ref[c]
    BY <1>1, <2>1 DEF EnqueueUnref, Unref, CountsBecome, Inv, TypeInv, TypeOK, BufferTypes
  <2>3. /\ wlBuffer'[c] <=> wlBuffer[c] /\ ref'[c] > 0
        /\ bufReset'[c] <=> bufReset[c] /\ ref'[c] > 0
        /\ scanout'[c] = IF ref'[c] > 0 THEN scanout[c] ELSE "idle"
    BY DEF EnqueueUnref, Unref, CountsBecome
  <2> QED BY <1>6, <2>2, <2>3, Unreferenced DEF Inv, Ledger, SameData
<1>8. ref'[b] = Decremented(ref[b])
  BY <1>1, <1>3 DEF EnqueueUnref, Unref, CountsBecome, Inv, TypeInv, TypeOK, BufferTypes
<1>9. ref[b] >= 2
  BY <1>3, <1>4 DEF Counted, Placed, One
<1>10. /\ ref'[b] = ref[b] - 1 /\ ref'[b] > 0
  BY <1>3, <1>8, <1>9 DEF Decremented
<1>11. /\ wlBuffer'[b] <=> wlBuffer[b]
       /\ bufReset'[b] <=> bufReset[b]
       /\ scanout'[b] = scanout[b]
  BY <1>3, <1>10 DEF EnqueueUnref, Unref, CountsBecome
<1>12. /\ ThreadInv' /\ CallbackInv'
       /\ \A c \in Buffers : c # b => Entry(c)'
       /\ \A L : Works(b, L)' <=> "enqAcquire" \in L
       /\ \A L : Called(b, L)' <=> Called(b, L)
       /\ Releasers(b)' = Releasers(b)
  BY <1>1, <1>5, <1>6, <1>7, OwnStep DEF Inv, Books
<1>13. /\ Works(b, Holding)' /\ ~Works(b, Referring)' /\ ~Works(b, Fetched)'
       /\ ~Works(b, Given)' /\ ~Works(b, Fetched \cup Given)' /\ Works(b, Queued)'
       /\ ~Works(b, Leaving)' /\ ~Works(b, {"enqRef"})' /\ ~Works(b, Bare)'
       /\ ~Works(b, {"track"})'
  BY <1>12 DEF Holding, Referring, Fetched, Bare, Given, Queued, Leaving
<1>14. Places(b)' = Places(b)
  BY <1>4, <1>6, <1>12, <1>13 DEF Places, One
<1>15. Counted(b)'
  BY <1>3, <1>4, <1>6, <1>10, <1>12, <1>13 DEF Counted, One
<1>16. Placed(b)'
  BY <1>3, <1>4, <1>6, <1>12, <1>13, <1>14 DEF Placed
<1>17. Kept(b)' /\ Shown(b)'
  BY <1>3, <1>4, <1>6, <1>10, <1>11, <1>12, <1>13, <1>14 DEF Kept, Shown
<1> QED BY <1>12, <1>15, <1>16, <1>17 DEF Books, Ledger, Entry

\* The frame acquired is the one this call has queued.
LEMMA EnqueueAcquireBooks == ASSUME Inv, NEW t \in AppThreads, EnqueueAcquire(t) PROVE Books'
<1>1. PICK b : b = buf[t]
  OBVIOUS
<1>2. pc[t] = "enqAcquire" /\ pc[t] \in Holding
  BY DEF EnqueueAcquire, At, Holding, Queued, Leaving
<1>3. /\ b \in Buffers /\ Counted(b) /\ Placed(b) /\ Kept(b) /\ Shown(b)
      /\ ref[b] \in Nat /\ attached[b] \in Nat
      /\ IsFiniteSet(Releasers(b)) /\ Cardinality(Releasers(b)) \in Nat
      /\ \A L : Works(b, L) <=> "enqAcquire" \in L
  BY <1>1, <1>2, OwnEntry
<1>4. /\ Works(b, Holding) /\ ~Works(b, Referring) /\ Works(b, Queued) /\ ~Works(b, {"track"})
      /\ ~Works(b, Bare)
  BY <1>3 DEF Holding, Referring, Fetched, Bare, Given, Queued, Leaving
<1>5. b \in Buffers /\ b # NoBuffer /\ "enqRef" \in Holding
  BY <1>3, SurfaceAssumption DEF Holding, Fetched, Given, Queued, Leaving
<1>6. /\ ref' = ref /\ wlBuffer' = wlBuffer /\ bufReset' = bufReset /\ scanout' = scanout
      /\ attached' = attached /\ held' = held /\ cb' = cb /\ cbBuf' = cbBuf
  BY DEF EnqueueAcquire, bufferVars, listVars, callbackVars
<1>7. DOMAIN node = Buffers /\ b \in InState(node, "dirty")
  BY <1>3, <1>4 DEF Inv, TypeInv, TypeOK, QueueTypes, Placed, InState
<1>8. ASSUME NEW c \in InState(node, "dirty") PROVE c = b
  <2>1. c \in Buffers /\ Works(c, Queued)
    BY <1>7 DEF Inv, Ledger, Entry, Placed, InState
  <2>2. PICK u \in AppThreads : pc[u] \in Queued /\ buf[u] = c
    BY <2>1 DEF Works
  <2>3. lock = u /\ lock = t
    BY <1>2, <2>2 DEF Inv, LockInv, LockedPC, Queued
  <2> QED BY <1>1, <2>2, <2>3
<1>9. node' = [node EXCEPT ![b] = "acquired"] /\ GotoWith(t, "enqRef", b)
  BY <1>7, <1>8 DEF EnqueueAcquire
<1>10. node'[b] = "acquired" /\ node[b] = "dirty" /\ \A c \in Buffers : c # b => SameData(c)
  BY <1>6, <1>7, <1>9 DEF Inv, TypeInv, TypeOK, QueueTypes, SameData, InState
<1>11. \A u \in AppThreads : /\ pc'[u] = IF u = t THEN "enqRef" ELSE pc[u]
                             /\ buf'[u] = IF u = t THEN b ELSE buf[u]
  BY <1>9 DEF Inv, TypeInv, TypeOK, ThreadTypes, Threads, Goto, GotoWith
<1>12. /\ ThreadInv' /\ CallbackInv'
       /\ \A c \in Buffers : c # b => Entry(c)'
       /\ \A L : Works(b, L)' <=> "enqRef" \in L
       /\ \A L : Called(b, L)' <=> Called(b, L)
       /\ Releasers(b)' = Releasers(b)
  BY <1>1, <1>5, <1>6, <1>10, <1>11, OwnStep DEF Inv, Books
<1>13. /\ Works(b, Holding)' /\ ~Works(b, Referring)' /\ ~Works(b, Fetched)'
       /\ ~Works(b, Given)' /\ ~Works(b, Fetched \cup Given)' /\ ~Works(b, Queued)'
       /\ Works(b, Leaving)' /\ Works(b, {"enqRef"})' /\ ~Works(b, Bare)'
       /\ ~Works(b, {"track"})'
  BY <1>12 DEF Holding, Referring, Fetched, Bare, Given, Queued, Leaving
<1>14. Places(b)' = Places(b)
  BY <1>4, <1>6, <1>12, <1>13 DEF Places, One
<1>15. Counted(b)'
  BY <1>3, <1>4, <1>6, <1>10, <1>12, <1>13 DEF Counted, One
<1>16. b \notin held
  BY <1>3, <1>10 DEF Placed
<1>17. Placed(b)'
  BY <1>3, <1>4, <1>6, <1>10, <1>12, <1>13, <1>14, <1>16 DEF Placed
<1>18. Kept(b)' /\ Shown(b)'
  BY <1>3, <1>4, <1>6, <1>10, <1>12, <1>13, <1>14 DEF Kept, Shown
<1> QED BY <1>12, <1>15, <1>17, <1>18 DEF Books, Ledger, Entry

\* The compositor's use of the frame gets a reference.
LEMMA EnqueueRefBooks == ASSUME Inv, NEW t \in AppThreads, EnqueueRef(t) PROVE Books'
<1>1. PICK b : b = buf[t]
  OBVIOUS
<1>2. pc[t] = "enqRef" /\ pc[t] \in Holding
  BY DEF EnqueueRef, At, Holding, Queued, Leaving
<1>3. /\ b \in Buffers /\ Counted(b) /\ Placed(b) /\ Kept(b) /\ Shown(b)
      /\ ref[b] \in Nat /\ attached[b] \in Nat
      /\ IsFiniteSet(Releasers(b)) /\ Cardinality(Releasers(b)) \in Nat
      /\ \A L : Works(b, L) <=> "enqRef" \in L
  BY <1>1, <1>2, OwnEntry
<1>4. /\ Works(b, Holding) /\ ~Works(b, Referring) /\ Works(b, Leaving) /\ ~Works(b, {"track"})
      /\ ~Works(b, Bare) /\ Works(b, {"enqRef"})
  BY <1>3 DEF Holding, Referring, Fetched, Bare, Given, Queued, Leaving
<1>5. b \in Buffers /\ b # NoBuffer /\ "commit" \in Holding
  BY <1>3, SurfaceAssumption DEF Holding, Fetched, Given, Queued, Leaving
<1>6. /\ node' = node /\ wlBuffer' = wlBuffer /\ bufReset' = bufReset /\ scanout' = scanout
      /\ attached' = attached /\ held' = held /\ cb' = cb /\ cbBuf' = cbBuf
      /\ \A u \in AppThreads : /\ pc'[u] = IF u = t THEN "commit" ELSE pc[u]
                               /\ buf'[u] = IF u = t THEN b ELSE buf[u]
  BY <1>1 DEF EnqueueRef, queueVars, listVars, callbackVars, Inv, TypeInv, TypeOK, ThreadTypes,
     Threads, Goto
<1>7. ref'[b] = ref[b] + 1 /\ \A c \in Buffers : c # b => SameData(c)
  BY <1>1, <1>3, <1>6 DEF EnqueueRef, Inv, TypeInv, TypeOK, BufferTypes, SameData
<1>8. /\ ThreadInv' /\ CallbackInv'
      /\ \A c \in Buffers : c # b => Entry(c)'
      /\ \A L : Works(b, L)' <=> "commit" \in L
      /\ \A L : Called(b, L)' <=> Called(b, L)
      /\ Releasers(b)' = Releasers(b)
  BY <1>1, <1>5, <1>6, <1>7, OwnStep DEF Inv, Books
<1>9. /\ Works(b, Holding)' /\ Works(b, Referring)' /\ ~Works(b, Fetched)' /\ ~Works(b, Given)'
      /\ ~Works(b, Fetched \cup Given)' /\ ~Works(b, Queued)' /\ Works(b, Leaving)'
      /\ ~Works(b, {"enqRef"})' /\ ~Works(b, Bare)' /\ ~Works(b, {"track"})'
  BY <1>8 DEF Holding, Referring, Fetched, Bare, Given, Queued, Leaving
<1>10. Places(b)' = Places(b)
  BY <1>4, <1>6, <1>8, <1>9 DEF Places, One
<1>11. Counted(b)'
  BY <1>3, <1>4, <1>6, <1>7, <1>8, <1>9 DEF Counted, One
<1>12. Placed(b)'
  BY <1>3, <1>4, <1>6, <1>8, <1>9, <1>10 DEF Placed
<1>13. Kept(b)' /\ Shown(b)'
  BY <1>3, <1>4, <1>6, <1>7, <1>8, <1>9, <1>10 DEF Kept, Shown
<1> QED BY <1>8, <1>11, <1>12, <1>13 DEF Books, Ledger, Entry

\* The compositor has the frame.
LEMMA CommitBooks == ASSUME Inv, NEW t \in AppThreads, Commit(t) PROVE Books'
<1>1. PICK b : b = buf[t]
  OBVIOUS
<1>2. pc[t] = "commit" /\ pc[t] \in Holding
  BY DEF Commit, At, Holding, Queued, Leaving
<1>3. /\ b \in Buffers /\ Counted(b) /\ Placed(b) /\ Kept(b) /\ Shown(b)
      /\ ref[b] \in Nat /\ attached[b] \in Nat
      /\ IsFiniteSet(Releasers(b)) /\ Cardinality(Releasers(b)) \in Nat
      /\ \A L : Works(b, L) <=> "commit" \in L
  BY <1>1, <1>2, OwnEntry
<1>4. /\ Works(b, Holding) /\ Works(b, Referring) /\ Works(b, Leaving) /\ ~Works(b, {"track"})
      /\ ~Works(b, Bare) /\ ~Works(b, {"enqRef"})
  BY <1>3 DEF Holding, Referring, Fetched, Bare, Given, Queued, Leaving
<1>5. b \in Buffers /\ b # NoBuffer /\ "track" \in Holding
  BY <1>3, SurfaceAssumption DEF Holding, Fetched, Given, Queued, Leaving
<1>6. /\ node' = node /\ ref' = ref /\ wlBuffer' = wlBuffer /\ bufReset' = bufReset
      /\ attached' = attached /\ held' = held /\ cb' = cb /\ cbBuf' = cbBuf
      /\ \A u \in AppThreads : /\ pc'[u] = IF u = t THEN "track" ELSE pc[u]
                               /\ buf'[u] = IF u = t THEN b ELSE buf[u]
  BY <1>1 DEF Commit, queueVars, listVars, callbackVars, Inv, TypeInv, TypeOK, ThreadTypes,
     Threads, Goto
<1>7. scanout'[b] = "shown" /\ \A c \in Buffers : c # b => SameData(c)
  BY <1>1, <1>3, <1>6 DEF Commit, Inv, TypeInv, TypeOK, BufferTypes, SameData
<1>8. /\ ThreadInv' /\ CallbackInv'
      /\ \A c \in Buffers : c # b => Entry(c)'
      /\ \A L : Works(b, L)' <=> "track" \in L
      /\ \A L : Called(b, L)' <=> Called(b, L)
      /\ Releasers(b)' = Releasers(b)
  BY <1>1, <1>5, <1>6, <1>7, OwnStep DEF Inv, Books
<1>9. /\ Works(b, Holding)' /\ Works(b, Referring)' /\ ~Works(b, Fetched)' /\ ~Works(b, Given)'
      /\ ~Works(b, Fetched \cup Given)' /\ ~Works(b, Queued)' /\ Works(b, Leaving)'
      /\ ~Works(b, {"enqRef"})' /\ ~Works(b, Bare)' /\ Works(b, {"track"})'
  BY <1>8 DEF Holding, Referring, Fetched, Bare, Given, Queued, Leaving
<1>10. Places(b)' = Places(b)
  BY <1>4, <1>6, <1>8, <1>9 DEF Places, One
<1>11. Counted(b)'
  BY <1>3, <1>4, <1>6, <1>8, <1>9 DEF Counted, One
<1>12. Placed(b)'
  BY <1>3, <1>4, <1>6, <1>8, <1>9, <1>10 DEF Placed
<1>13. attached[b] = 0
  BY <1>3, <1>4 DEF Placed, Places, One
<1>14. Kept(b)' /\ Shown(b)'
  BY <1>3, <1>4, <1>6, <1>7, <1>8, <1>9, <1>10, <1>13 DEF Kept, Shown
<1> QED BY <1>8, <1>11, <1>12, <1>14 DEF Books, Ledger, Entry

\* The reference of the call becomes that of the list entry.
LEMMA CommitTrackBooks == ASSUME Inv, NEW t \in AppThreads, CommitTrack(t) PROVE Books'
<1>1. PICK b : b = buf[t]
  OBVIOUS
<1>2. pc[t] = "track" /\ pc[t] \in Holding
  BY DEF CommitTrack, At, Holding, Queued, Leaving
<1>3. /\ b \in Buffers /\ Counted(b) /\ Placed(b) /\ Kept(b) /\ Shown(b)
      /\ ref[b] \in Nat /\ attached[b] \in Nat
      /\ IsFiniteSet(Releasers(b)) /\ Cardinality(Releasers(b)) \in Nat
      /\ \A L : Works(b, L) <=> "track" \in L
  BY <1>1, <1>2, OwnEntry
<1>4. /\ Works(b, Holding) /\ Works(b, Referring) /\ Works(b, Leaving) /\ Works(b, {"track"})
      /\ ~Works(b, Bare) /\ ~Works(b, {"enqRef"}) /\ ~Works(b, Queued)
  BY <1>3 DEF Holding, Referring, Fetched, Bare, Given, Queued, Leaving
<1>5. b \in Buffers /\ b # NoBuffer /\ "arm" \notin Holding
  BY <1>3, SurfaceAssumption DEF Holding, Fetched, Given, Queued, Leaving
<1>6. /\ node' = node /\ ref' = ref /\ wlBuffer' = wlBuffer /\ bufReset' = bufReset
      /\ scanout' = scanout /\ held' = held /\ cb' = cb /\ cbBuf' = cbBuf
      /\ \A u \in AppThreads : /\ pc'[u] = IF u = t THEN "arm" ELSE pc[u]
                               /\ buf'[u] = IF u = t THEN NoBuffer ELSE buf[u]
  BY <1>1 DEF CommitTrack, queueVars, bufferVars, callbackVars, Inv, TypeInv, TypeOK, ThreadTypes,
     Threads, Goto, GotoWith
<1>7. attached'[b] = attached[b] + 1 /\ \A c \in Buffers : c # b => SameData(c)
  BY <1>1, <1>3, <1>6 DEF CommitTrack, Inv, TypeInv, TypeOK, ListTypes, SameData
<1>8. /\ ThreadInv' /\ CallbackInv'
      /\ \A c \in Buffers : c # b => Entry(c)'
      /\ \A L : ~Works(b, L)'
      /\ \A L : Called(b, L)' <=> Called(b, L)
      /\ Releasers(b)' = Releasers(b)
  BY <1>1, <1>5, <1>6, <1>7, OwnStep DEF Inv, Books
<1>9. Places(b)' = Places(b)
  BY <1>3, <1>4, <1>6, <1>7, <1>8 DEF Places, One
<1>10. Counted(b)'
  BY <1>3, <1>4, <1>6, <1>7, <1>8 DEF Counted, One
<1>11. Placed(b)'
  <2>1. Places(b) # 0
    BY <1>3, <1>4 DEF Places, One
  <2> QED BY <1>3, <1>4, <1>6, <1>7, <1>8, <1>9, <2>1 DEF Placed
<1>12. Kept(b)' /\ Shown(b)'
  BY <1>3, <1>4, <1>6, <1>7, <1>8, <1>9 DEF Kept, Shown
<1> QED BY <1>8, <1>10, <1>11, <1>12 DEF Books, Ledger, Entry

\* A free buffer, or one allocated now, is nowhere else.
LEMMA DequeuableFresh ==
    ASSUME TypeInv, Ledger, NEW b \in Dequeuable(node, IsAlive, QueueSize)
    PROVE  /\ b \in Buffers /\ Places(b) = 0
           /\ node[b] = "free" \/ (node[b] = "none" /\ ref[b] = 0)
<1>1. DOMAIN node = Buffers /\ b \in Buffers
  BY DequeuableType DEF TypeInv, TypeOK, QueueTypes
<1>2. node[b] = "free" \/ ref[b] = 0
  <2>1. ref[b] \in Nat
    BY <1>1, Numbers
  <2>2. b \in InState(node, "free") \/ b \in {c \in DOMAIN node : ~IsAlive[c]}
    BY Zenon DEF Dequeuable
  <2>3. b \in InState(node, "free") \/ ~IsAlive[b]
    BY <2>2, Zenon
  <2>4. IsAlive[b] <=> ref[b] > 0
    BY <1>1 DEF IsAlive
  <2> QED BY <1>1, <2>1, <2>3, <2>4 DEF InState
<1>3. /\ Counted(b) /\ Placed(b) /\ ref[b] \in Nat /\ attached[b] \in Nat
  BY <1>1, Numbers DEF Ledger, Entry
<1>4. CASE node[b] = "free"
  BY <1>1, <1>3, <1>4 DEF Placed
<1>5. CASE ref[b] = 0
  <2>1. /\ node[b] = "none" /\ attached[b] = 0 /\ b \notin held /\ ~Works(b, Referring)
        /\ ~Called(b, {"relQueue"})
    BY <1>1, <1>3, <1>5, Referenced
  <2>2. ~Works(b, Fetched) /\ ~Works(b, Queued) /\ ~Works(b, {"enqRef"})
    BY <1>3, <2>1 DEF Placed
  <2>3. Works(b, Holding) => Works(b, Referring) \/ Works(b, Fetched) \/ Works(b, Queued) \/ Works(b, {"enqRef"})
    BY DEF Works, Holding, Referring, Fetched, Queued, Leaving, Given
  <2>4. ~Works(b, Holding)
    BY <2>1, <2>2, <2>3
  <2> QED BY <1>1, <1>5, <2>1, <2>4 DEF Places, One
<1> QED BY <1>2, <1>4, <1>5

\* The call takes a fresh buffer out of the queue, or finds none.
LEMMA DequeueQueueBooks == ASSUME Inv, NEW t \in AppThreads, DequeueQueue(t) PROVE Books'
<1>1. pc[t] = "deqQueue" /\ buf[t] = NoBuffer
  BY DEF DequeueQueue, At, Inv, ThreadInv, TypeInv, TypeOK, ThreadTypes, Threads, Holding, Fetched,
     Given, Queued, Leaving
<1>2. /\ wlBuffer' = wlBuffer /\ bufReset' = bufReset /\ scanout' = scanout
      /\ attached' = attached /\ held' = held /\ cb' = cb /\ cbBuf' = cbBuf
  BY DEF DequeueQueue, listVars, callbackVars
<1>3. ASSUME NEW b \in Dequeuable(node, IsAlive, QueueSize),
             node' = [node EXCEPT ![b] = "dequeued"],
             ref' = [ref EXCEPT ![b] = IF node[b] = "none" THEN 1 ELSE @],
             GotoWith(t, "deqRef", b)
      PROVE  Books'
  <2>1. /\ b \in Buffers /\ b # NoBuffer /\ Places(b) = 0
        /\ node[b] = "free" \/ (node[b] = "none" /\ ref[b] = 0)
    BY DequeuableFresh, SurfaceAssumption DEF Inv
  <2>2. /\ Counted(b) /\ Placed(b) /\ Kept(b) /\ Shown(b)
        /\ ref[b] \in Nat /\ attached[b] \in Nat
        /\ IsFiniteSet(Releasers(b)) /\ Cardinality(Releasers(b)) \in Nat
    BY <2>1, Numbers, FS_CardinalityType DEF Inv, Ledger, Entry, Counted
  <2>3. /\ b \notin held /\ ~Works(b, Holding) /\ attached[b] = 0 /\ ~Called(b, {"relQueue"})
    BY <2>1, <2>2 DEF Places, One
  <2>4. ~Works(b, Referring) /\ ~Works(b, {"track"})
    BY <2>3 DEF Works, Holding, Referring, Leaving
  <2>5. /\ node'[b] = "dequeued" /\ ref'[b] = (IF node[b] = "none" THEN 1 ELSE ref[b])
        /\ \A c \in Buffers : c # b => SameData(c)
    BY <1>2, <1>3, <2>1 DEF Inv, TypeInv, TypeOK, QueueTypes, BufferTypes, SameData
  <2>6. \A u \in AppThreads : /\ pc'[u] = IF u = t THEN "deqRef" ELSE pc[u]
                              /\ buf'[u] = IF u = t THEN b ELSE buf[u]
    BY <1>3 DEF Inv, TypeInv, TypeOK, ThreadTypes, Threads, Goto, GotoWith
  <2>7. "deqRef" \in Holding
    BY DEF Holding, Fetched
  <2>8. /\ ThreadInv' /\ CallbackInv'
        /\ \A c \in Buffers : c # b => Entry(c)'
        /\ \A L : Works(b, L)' <=> "deqRef" \in L
        /\ \A L : Called(b, L)' <=> Called(b, L)
        /\ Releasers(b)' = Releasers(b)
    BY <1>1, <1>2, <2>1, <2>3, <2>5, <2>6, <2>7, OwnStep DEF Inv, Books
  <2>9. /\ Works(b, Holding)' /\ ~Works(b, Referring)' /\ Works(b, Fetched)' /\ ~Works(b, Given)'
        /\ Works(b, Fetched \cup Given)' /\ ~Works(b, Queued)' /\ ~Works(b, Leaving)'
        /\ ~Works(b, {"enqRef"})' /\ Works(b, Bare)' /\ ~Works(b, {"track"})'
    BY <2>8 DEF Holding, Referring, Fetched, Bare, Given, Queued, Leaving
  <2>10. Places(b)' = 1
    BY <1>2, <2>3, <2>8, <2>9 DEF Places, One
  <2>11. Counted(b)'
    BY <1>2, <2>1, <2>2, <2>3, <2>4, <2>5, <2>8, <2>9 DEF Counted, One
  <2>12. Placed(b)'
    BY <1>2, <2>3, <2>5, <2>8, <2>9, <2>10 DEF Placed
  <2>13. ref'[b] > 0 /\ ~bufReset[b]
    BY <2>1, <2>2, <2>3, <2>4, <2>5 DEF Counted, Kept, One
  <2>14. Kept(b)' /\ Shown(b)'
    BY <1>2, <2>2, <2>3, <2>4, <2>8, <2>9, <2>13 DEF Kept, Shown
  <2> QED BY <2>8, <2>11, <2>12, <2>14 DEF Books, Ledger, Entry
<1>4. CASE Return(t) /\ node' = node /\ ref' = ref
  <2>1. \A u \in AppThreads : buf'[u] = buf[u] /\ (pc'[u] = pc[u] \/ (pc'[u] \notin Holding /\ pc[u] \notin Holding))
    BY <1>1, <1>4 DEF Inv, TypeInv, TypeOK, ThreadTypes, Threads, Return, Goto, GotoWith, Holding, Fetched,
       Given, Queued, Leaving
  <2> QED BY <1>2, <1>4, <2>1, QuietBooks DEF Quiet, Inv, Books
<1> QED BY <1>3, <1>4 DEF DequeueQueue

\* The call has the buffer that the application gives it.
LEMMA EnqueueCallBooks ==
    ASSUME Inv, NEW t \in AppThreads, NEW b \in Buffers, EnqueueCall(t, b) PROVE Books'
<1>1. pc[t] = "idle" /\ buf[t] = NoBuffer /\ b \in held /\ b # NoBuffer
  BY SurfaceAssumption DEF EnqueueCall, At, Inv, ThreadInv, TypeInv, TypeOK, ThreadTypes, Threads, Holding, Fetched,
     Given, Queued, Leaving
<1>2. /\ node' = node /\ ref' = ref /\ wlBuffer' = wlBuffer /\ bufReset' = bufReset
      /\ scanout' = scanout /\ attached' = attached /\ held' = held \ {b}
      /\ cb' = cb /\ cbBuf' = cbBuf
  BY DEF EnqueueCall, queueVars, bufferVars, listVars, callbackVars
<1>3. /\ Counted(b) /\ Placed(b) /\ Kept(b) /\ Shown(b)
      /\ ref[b] \in Nat /\ attached[b] \in Nat
      /\ IsFiniteSet(Releasers(b)) /\ Cardinality(Releasers(b)) \in Nat
  BY Numbers, FS_CardinalityType DEF Inv, Ledger, Entry, Counted
<1>4. /\ ~Works(b, Holding) /\ attached[b] = 0 /\ ~Called(b, {"relQueue"}) /\ Places(b) = 1
  BY <1>1, <1>3 DEF Placed, Places, One
<1>5. \A L \in Stages : ~Works(b, L)
  BY <1>4 DEF Works, Stages, Holding, Referring, Fetched, Bare, Given, Queued, Leaving
<1>6. ref[b] > 0
  BY <1>1, <1>3, Referenced
<1>7. \A c \in Buffers : c # b => SameData(c)
  BY <1>2 DEF SameData
<1>8. ASSUME NEW l \in {"enqTrack", "vblCall"}, GotoWith(t, l, b) PROVE Books'
  <2>1. \A u \in AppThreads : /\ pc'[u] = IF u = t THEN l ELSE pc[u]
                              /\ buf'[u] = IF u = t THEN b ELSE buf[u]
    BY <1>8 DEF Inv, TypeInv, TypeOK, ThreadTypes, Threads, Goto, GotoWith
  <2>2. l \in Holding
    BY <1>8 DEF Holding, Given
  <2>3. /\ ThreadInv' /\ CallbackInv'
        /\ \A c \in Buffers : c # b => Entry(c)'
        /\ \A L : Works(b, L)' <=> l \in L
        /\ \A L : Called(b, L)' <=> Called(b, L)
        /\ Releasers(b)' = Releasers(b)
    BY <1>1, <1>2, <1>4, <1>7, <2>1, <2>2, OwnStep DEF Inv, Books
  <2>4. /\ Works(b, Holding)' /\ Works(b, Referring)' /\ ~Works(b, Fetched)' /\ Works(b, Given)'
        /\ Works(b, Fetched \cup Given)' /\ ~Works(b, Queued)' /\ ~Works(b, Leaving)'
        /\ ~Works(b, {"enqRef"})' /\ ~Works(b, Bare)' /\ ~Works(b, {"track"})'
    BY <1>8, <2>3 DEF Holding, Referring, Fetched, Bare, Given, Queued, Leaving
  <2>5. Places(b)' = 1
    BY <1>2, <1>4, <2>3, <2>4 DEF Places, One
  <2>6. ~Works(b, Referring) /\ ~Works(b, Queued) /\ ~Works(b, Bare) /\ ~Works(b, {"track"})
    BY <1>5 DEF Stages
  <2>7. Counted(b)'
    BY <1>1, <1>2, <1>3, <1>4, <2>3, <2>4, <2>6 DEF Counted, One
  <2>8. Placed(b)'
    BY <1>1, <1>2, <1>3, <1>4, <2>3, <2>4, <2>5, <2>6 DEF Placed
  <2>9. Kept(b)' /\ Shown(b)'
    BY <1>2, <1>3, <1>4, <2>3, <2>4, <2>6 DEF Kept, Shown
  <2> QED BY <2>3, <2>7, <2>8, <2>9 DEF Books, Ledger, Entry
<1> QED BY <1>6, <1>8 DEF EnqueueCall

-----------------------------------------------------------------------------
(* The steps of the compositor and of the release callback                 *)

\* What is known of the buffer of a release callback.
LEMMA CallbackEntry ==
    ASSUME Inv, NEW x \in Threads, cb[x] \in ReleasePC
    PROVE  /\ cbBuf[x] \in Buffers /\ cbBuf[x] # NoBuffer
           /\ Counted(cbBuf[x]) /\ Placed(cbBuf[x]) /\ Kept(cbBuf[x]) /\ Shown(cbBuf[x])
           /\ ref[cbBuf[x]] \in Nat /\ attached[cbBuf[x]] \in Nat
           /\ IsFiniteSet(Releasers(cbBuf[x])) /\ Cardinality(Releasers(cbBuf[x])) \in Nat
<1>1. cbBuf[x] \in Buffers
  BY DEF Inv, RoleInv, Role
<1>2. Counted(cbBuf[x]) /\ Placed(cbBuf[x]) /\ Kept(cbBuf[x]) /\ Shown(cbBuf[x])
  BY <1>1 DEF Inv, Ledger, Entry
<1>3. IsFiniteSet(Releasers(cbBuf[x])) /\ Cardinality(Releasers(cbBuf[x])) \in Nat
  BY <1>2, FS_CardinalityType DEF Counted
<1> QED BY <1>1, <1>2, <1>3, Numbers, SurfaceAssumption DEF Inv

\* A released buffer is one that attached_buffers lists: the thread that would
\* have to list it still is not the one that dispatches.
LEMMA ReleasedAttached ==
    ASSUME Careful, Inv, NEW x \in Threads, Dispatching(x), "release" \in Runs[x],
           NEW b \in Buffers, scanout[b] = "released"
    PROVE  attached[b] > 0 /\ ~Works(b, {"track"})
<1>1. Placed(b) /\ Shown(b) /\ attached[b] \in Nat
  BY Numbers DEF Inv, Ledger, Entry
<1>2. ASSUME Works(b, {"track"}) PROVE FALSE
  <2>1. PICK t \in AppThreads : pc[t] = "track" /\ buf[t] = b
    BY <1>2 DEF Works
  <2>2. EarlyRelease /\ "enqueue" \in Runs[t] /\ t \in Threads
    BY <1>1, <1>2, <2>1 DEF Shown, Inv, RoleInv, Role, EnqueuePC, Threads
  <2>3. t = x
    BY <2>2 DEF Careful
  <2> QED BY <2>1, <2>3 DEF Dispatching
<1> QED BY <1>1, <1>2 DEF Shown

\* A release event reaches its callback.
LEMMA ReleaseCallbackBooks ==
    ASSUME Careful, Inv, NEW x \in Threads, ReleaseCallback(x) PROVE Books'
<1>1. PICK b \in Buffers : /\ scanout[b] = "released"
                           /\ scanout' = [scanout EXCEPT ![b] = "idle"]
                           /\ Callback(x, "relTrack", b)
  BY DEF ReleaseCallback
<1>2. attached[b] > 0 /\ ~Works(b, {"track"})
  BY <1>1, ReleasedAttached DEF ReleaseCallback
<1>3. /\ Counted(b) /\ Placed(b) /\ Kept(b) /\ Shown(b) /\ attached[b] \in Nat /\ b # NoBuffer
  BY Numbers, SurfaceAssumption DEF Inv, Ledger, Entry
<1>4. ~Called(b, {"relTrack"}) /\ ~Called(b, {"relQueue"})
  BY <1>1, <1>2, <1>3 DEF Placed, Places, Shown, One
<1>5. cb[x] = "none" /\ cbBuf[x] = NoBuffer
  BY DEF ReleaseCallback, Dispatching, Ready, Inv, RoleInv, Role
<1>6. /\ node' = node /\ ref' = ref /\ wlBuffer' = wlBuffer /\ bufReset' = bufReset
      /\ attached' = attached /\ held' = held /\ pc' = pc /\ buf' = buf
      /\ \A y \in Threads : /\ cb'[y] = IF y = x THEN "relTrack" ELSE cb[y]
                            /\ cbBuf'[y] = IF y = x THEN b ELSE cbBuf[y]
  BY <1>1 DEF ReleaseCallback, queueVars, listVars, threadVars, Callback, Inv, TypeInv, TypeOK,
     ThreadTypes
<1>7. scanout'[b] = "idle" /\ \A c \in Buffers : c # b => SameData(c)
  BY <1>1, <1>6 DEF Inv, TypeInv, TypeOK, BufferTypes, SameData
<1>8. /\ ThreadInv' /\ CallbackInv'
      /\ \A c \in Buffers : c # b => Entry(c)'
      /\ \A L \in Stages : Works(b, L)' <=> Works(b, L)
      /\ \A k \in {"relTrack", "relQueue"} :
            Called(b, {k})' <=> k = "relTrack" \/ \E y \in Threads \ {x} : cb[y] = k /\ cbBuf[y] = b
      /\ Releasers(b)' = Releasers(b) \ {x}
  <2>1. "relTrack" \notin {"relQueue", "relUnref"} /\ "relTrack" # "relQueue"
    OBVIOUS
  <2> QED BY <1>3, <1>4, <1>5, <1>6, <1>7, <2>1, OwnCallback DEF Inv, Books
<1>9. /\ Called(b, {"relTrack"})' /\ ~Called(b, {"relQueue"})' /\ Releasers(b)' = Releasers(b)
  BY <1>4, <1>5, <1>8 DEF Called, Releasers, Releasing
<1>10. /\ Works(b, Holding)' <=> Works(b, Holding)
       /\ Works(b, Referring)' <=> Works(b, Referring)
       /\ Works(b, Fetched)' <=> Works(b, Fetched)
       /\ Works(b, Given)' <=> Works(b, Given)
       /\ Works(b, Fetched \cup Given)' <=> Works(b, Fetched \cup Given)
       /\ Works(b, Queued)' <=> Works(b, Queued)
       /\ Works(b, Leaving)' <=> Works(b, Leaving)
       /\ Works(b, {"enqRef"})' <=> Works(b, {"enqRef"})
       /\ Works(b, Bare)' <=> Works(b, Bare)
       /\ Works(b, {"track"})' <=> Works(b, {"track"})
  BY <1>8 DEF Stages
<1>11. Places(b)' = Places(b)
  BY <1>4, <1>6, <1>9, <1>10 DEF Places, One
<1>12. Counted(b)'
  BY <1>3, <1>6, <1>9, <1>10 DEF Counted, One
<1>13. Placed(b)'
  BY <1>3, <1>4, <1>6, <1>9, <1>10, <1>11 DEF Placed
<1>14. Kept(b)' /\ Shown(b)'
  BY <1>2, <1>3, <1>6, <1>7, <1>9, <1>10, <1>11 DEF Kept, Shown
<1> QED BY <1>8, <1>12, <1>13, <1>14 DEF Books, Ledger, Entry

\* The callback takes the buffer out of attached_buffers; its reference is the
\* callback's now.
LEMMA ReleaseTrackBooks ==
    ASSUME Inv, NEW x \in Threads, ReleaseTrack(x) PROVE Books'
<1>1. PICK b : b = cbBuf[x]
  OBVIOUS
<1>2. cb[x] = "relTrack" /\ cb[x] \in ReleasePC
  BY DEF ReleaseTrack, ReleasePC
<1>3. /\ b \in Buffers /\ b # NoBuffer /\ Counted(b) /\ Placed(b) /\ Kept(b) /\ Shown(b)
      /\ ref[b] \in Nat /\ attached[b] \in Nat
      /\ IsFiniteSet(Releasers(b)) /\ Cardinality(Releasers(b)) \in Nat
  BY <1>1, <1>2, CallbackEntry
<1>4. Called(b, {"relTrack"})
  BY <1>1, <1>2 DEF Called
<1>5. /\ attached[b] = 1 /\ ~Works(b, Holding) /\ b \notin held /\ ~Called(b, {"relQueue"})
      /\ scanout[b] = "idle" /\ Places(b) = 1
  BY <1>3, <1>4 DEF Placed, Places, Shown, One
<1>6. \A L \in Stages : ~Works(b, L)
  BY <1>5 DEF Works, Stages, Holding, Referring, Fetched, Bare, Given, Queued, Leaving
<1>7. wlBuffer[b]
  <2>1. ~Works(b, Bare)
    BY <1>6 DEF Stages
  <2> QED BY <1>3, <1>5, <2>1 DEF Kept
<1>8. /\ node' = node /\ ref' = ref /\ wlBuffer' = wlBuffer /\ bufReset' = bufReset
      /\ scanout' = scanout /\ held' = held /\ pc' = pc /\ buf' = buf
      /\ attached' = [attached EXCEPT ![b] = Decremented(@)]
      /\ \A y \in Threads : /\ cb'[y] = IF y = x THEN "relQueue" ELSE cb[y]
                            /\ cbBuf'[y] = IF y = x THEN b ELSE cbBuf[y]
  BY <1>1, <1>7 DEF ReleaseTrack, queueVars, bufferVars, threadVars, Callback, Inv, TypeInv, TypeOK,
     ThreadTypes
<1>9. attached'[b] = 0 /\ \A c \in Buffers : c # b => SameData(c)
  BY <1>3, <1>5, <1>8 DEF Inv, TypeInv, TypeOK, ListTypes, SameData, Decremented
<1>10. /\ ThreadInv' /\ CallbackInv'
       /\ \A c \in Buffers : c # b => Entry(c)'
       /\ \A L \in Stages : Works(b, L)' <=> Works(b, L)
       /\ \A k \in {"relTrack", "relQueue"} :
             Called(b, {k})' <=> k = "relQueue" \/ \E y \in Threads \ {x} : cb[y] = k /\ cbBuf[y] = b
       /\ Releasers(b)' = Releasers(b) \cup {x}
  <2>1. "relQueue" \in {"relQueue", "relUnref"} /\ "relTrack" # "relQueue"
    OBVIOUS
  <2>2. b \in Buffers /\ b # NoBuffer /\ Books
    BY <1>3 DEF Inv, Books
  <2> QED BY <1>1, <1>2, <1>8, <1>9, <2>1, <2>2, OwnCallback
<1>11. ~Called(b, {"relTrack"})' /\ Called(b, {"relQueue"})'
  BY <1>1, <1>2, <1>10 DEF Inv, CallbackInv
<1>12. /\ IsFiniteSet(Releasers(b)') /\ Cardinality(Releasers(b)') = Cardinality(Releasers(b)) + 1
  <2>1. x \notin Releasers(b)
    BY <1>2 DEF Releasers, Releasing
  <2> QED BY <1>3, <1>10, <2>1, FS_AddElement
<1>13. /\ ~Works(b, Holding)' /\ ~Works(b, Referring)' /\ ~Works(b, Fetched)' /\ ~Works(b, Given)'
       /\ ~Works(b, Fetched \cup Given)' /\ ~Works(b, Queued)' /\ ~Works(b, Leaving)'
       /\ ~Works(b, {"enqRef"})' /\ ~Works(b, Bare)' /\ ~Works(b, {"track"})'
       /\ ~Works(b, Referring) /\ ~Works(b, Queued)
  BY <1>6, <1>10 DEF Stages
<1>14. Places(b)' = 1
  BY <1>5, <1>8, <1>9, <1>11, <1>13 DEF Places, One
<1>15. Counted(b)'
  BY <1>3, <1>5, <1>8, <1>9, <1>12, <1>13 DEF Counted, One
<1>16. Placed(b)'
  BY <1>3, <1>5, <1>8, <1>9, <1>11, <1>13, <1>14 DEF Placed
<1>17. Kept(b)' /\ Shown(b)'
  BY <1>3, <1>5, <1>7, <1>8, <1>9, <1>11, <1>13, <1>14 DEF Kept, Shown
<1> QED BY <1>10, <1>15, <1>16, <1>17 DEF Books, Ledger, Entry

\* The callback gives a buffer of the current queue back to it.
LEMMA ReleaseQueueBooks ==
    ASSUME Inv, NEW x \in Threads, ReleaseQueue(x) PROVE Books'
<1>1. PICK b : b = cbBuf[x]
  OBVIOUS
<1>2. cb[x] = "relQueue" /\ cb[x] \in ReleasePC
  BY DEF ReleaseQueue, ReleasePC
<1>3. /\ b \in Buffers /\ b # NoBuffer /\ Counted(b) /\ Placed(b) /\ Kept(b) /\ Shown(b)
      /\ ref[b] \in Nat /\ attached[b] \in Nat
      /\ IsFiniteSet(Releasers(b)) /\ Cardinality(Releasers(b)) \in Nat
  BY <1>1, <1>2, CallbackEntry
<1>4. Called(b, {"relQueue"})
  BY <1>1, <1>2 DEF Called
<1>5. /\ attached[b] = 0 /\ ~Works(b, Holding) /\ b \notin held /\ Places(b) = 1
      /\ node[b] \in {"none", "acquired"}
  BY <1>3, <1>4 DEF Placed, Places, One
<1>6. \A L \in Stages : ~Works(b, L)
  BY <1>5 DEF Works, Stages, Holding, Referring, Fetched, Bare, Given, Queued, Leaving
<1>7. /\ ref' = ref /\ wlBuffer' = wlBuffer /\ bufReset' = bufReset /\ attached' = attached
      /\ scanout' = scanout /\ held' = held /\ pc' = pc /\ buf' = buf
      /\ node' = IF bufReset[b] THEN node ELSE Released(node, b)
      /\ \A y \in Threads : /\ cb'[y] = IF y = x THEN "relUnref" ELSE cb[y]
                            /\ cbBuf'[y] = IF y = x THEN b ELSE cbBuf[y]
  BY <1>1 DEF ReleaseQueue, bufferVars, listVars, threadVars, Callback, Inv, TypeInv, TypeOK,
     ThreadTypes
<1>8. /\ node'[b] = IF node[b] = "none" THEN "none" ELSE "free"
      /\ \A c \in Buffers : c # b => SameData(c)
  <2>1. bufReset[b] => node[b] = "none"
    BY <1>3 DEF Kept
  <2>2. CASE node[b] = "none"
    <3>1. node' = node
      BY <1>7, <2>2 DEF Released
    <3> QED BY <1>7, <2>2, <3>1 DEF SameData
  <2>3. CASE node[b] = "acquired"
    <3>1. node' = [node EXCEPT ![b] = "free"]
      BY <1>7, <2>1, <2>3 DEF Released
    <3> QED BY <1>3, <1>7, <2>3, <3>1 DEF Inv, TypeInv, TypeOK, QueueTypes, SameData
  <2> QED BY <1>5, <2>2, <2>3
<1>9. /\ ThreadInv' /\ CallbackInv'
      /\ \A c \in Buffers : c # b => Entry(c)'
      /\ \A L \in Stages : Works(b, L)' <=> Works(b, L)
      /\ \A k \in {"relTrack", "relQueue"} :
            Called(b, {k})' <=> k = "relUnref" \/ \E y \in Threads \ {x} : cb[y] = k /\ cbBuf[y] = b
      /\ Releasers(b)' = Releasers(b) \cup {x}
  <2>1. "relUnref" \in {"relQueue", "relUnref"} /\ "relTrack" # "relUnref" /\ "relUnref" # "relQueue"
    OBVIOUS
  <2>2. b \in Buffers /\ b # NoBuffer /\ Books
    BY <1>3 DEF Inv, Books
  <2> QED BY <1>1, <1>2, <1>7, <1>8, <2>1, <2>2, OwnCallback
<1>10. ~Called(b, {"relTrack"})' /\ ~Called(b, {"relQueue"})'
  BY <1>1, <1>2, <1>9 DEF Inv, CallbackInv
<1>11. Releasers(b)' = Releasers(b)
  BY <1>1, <1>2, <1>9 DEF Releasers, Releasing
<1>12. /\ ~Works(b, Holding)' /\ ~Works(b, Referring)' /\ ~Works(b, Fetched)' /\ ~Works(b, Given)'
       /\ ~Works(b, Fetched \cup Given)' /\ ~Works(b, Queued)' /\ ~Works(b, Leaving)'
       /\ ~Works(b, {"enqRef"})' /\ ~Works(b, Bare)' /\ ~Works(b, {"track"})'
       /\ ~Works(b, Referring) /\ ~Works(b, Queued) /\ ~Works(b, {"track"})
  BY <1>6, <1>9 DEF Stages
<1>13. Places(b)' = 0
  BY <1>5, <1>7, <1>10, <1>12 DEF Places, One
<1>14. Counted(b)'
  BY <1>3, <1>5, <1>7, <1>8, <1>11, <1>12 DEF Counted, One
<1>15. Placed(b)'
  BY <1>5, <1>7, <1>8, <1>10, <1>12, <1>13 DEF Placed
<1>16. Kept(b)' /\ Shown(b)'
  BY <1>3, <1>5, <1>7, <1>8, <1>10, <1>12, <1>13 DEF Kept, Shown
<1> QED BY <1>9, <1>14, <1>15, <1>16 DEF Books, Ledger, Entry

\* The callback drops its reference.
LEMMA ReleaseUnrefBooks ==
    ASSUME Inv, NEW x \in Threads, ReleaseUnref(x) PROVE Books'
<1>1. PICK b : b = cbBuf[x]
  OBVIOUS
<1>2. cb[x] = "relUnref" /\ cb[x] \in ReleasePC
  BY DEF ReleaseUnref, ReleasePC
<1>3. /\ b \in Buffers /\ b # NoBuffer /\ Counted(b) /\ Placed(b) /\ Kept(b) /\ Shown(b)
      /\ ref[b] \in Nat /\ attached[b] \in Nat
      /\ IsFiniteSet(Releasers(b)) /\ Cardinality(Releasers(b)) \in Nat
  BY <1>1, <1>2, CallbackEntry
<1>4. x \in Releasers(b)
  BY <1>1, <1>2 DEF Releasers, Releasing
<1>5. /\ node' = node /\ attached' = attached /\ held' = held /\ pc' = pc /\ buf' = buf
      /\ \A y \in Threads : /\ cb'[y] = IF y = x THEN "none" ELSE cb[y]
                            /\ cbBuf'[y] = IF y = x THEN NoBuffer ELSE cbBuf[y]
  BY DEF ReleaseUnref, queueVars, listVars, threadVars, Callback, Inv, TypeInv, TypeOK,
     ThreadTypes
<1>6. \A c \in Buffers : c # b => SameData(c)
  <2> TAKE c \in Buffers
  <2>1. HAVE c # b
  <2>2. ref'[c] = ref[c]
    BY <1>1, <2>1 DEF ReleaseUnref, Unref, CountsBecome, Inv, TypeInv, TypeOK, BufferTypes
  <2>3. /\ wlBuffer'[c] <=> wlBuffer[c] /\ ref'[c] > 0
        /\ bufReset'[c] <=> bufReset[c] /\ ref'[c] > 0
        /\ scanout'[c] = IF ref'[c] > 0 THEN scanout[c] ELSE "idle"
    BY DEF ReleaseUnref, Unref, CountsBecome
  <2> QED BY <1>5, <2>2, <2>3, Unreferenced DEF Inv, Ledger, SameData
<1>7. /\ ThreadInv' /\ CallbackInv'
      /\ \A c \in Buffers : c # b => Entry(c)'
      /\ \A L \in Stages : Works(b, L)' <=> Works(b, L)
      /\ \A k \in {"relTrack", "relQueue"} :
            Called(b, {k})' <=> \E y \in Threads \ {x} : cb[y] = k /\ cbBuf[y] = b
      /\ Releasers(b)' = Releasers(b) \ {x}
  <2>1. /\ "none" \notin {"relQueue", "relUnref"} /\ "relTrack" # "none" /\ "none" # "relQueue"
        /\ "none" \notin ReleasePC
    BY DEF ReleasePC
  <2>2. b \in Buffers /\ b # NoBuffer /\ Books
    BY <1>3 DEF Inv, Books
  <2> QED BY <1>1, <1>2, <1>5, <1>6, <2>1, <2>2, OwnCallback
<1>8. /\ Called(b, {"relTrack"})' <=> Called(b, {"relTrack"})
      /\ Called(b, {"relQueue"})' <=> Called(b, {"relQueue"})
  BY <1>2, <1>7 DEF Called
<1>9. /\ IsFiniteSet(Releasers(b)') /\ Cardinality(Releasers(b)') = Cardinality(Releasers(b)) - 1
      /\ Cardinality(Releasers(b)') \in Nat
  BY <1>3, <1>4, <1>7, FS_RemoveElement, FS_CardinalityType
<1>10. /\ Works(b, Holding)' <=> Works(b, Holding)
       /\ Works(b, Referring)' <=> Works(b, Referring)
       /\ Works(b, Fetched)' <=> Works(b, Fetched)
       /\ Works(b, Given)' <=> Works(b, Given)
       /\ Works(b, Fetched \cup Given)' <=> Works(b, Fetched \cup Given)
       /\ Works(b, Queued)' <=> Works(b, Queued)
       /\ Works(b, Leaving)' <=> Works(b, Leaving)
       /\ Works(b, {"enqRef"})' <=> Works(b, {"enqRef"})
       /\ Works(b, Bare)' <=> Works(b, Bare)
       /\ Works(b, {"track"})' <=> Works(b, {"track"})
  BY <1>7 DEF Stages
<1>11. ref'[b] = ref[b] - 1
  <2>1. ref[b] > 0
    BY <1>3, <1>4, Referenced
  <2> QED BY <1>1, <1>3, <2>1 DEF ReleaseUnref, Unref, CountsBecome, Inv, TypeInv, TypeOK, BufferTypes,
             Decremented
<1>12. /\ wlBuffer'[b] <=> wlBuffer[b] /\ ref'[b] > 0
       /\ bufReset'[b] <=> bufReset[b] /\ ref'[b] > 0
       /\ scanout'[b] = IF ref'[b] > 0 THEN scanout[b] ELSE "idle"
  BY <1>3 DEF ReleaseUnref, Unref, CountsBecome
<1>13. Places(b)' = Places(b)
  BY <1>5, <1>8, <1>10 DEF Places, One
<1>14. Counted(b)'
  BY <1>3, <1>5, <1>9, <1>10, <1>11 DEF Counted, One
<1>15. Placed(b)'
  BY <1>3, <1>5, <1>8, <1>10, <1>13 DEF Placed
<1>16. attached[b] > 0 \/ b \in held \/ Works(b, Referring) \/ Called(b, {"relQueue"})
          \/ node[b] # "none" => ref'[b] > 0
  <2>1. Called(b, {"relQueue"}) => Cardinality(Releasers(b)') # 0
    <3>1. Called(b, {"relQueue"}) => Releasers(b)' # {}
      BY <1>2, <1>7 DEF Called, Releasers, Releasing
    <3> QED BY <1>9, <3>1, FS_EmptySet
  <2> QED BY <1>3, <1>5, <1>9, <1>10, <1>14, <2>1 DEF Counted, One
<1>17. Kept(b)'
  <2>1. Works(b, Holding) /\ ~Works(b, Referring) => Works(b, Bare) \/ Works(b, Queued) \/ Works(b, {"enqRef"})
    BY DEF Works, Holding, Referring, Fetched, Bare, Given, Queued, Leaving
  <2>2. Works(b, Queued) \/ Works(b, {"enqRef"}) => node[b] # "none"
    BY <1>3 DEF Placed
  <2>3. Places(b) = 1 /\ ~Works(b, Bare) => ref'[b] > 0
    BY <1>3, <1>16, <2>1, <2>2 DEF Places, One
  <2> QED BY <1>3, <1>5, <1>10, <1>12, <1>13, <2>3 DEF Kept
<1>18. Shown(b)'
  <2>1. Works(b, {"track"}) => Works(b, Referring)
    BY DEF Works, Referring, Holding, Fetched, Leaving
  <2> QED BY <1>3, <1>5, <1>8, <1>10, <1>12, <1>16, <2>1 DEF Shown
<1> QED BY <1>7, <1>14, <1>15, <1>17, <1>18 DEF Books, Ledger, Entry

\* The compositor releases a buffer.
LEMMA ServerReleaseBooks ==
    ASSUME Inv, NEW b \in Buffers, ServerRelease(b) PROVE Books'
<1>1. /\ node' = node /\ ref' = ref /\ wlBuffer' = wlBuffer /\ bufReset' = bufReset
      /\ attached' = attached /\ held' = held /\ pc' = pc /\ buf' = buf /\ cb' = cb /\ cbBuf' = cbBuf
      /\ scanout' = [scanout EXCEPT ![b] = "released"] /\ scanout[b] = "shown"
  BY DEF ServerRelease, queueVars, listVars, threadVars, callbackVars
<1>2. \A c, L : /\ Works(c, L)' <=> Works(c, L)
                /\ Called(c, L)' <=> Called(c, L)
  BY <1>1 DEF Works, Called
<1>3. \A c : Releasers(c)' = Releasers(c)
  BY <1>1 DEF Releasers, Releasing
<1>4. ASSUME NEW c \in Buffers, c # b PROVE Entry(c)'
  <2>1. SameData(c) /\ Entry(c)
    BY <1>1, <1>4 DEF Inv, Ledger, SameData, TypeInv, TypeOK, BufferTypes
  <2> QED BY <1>2, <1>3, <2>1, EntryKept
<1>5. scanout'[b] = "released" /\ Entry(b)
  BY <1>1 DEF Inv, Ledger, TypeInv, TypeOK, BufferTypes
<1>6. Counted(b)' /\ Placed(b)' /\ Kept(b)'
  <2>1. Places(b)' = Places(b)
    BY <1>1, <1>2 DEF Places, One
  <2>2. Counted(b)'
    BY <1>1, <1>2, <1>3, <1>5 DEF Entry, Counted, One
  <2>3. Placed(b)'
    BY <1>1, <1>2, <1>5, <2>1 DEF Entry, Placed
  <2>4. Kept(b)'
    BY <1>1, <1>2, <1>5, <2>1 DEF Entry, Kept
  <2> QED BY <2>2, <2>3, <2>4
<1>7. Shown(b)'
  <2>1. Works(b, {"track"}) => EarlyRelease
    BY DEF ServerRelease, Works
  <2> QED BY <1>1, <1>2, <1>5, <2>1 DEF Entry, Shown
<1>8. ThreadInv' /\ CallbackInv'
  BY <1>1 DEF Inv, ThreadInv, CallbackInv
<1> QED BY <1>4, <1>6, <1>7, <1>8 DEF Books, Ledger, Entry

-----------------------------------------------------------------------------
(* The parts of the invariant                                              *)

\* A thread is only where its calls and callbacks lead.
LEMMA RoleStep ==
    ASSUME TypeInv, RoleInv, [Next]_vars
    PROVE  RoleInv'
<1> USE SurfaceAssumption DEF RoleInv, Role, DequeuePC, EnqueuePC, FlushPC, FiniPC, DispatchPC,
        ReleasePC, Threads, TypeInv, TypeOK,
        ThreadTypes, queueVars, bufferVars, listVars, flagVars, vblankVars, threadVars,
        callbackVars, envVars, Goto, GotoWith, Return, Acquire,
        Callback, At, Ready, Dispatching
<1>1. ASSUME NEW t \in AppThreads, DequeueReset(t) PROVE RoleInv'
  BY <1>1 DEF DequeueReset
<1>2. ASSUME NEW t \in AppThreads, DequeuePend(t) PROVE RoleInv'
  BY <1>2 DEF DequeuePend
<1>3. ASSUME NEW t \in AppThreads, DequeueWait(t) PROVE RoleInv'
  BY <1>3 DEF DequeueWait
<1>3t. ASSUME NEW t \in AppThreads, DequeueTest(t) PROVE RoleInv'
  BY <1>3t DEF DequeueTest
<1>4. ASSUME NEW t \in AppThreads, DequeueRelock(t) PROVE RoleInv'
  BY <1>4 DEF DequeueRelock
<1>5. ASSUME NEW t \in AppThreads, DequeueFail(t) PROVE RoleInv'
  BY <1>5 DEF DequeueFail
<1>6. ASSUME NEW t \in AppThreads, DequeueQueue(t) PROVE RoleInv'
  BY <1>6 DEF DequeueQueue
<1>7. ASSUME NEW t \in AppThreads, DequeueRef(t) PROVE RoleInv'
  BY <1>7 DEF DequeueRef
<1>7f. ASSUME NEW t \in AppThreads, DequeueFlag(t) PROVE RoleInv'
  BY <1>7f DEF DequeueFlag
<1>8. ASSUME NEW t \in AppThreads, DequeuePush(t) PROVE RoleInv'
  BY <1>8 DEF DequeuePush
<1>9. ASSUME NEW t \in AppThreads, VblankWait(t) PROVE RoleInv'
  BY <1>9 DEF VblankWait
<1>9c. ASSUME NEW t \in AppThreads, VblankCall(t) PROVE RoleInv'
  BY <1>9c DEF VblankCall
<1>10. ASSUME NEW t \in AppThreads, VblankRelock(t) PROVE RoleInv'
  BY <1>10 DEF VblankRelock
<1>11. ASSUME NEW t \in AppThreads, EnqueueTrack(t) PROVE RoleInv'
  BY <1>11 DEF EnqueueTrack
<1>12. ASSUME NEW t \in AppThreads, EnqueueCheck(t) PROVE RoleInv'
  BY <1>12 DEF EnqueueCheck
<1>13. ASSUME NEW t \in AppThreads, EnqueueUnref(t) PROVE RoleInv'
  BY <1>13 DEF EnqueueUnref
<1>14. ASSUME NEW t \in AppThreads, EnqueueAcquire(t) PROVE RoleInv'
  BY <1>14 DEF EnqueueAcquire
<1>15. ASSUME NEW t \in AppThreads, EnqueueRef(t) PROVE RoleInv'
  BY <1>15 DEF EnqueueRef
<1>16. ASSUME NEW t \in AppThreads, Commit(t) PROVE RoleInv'
  BY <1>16 DEF Commit
<1>17. ASSUME NEW t \in AppThreads, CommitTrack(t) PROVE RoleInv'
  BY <1>17 DEF CommitTrack
<1>18. ASSUME NEW t \in AppThreads, CommitArm(t) PROVE RoleInv'
  BY <1>18 DEF CommitArm
<1>19. ASSUME NEW t \in AppThreads, CommitArmed(t) PROVE RoleInv'
  BY <1>19 DEF CommitArmed
<1>20. ASSUME NEW t \in AppThreads, FiniQueue(t) PROVE RoleInv'
  BY <1>20 DEF FiniQueue
<1>21. ASSUME NEW t \in AppThreads, FiniDrop(t) PROVE RoleInv'
  BY <1>21 DEF FiniDrop
<1>22. ASSUME NEW t \in AppThreads, DequeueCall(t) PROVE RoleInv'
  BY <1>22 DEF DequeueCall
<1>23. ASSUME NEW t \in AppThreads, NEW b \in Buffers, EnqueueCall(t, b) PROVE RoleInv'
  BY <1>23 DEF EnqueueCall
<1>24. ASSUME NEW t \in AppThreads, FiniCall(t) PROVE RoleInv'
  BY <1>24 DEF FiniCall
<1>25. ASSUME NEW x \in Threads, ReleaseTrack(x) PROVE RoleInv'
  BY <1>25 DEF ReleaseTrack
<1>26. ASSUME NEW x \in Threads, ReleaseQueue(x) PROVE RoleInv'
  BY <1>26 DEF ReleaseQueue
<1>27. ASSUME NEW x \in Threads, ReleaseUnref(x) PROVE RoleInv'
  BY <1>27 DEF ReleaseUnref
<1>28. ASSUME NEW x \in Threads, ResetCallback(x) PROVE RoleInv'
  BY <1>28 DEF ResetCallback
<1>29. ASSUME NEW x \in Threads, FlushQueue(x) PROVE RoleInv'
  BY <1>29 DEF FlushQueue
<1>30. ASSUME NEW x \in Threads, FlushDrop(x) PROVE RoleInv'
  BY <1>30 DEF FlushDrop
<1>31. ASSUME NEW x \in Threads, ReleaseCallback(x) PROVE RoleInv'
  BY <1>31 DEF ReleaseCallback
<1>32. ASSUME NEW x \in Threads, ResetEvent(x) PROVE RoleInv'
  BY <1>32 DEF ResetEvent
<1>33. ASSUME NEW x \in Threads, VblankCallback(x) PROVE RoleInv'
  BY <1>33 DEF VblankCallback
<1>34. ASSUME NEW x \in Threads, ResizeCallback(x) PROVE RoleInv'
  BY <1>34 DEF ResizeCallback
<1>35. ASSUME NEW x \in Threads, FlushCallback(x) PROVE RoleInv'
  BY <1>35 DEF FlushCallback
<1>35o. ASSUME NEW x \in Threads, OtherEvent(x) PROVE RoleInv'
  BY <1>35o DEF OtherEvent
<1>36. ASSUME NEW b \in Buffers, ServerRelease(b) PROVE RoleInv'
  BY <1>36 DEF ServerRelease
<1>37. CASE Disconnect
  BY <1>37 DEF Disconnect
<1>38. CASE UNCHANGED vars
  BY <1>38 DEF vars
<1> HIDE DEF RoleInv, Role, DequeuePC, EnqueuePC, FlushPC, FiniPC, DispatchPC, ReleasePC,
        Threads, TypeInv, TypeOK,
        ThreadTypes, queueVars, bufferVars, listVars, flagVars, vblankVars, threadVars,
        callbackVars, envVars
<1> QED
  BY <1>1, <1>2, <1>3, <1>3t, <1>4, <1>5, <1>6, <1>7, <1>7f, <1>8, <1>9, <1>9c, <1>10, <1>11,
     <1>12, <1>13, <1>14, <1>15, <1>16, <1>17, <1>18, <1>19, <1>20, <1>21, <1>22, <1>23, <1>24, <1>25, <1>26,
     <1>27, <1>28, <1>29, <1>30, <1>31, <1>32, <1>33, <1>34, <1>35, <1>35o, <1>36, <1>37, <1>38
     DEF Next, CallStep, CallbackStep, Begin, Finished

\* No thread that uses the queue does so in the middle of a reset or a flush.
LEMMA NotEmptied ==
    ASSUME Careful, RoleInv, LockInv, NEW t \in AppThreads, cb[t] = "none",
           pc[t] \in {"deqQueue", "enqCheck", "enqAcquire"}
    PROVE  \A x \in Threads : ~Emptied(x)
<1> SUFFICES ASSUME NEW x \in Threads, Emptied(x) PROVE FALSE
  OBVIOUS
<1>1. t \in Threads /\ Role(t) /\ Role(x)
  BY DEF RoleInv, Threads
<1>2. "dequeue" \in Runs[t] \/ "enqueue" \in Runs[t]
  BY <1>1 DEF Role, DequeuePC, EnqueuePC
<1>3. x # t
  BY DEF Emptied
<1>4. CASE pc[x] = "deqReset"
  <2>1. x \in AppThreads
    BY <1>1, <1>4 DEF Role, FlushPC
  <2> QED BY <1>3, <1>4, <2>1 DEF LockInv, LockedPC
<1>5. CASE pc[x] # "deqReset"
  <2>1. Runs[x] \cap {"reset", "flush", "fini"} # {}
    BY <1>1, <1>5 DEF Emptied, Role, FlushPC, FiniPC
  <2> QED BY <1>1, <1>2, <1>3, <2>1 DEF Careful
<1> QED BY <1>4, <1>5

\* A reset or flushed queue stays empty until its callback is over.
LEMMA EmptyStep ==
    ASSUME Careful, TypeInv, LockInv, RoleInv, EmptyInv, [Next]_vars
    PROVE  EmptyInv'
<1> USE SurfaceAssumption DEF EmptyInv, Emptied, Empty, ClearQueue, Cleared, Released,
        Threads, TypeInv, TypeOK, QueueTypes,
        ThreadTypes, queueVars, bufferVars, listVars, flagVars, vblankVars, threadVars,
        callbackVars, envVars, Goto, GotoWith, Return, Acquire,
        Callback, At, Ready, Dispatching
<1>1. ASSUME NEW t \in AppThreads, DequeueReset(t) PROVE EmptyInv'
  BY <1>1 DEF DequeueReset
<1>2. ASSUME NEW t \in AppThreads, DequeuePend(t) PROVE EmptyInv'
  BY <1>2 DEF DequeuePend
<1>3. ASSUME NEW t \in AppThreads, DequeueWait(t) PROVE EmptyInv'
  BY <1>3 DEF DequeueWait
<1>3t. ASSUME NEW t \in AppThreads, DequeueTest(t) PROVE EmptyInv'
  BY <1>3t DEF DequeueTest
<1>4. ASSUME NEW t \in AppThreads, DequeueRelock(t) PROVE EmptyInv'
  BY <1>4 DEF DequeueRelock
<1>5. ASSUME NEW t \in AppThreads, DequeueFail(t) PROVE EmptyInv'
  BY <1>5 DEF DequeueFail
<1>6. ASSUME NEW t \in AppThreads, DequeueQueue(t) PROVE EmptyInv'
  <2>1. \A x \in Threads : ~Emptied(x)
    BY <1>6, NotEmptied DEF DequeueQueue
  <2> QED BY <1>6, <2>1 DEF DequeueQueue
<1>7. ASSUME NEW t \in AppThreads, DequeueRef(t) PROVE EmptyInv'
  BY <1>7 DEF DequeueRef
<1>7f. ASSUME NEW t \in AppThreads, DequeueFlag(t) PROVE EmptyInv'
  BY <1>7f DEF DequeueFlag
<1>8. ASSUME NEW t \in AppThreads, DequeuePush(t) PROVE EmptyInv'
  BY <1>8 DEF DequeuePush
<1>9. ASSUME NEW t \in AppThreads, VblankWait(t) PROVE EmptyInv'
  BY <1>9 DEF VblankWait
<1>9c. ASSUME NEW t \in AppThreads, VblankCall(t) PROVE EmptyInv'
  BY <1>9c DEF VblankCall
<1>10. ASSUME NEW t \in AppThreads, VblankRelock(t) PROVE EmptyInv'
  BY <1>10 DEF VblankRelock
<1>11. ASSUME NEW t \in AppThreads, EnqueueTrack(t) PROVE EmptyInv'
  BY <1>11 DEF EnqueueTrack
<1>12. ASSUME NEW t \in AppThreads, EnqueueCheck(t) PROVE EmptyInv'
  <2>1. \A x \in Threads : ~Emptied(x)
    BY <1>12, NotEmptied DEF EnqueueCheck
  <2> QED BY <1>12, <2>1 DEF EnqueueCheck
<1>13. ASSUME NEW t \in AppThreads, EnqueueUnref(t) PROVE EmptyInv'
  BY <1>13 DEF EnqueueUnref
<1>14. ASSUME NEW t \in AppThreads, EnqueueAcquire(t) PROVE EmptyInv'
  <2>1. \A x \in Threads : ~Emptied(x)
    BY <1>14, NotEmptied DEF EnqueueAcquire
  <2> QED BY <1>14, <2>1 DEF EnqueueAcquire
<1>15. ASSUME NEW t \in AppThreads, EnqueueRef(t) PROVE EmptyInv'
  BY <1>15 DEF EnqueueRef
<1>16. ASSUME NEW t \in AppThreads, Commit(t) PROVE EmptyInv'
  BY <1>16 DEF Commit
<1>17. ASSUME NEW t \in AppThreads, CommitTrack(t) PROVE EmptyInv'
  BY <1>17 DEF CommitTrack
<1>18. ASSUME NEW t \in AppThreads, CommitArm(t) PROVE EmptyInv'
  BY <1>18 DEF CommitArm
<1>19. ASSUME NEW t \in AppThreads, CommitArmed(t) PROVE EmptyInv'
  BY <1>19 DEF CommitArmed
<1>20. ASSUME NEW t \in AppThreads, FiniQueue(t) PROVE EmptyInv'
  BY <1>20 DEF FiniQueue
<1>21. ASSUME NEW t \in AppThreads, FiniDrop(t) PROVE EmptyInv'
  BY <1>21 DEF FiniDrop
<1>22. ASSUME NEW t \in AppThreads, DequeueCall(t) PROVE EmptyInv'
  BY <1>22 DEF DequeueCall
<1>23. ASSUME NEW t \in AppThreads, NEW b \in Buffers, EnqueueCall(t, b) PROVE EmptyInv'
  BY <1>23 DEF EnqueueCall
<1>24. ASSUME NEW t \in AppThreads, FiniCall(t) PROVE EmptyInv'
  BY <1>24 DEF FiniCall
<1>25. ASSUME NEW x \in Threads, ReleaseTrack(x) PROVE EmptyInv'
  BY <1>25 DEF ReleaseTrack
<1>26. ASSUME NEW x \in Threads, ReleaseQueue(x) PROVE EmptyInv'
  BY <1>26 DEF ReleaseQueue
<1>27. ASSUME NEW x \in Threads, ReleaseUnref(x) PROVE EmptyInv'
  BY <1>27 DEF ReleaseUnref
<1>28. ASSUME NEW x \in Threads, ResetCallback(x) PROVE EmptyInv'
  BY <1>28 DEF ResetCallback
<1>29. ASSUME NEW x \in Threads, FlushQueue(x) PROVE EmptyInv'
  BY <1>29 DEF FlushQueue
<1>30. ASSUME NEW x \in Threads, FlushDrop(x) PROVE EmptyInv'
  BY <1>30 DEF FlushDrop
<1>31. ASSUME NEW x \in Threads, ReleaseCallback(x) PROVE EmptyInv'
  BY <1>31 DEF ReleaseCallback
<1>32. ASSUME NEW x \in Threads, ResetEvent(x) PROVE EmptyInv'
  BY <1>32 DEF ResetEvent
<1>33. ASSUME NEW x \in Threads, VblankCallback(x) PROVE EmptyInv'
  BY <1>33 DEF VblankCallback
<1>34. ASSUME NEW x \in Threads, ResizeCallback(x) PROVE EmptyInv'
  BY <1>34 DEF ResizeCallback
<1>35. ASSUME NEW x \in Threads, FlushCallback(x) PROVE EmptyInv'
  BY <1>35 DEF FlushCallback
<1>35o. ASSUME NEW x \in Threads, OtherEvent(x) PROVE EmptyInv'
  BY <1>35o DEF OtherEvent
<1>36. ASSUME NEW b \in Buffers, ServerRelease(b) PROVE EmptyInv'
  BY <1>36 DEF ServerRelease
<1>37. CASE Disconnect
  BY <1>37 DEF Disconnect
<1>38. CASE UNCHANGED vars
  BY <1>38 DEF vars
<1> HIDE DEF EmptyInv, Emptied, Empty, ClearQueue, Cleared, Released,
        Threads, TypeInv, TypeOK, QueueTypes,
        ThreadTypes, queueVars, bufferVars, listVars, flagVars, vblankVars, threadVars,
        callbackVars, envVars
<1> QED
  BY <1>1, <1>2, <1>3, <1>3t, <1>4, <1>5, <1>6, <1>7, <1>7f, <1>8, <1>9, <1>9c, <1>10, <1>11,
     <1>12, <1>13, <1>14, <1>15, <1>16, <1>17, <1>18, <1>19, <1>20, <1>21, <1>22, <1>23, <1>24, <1>25, <1>26,
     <1>27, <1>28, <1>29, <1>30, <1>31, <1>32, <1>33, <1>34, <1>35, <1>35o, <1>36, <1>37, <1>38
     DEF Next, CallStep, CallbackStep, Begin, Finished

\* When the surface goes, every other thread is outside its calls and the queue
\* and the list of attached buffers are empty.
LEMMA FiniGone ==
    ASSUME Careful, Inv, NEW t \in AppThreads, FiniDrop(t)
    PROVE  FiniInv'
<1>1. /\ pc[t] = "finiDrop" /\ cb[t] = "none" /\ node' = node /\ cb' = cb
      /\ attached' = [b \in Buffers |-> 0] /\ pc' = [pc EXCEPT ![t] = "idle"]
  BY DEF FiniDrop, At, Ready, queueVars, callbackVars, DropAttached, Goto
<1>2. t \in Threads /\ "fini" \in Runs[t] /\ Empty
  BY <1>1 DEF Inv, RoleInv, Role, FiniPC, EmptyInv, Emptied, Threads
<1>3. \A b \in Buffers : node'[b] = "none" /\ attached'[b] = 0
  BY <1>1, <1>2 DEF Empty
<1>4. \A x \in Threads : cb'[x] \in {"none", "resetCb"}
  <2> TAKE x \in Threads
  <2>1. cb[x] \in ReleasePC => x = t
    BY <1>2 DEF Inv, RoleInv, Role, Careful
  <2>2. cb[x] \in CallbackPC
    BY DEF Inv, TypeInv, TypeOK, ThreadTypes
  <2> QED BY <1>1, <2>1, <2>2 DEF CallbackPC, ReleasePC
<1>5. \A u \in AppThreads : pc'[u] \in {"idle"} \cup FlushPC \cup FiniPC
  <2> TAKE u \in AppThreads
  <2>1. CASE u = t
    BY <1>1, <2>1 DEF Inv, TypeInv, TypeOK, ThreadTypes, Threads
  <2>2. CASE u # t
    <3>1. u \in Threads /\ Role(u) /\ pc'[u] = pc[u]
      BY <1>1, <2>2 DEF Inv, RoleInv, Threads
    <3>2. "dequeue" \notin Runs[u] /\ "enqueue" \notin Runs[u]
      BY <1>2, <2>2, <3>1 DEF Careful
    <3>3. pc[u] \in LockedPC \cup UnlockedPC
      BY <3>1 DEF Inv, TypeInv, TypeOK, ThreadTypes
    <3> QED BY <3>1, <3>2, <3>3 DEF Role, DequeuePC, EnqueuePC, FlushPC, FiniPC, LockedPC, UnlockedPC
  <2> QED BY <2>1, <2>2
<1> QED BY <1>3, <1>4, <1>5 DEF FiniInv

\* A surface that is gone hears of no release.
LEMMA ReleaseAlive ==
    ASSUME Careful, Inv, NEW x \in Threads, ReleaseCallback(x)
    PROVE  alive
<1>1. PICK b \in Buffers : scanout[b] = "released"
  BY DEF ReleaseCallback
<1>2. attached[b] > 0
  BY <1>1, ReleasedAttached DEF ReleaseCallback
<1> QED BY <1>2 DEF Inv, FiniInv

\* Nothing comes back to a surface that is gone.
LEMMA FiniStep ==
    ASSUME Careful, Inv, [Next]_vars
    PROVE  FiniInv'
<1> TypeInv /\ FiniInv
  BY DEF Inv
<1> USE SurfaceAssumption DEF FiniInv, FlushPC, FiniPC, ClearQueue, Cleared, Released,
        Threads, TypeInv, TypeOK, QueueTypes,
        ListTypes, ThreadTypes, queueVars, bufferVars, listVars, flagVars, vblankVars,
        threadVars, callbackVars, envVars, Goto, GotoWith, Return, Acquire,
        Callback, At, Ready, Dispatching
<1>1. ASSUME NEW t \in AppThreads, DequeueReset(t) PROVE FiniInv'
  BY <1>1 DEF DequeueReset
<1>2. ASSUME NEW t \in AppThreads, DequeuePend(t) PROVE FiniInv'
  BY <1>2 DEF DequeuePend
<1>3. ASSUME NEW t \in AppThreads, DequeueWait(t) PROVE FiniInv'
  BY <1>3 DEF DequeueWait
<1>3t. ASSUME NEW t \in AppThreads, DequeueTest(t) PROVE FiniInv'
  BY <1>3t DEF DequeueTest
<1>4. ASSUME NEW t \in AppThreads, DequeueRelock(t) PROVE FiniInv'
  BY <1>4 DEF DequeueRelock
<1>5. ASSUME NEW t \in AppThreads, DequeueFail(t) PROVE FiniInv'
  BY <1>5 DEF DequeueFail
<1>6. ASSUME NEW t \in AppThreads, DequeueQueue(t) PROVE FiniInv'
  BY <1>6 DEF DequeueQueue
<1>7. ASSUME NEW t \in AppThreads, DequeueRef(t) PROVE FiniInv'
  BY <1>7 DEF DequeueRef
<1>7f. ASSUME NEW t \in AppThreads, DequeueFlag(t) PROVE FiniInv'
  BY <1>7f DEF DequeueFlag
<1>8. ASSUME NEW t \in AppThreads, DequeuePush(t) PROVE FiniInv'
  BY <1>8 DEF DequeuePush
<1>9. ASSUME NEW t \in AppThreads, VblankWait(t) PROVE FiniInv'
  BY <1>9 DEF VblankWait
<1>9c. ASSUME NEW t \in AppThreads, VblankCall(t) PROVE FiniInv'
  BY <1>9c DEF VblankCall
<1>10. ASSUME NEW t \in AppThreads, VblankRelock(t) PROVE FiniInv'
  BY <1>10 DEF VblankRelock
<1>11. ASSUME NEW t \in AppThreads, EnqueueTrack(t) PROVE FiniInv'
  BY <1>11 DEF EnqueueTrack
<1>12. ASSUME NEW t \in AppThreads, EnqueueCheck(t) PROVE FiniInv'
  BY <1>12 DEF EnqueueCheck
<1>13. ASSUME NEW t \in AppThreads, EnqueueUnref(t) PROVE FiniInv'
  BY <1>13 DEF EnqueueUnref
<1>14. ASSUME NEW t \in AppThreads, EnqueueAcquire(t) PROVE FiniInv'
  BY <1>14 DEF EnqueueAcquire
<1>15. ASSUME NEW t \in AppThreads, EnqueueRef(t) PROVE FiniInv'
  BY <1>15 DEF EnqueueRef
<1>16. ASSUME NEW t \in AppThreads, Commit(t) PROVE FiniInv'
  BY <1>16 DEF Commit
<1>17. ASSUME NEW t \in AppThreads, CommitTrack(t) PROVE FiniInv'
  BY <1>17 DEF CommitTrack
<1>18. ASSUME NEW t \in AppThreads, CommitArm(t) PROVE FiniInv'
  BY <1>18 DEF CommitArm
<1>19. ASSUME NEW t \in AppThreads, CommitArmed(t) PROVE FiniInv'
  BY <1>19 DEF CommitArmed
<1>20. ASSUME NEW t \in AppThreads, FiniQueue(t) PROVE FiniInv'
  BY <1>20 DEF FiniQueue
<1>21. ASSUME NEW t \in AppThreads, FiniDrop(t) PROVE FiniInv'
  BY <1>21, FiniGone
<1>22. ASSUME NEW t \in AppThreads, DequeueCall(t) PROVE FiniInv'
  BY <1>22 DEF DequeueCall
<1>23. ASSUME NEW t \in AppThreads, NEW b \in Buffers, EnqueueCall(t, b) PROVE FiniInv'
  BY <1>23 DEF EnqueueCall
<1>24. ASSUME NEW t \in AppThreads, FiniCall(t) PROVE FiniInv'
  BY <1>24 DEF FiniCall
<1>25. ASSUME NEW x \in Threads, ReleaseTrack(x) PROVE FiniInv'
  BY <1>25 DEF ReleaseTrack
<1>26. ASSUME NEW x \in Threads, ReleaseQueue(x) PROVE FiniInv'
  BY <1>26 DEF ReleaseQueue
<1>27. ASSUME NEW x \in Threads, ReleaseUnref(x) PROVE FiniInv'
  BY <1>27 DEF ReleaseUnref
<1>28. ASSUME NEW x \in Threads, ResetCallback(x) PROVE FiniInv'
  BY <1>28 DEF ResetCallback
<1>29. ASSUME NEW x \in Threads, FlushQueue(x) PROVE FiniInv'
  BY <1>29 DEF FlushQueue
<1>30. ASSUME NEW x \in Threads, FlushDrop(x) PROVE FiniInv'
  BY <1>30 DEF FlushDrop, DropAttached
<1>31. ASSUME NEW x \in Threads, ReleaseCallback(x) PROVE FiniInv'
  <2>1. alive
    BY <1>31, ReleaseAlive
  <2> QED BY <1>31, <2>1 DEF ReleaseCallback
<1>32. ASSUME NEW x \in Threads, ResetEvent(x) PROVE FiniInv'
  BY <1>32 DEF ResetEvent
<1>33. ASSUME NEW x \in Threads, VblankCallback(x) PROVE FiniInv'
  BY <1>33 DEF VblankCallback
<1>34. ASSUME NEW x \in Threads, ResizeCallback(x) PROVE FiniInv'
  BY <1>34 DEF ResizeCallback
<1>35. ASSUME NEW x \in Threads, FlushCallback(x) PROVE FiniInv'
  BY <1>35 DEF FlushCallback
<1>35o. ASSUME NEW x \in Threads, OtherEvent(x) PROVE FiniInv'
  BY <1>35o DEF OtherEvent
<1>36. ASSUME NEW b \in Buffers, ServerRelease(b) PROVE FiniInv'
  BY <1>36 DEF ServerRelease
<1>37. CASE Disconnect
  BY <1>37 DEF Disconnect
<1>38. CASE UNCHANGED vars
  BY <1>38 DEF vars
<1> HIDE DEF FiniInv, FlushPC, FiniPC, ClearQueue, Cleared, Released,
        Threads, TypeInv, TypeOK, QueueTypes,
        ListTypes, ThreadTypes, queueVars, bufferVars, listVars, flagVars, vblankVars,
        threadVars, callbackVars, envVars
<1> QED
  BY <1>1, <1>2, <1>3, <1>3t, <1>4, <1>5, <1>6, <1>7, <1>7f, <1>8, <1>9, <1>9c, <1>10, <1>11,
     <1>12, <1>13, <1>14, <1>15, <1>16, <1>17, <1>18, <1>19, <1>20, <1>21, <1>22, <1>23, <1>24, <1>25, <1>26,
     <1>27, <1>28, <1>29, <1>30, <1>31, <1>32, <1>33, <1>34, <1>35, <1>35o, <1>36, <1>37, <1>38
     DEF Next, CallStep, CallbackStep, Begin, Finished

\* No thread has a buffer in the queue when it is reset or flushed.
LEMMA ClearSafe ==
    ASSUME Careful, Inv, NEW x \in Threads, cb[x] = "none", pc[x] \in DispatchPC \cup FiniPC,
           Runs[x] \cap {"reset", "flush", "fini"} # {}
    PROVE  \A u \in AppThreads : pc[u] \notin Holding
<1> TAKE u \in AppThreads
<1>1. CASE u = x
  BY <1>1 DEF DispatchPC, FiniPC, Holding, Fetched, Given, Queued, Leaving
<1>2. CASE u # x
  <2>1. u \in Threads /\ Role(u) /\ "dequeue" \notin Runs[u] /\ "enqueue" \notin Runs[u]
    BY <1>2 DEF Inv, RoleInv, Threads, Careful
  <2> QED BY <2>1 DEF Role, DequeuePC, EnqueuePC, Holding, Fetched, Given, Queued, Leaving
<1> QED BY <1>1, <1>2

\* The call resets the queue with the lock held, or leaves the buffers alone.
LEMMA DequeueCallBooks == ASSUME Inv, NEW t \in AppThreads, DequeueCall(t) PROVE Books'
<1>1. /\ pc[t] = "idle" /\ lock = NoThread /\ buf' = buf /\ cb' = cb /\ cbBuf' = cbBuf
      /\ attached' = attached /\ held' = held
  BY DEF DequeueCall, At, Acquire, listVars, callbackVars
<1>2. PICK l \in {"deqReset", "deqPend"} : Goto(t, l)
  BY DEF DequeueCall
<1>3. \A u \in AppThreads : pc'[u] = pc[u] \/ (pc'[u] \notin Holding /\ pc[u] \notin Holding)
  BY <1>1, <1>2 DEF Inv, TypeInv, TypeOK, ThreadTypes, Threads, Goto, Holding, Fetched, Given, Queued,
     Leaving
<1>4. CASE ClearQueue
  <2>1. Still
    BY <1>1, <1>3 DEF Still
  <2>2. \A u \in AppThreads : pc[u] \in Holding => pc[u] \in Given
    <3> TAKE u \in AppThreads
    <3>1. u # NoThread
      BY SurfaceAssumption DEF Threads
    <3>2. pc[u] \notin LockedPC
      BY <1>1, <3>1 DEF Inv, LockInv
    <3> QED BY <3>2 DEF LockedPC, Holding, Fetched, Given, Queued, Leaving
  <2> QED BY <1>1, <1>4, <2>1, <2>2, ClearBooks DEF Inv, Books
<1>5. CASE UNCHANGED <<queueVars, bufferVars>>
  <2>1. Quiet
    BY <1>1, <1>3, <1>5 DEF Quiet, queueVars, bufferVars
  <2> QED BY <2>1, QuietBooks DEF Inv, Books
<1> QED BY <1>4, <1>5 DEF DequeueCall

\* The reset callback of the dequeue call.
LEMMA DequeueResetBooks == ASSUME Inv, NEW t \in AppThreads, DequeueReset(t) PROVE Books'
<1>1. /\ pc[t] = "deqReset" /\ Goto(t, "deqPend") /\ buf' = buf /\ cb' = cb /\ cbBuf' = cbBuf
      /\ attached' = attached /\ held' = held /\ node' = node /\ ref' = ref
      /\ wlBuffer' = wlBuffer /\ scanout' = scanout /\ bufReset' = Flagged
  BY DEF DequeueReset, At, queueVars, listVars, callbackVars
<1>2. Empty
  BY <1>1 DEF Inv, EmptyInv, Emptied, Threads
<1>3. Still
  BY <1>1 DEF Still, Inv, TypeInv, TypeOK, ThreadTypes, Threads, Goto, Holding, Fetched, Given, Queued,
     Leaving
<1> QED BY <1>1, <1>2, <1>3, FlagBooks DEF Inv, Books

\* The reset callback of an event.
LEMMA ResetCallbackBooks == ASSUME Inv, NEW x \in Threads, ResetCallback(x) PROVE Books'
<1>1. /\ cb[x] = "resetCb" /\ Callback(x, "none", NoBuffer) /\ pc' = pc /\ buf' = buf
      /\ attached' = attached /\ held' = held /\ node' = node /\ ref' = ref
      /\ wlBuffer' = wlBuffer /\ scanout' = scanout /\ bufReset' = Flagged
  BY DEF ResetCallback, queueVars, listVars, threadVars
<1>2. Empty /\ cbBuf[x] = NoBuffer
  BY <1>1 DEF Inv, EmptyInv, Emptied, RoleInv, Role
<1>3. Still
  BY <1>1, <1>2 DEF Still, Inv, TypeInv, TypeOK, ThreadTypes, Callback, ReleasePC
<1> QED BY <1>1, <1>2, <1>3, FlagBooks DEF Inv, Books

\* An event resets the queue.
LEMMA ResetEventBooks == ASSUME Careful, Inv, NEW x \in Threads, ResetEvent(x) PROVE Books'
<1>1. /\ cb[x] = "none" /\ Callback(x, "resetCb", NoBuffer) /\ pc' = pc /\ buf' = buf
      /\ attached' = attached /\ held' = held /\ ClearQueue /\ "reset" \in Runs[x]
      /\ pc[x] \in DispatchPC
  BY DEF ResetEvent, Dispatching, Ready, listVars, threadVars, DispatchPC
<1>2. cbBuf[x] = NoBuffer
  BY <1>1 DEF Inv, RoleInv, Role
<1>3. Still
  BY <1>1, <1>2 DEF Still, Inv, TypeInv, TypeOK, ThreadTypes, Callback, ReleasePC
<1> QED BY <1>1, <1>3, ClearSafe, ClearBooks DEF Inv, Books

\* A flush empties the queue, or its dispatch failed.
LEMMA FlushQueueBooks == ASSUME Careful, Inv, NEW x \in Threads, FlushQueue(x) PROVE Books'
<1>1. /\ cb[x] = "none" /\ pc[x] = "flushPend" /\ buf' = buf
      /\ attached' = attached /\ held' = held
  BY DEF FlushQueue, At, Ready, listVars
<1>2. cbBuf[x] = NoBuffer /\ "flush" \in Runs[x]
  BY <1>1 DEF Inv, RoleInv, Role, FlushPC
<1>3. PICK l \in {"idle", "flushDrop"} : Goto(x, l)
  BY DEF FlushQueue
<1>4. \A u \in AppThreads : pc'[u] = pc[u] \/ (pc'[u] \notin Holding /\ pc[u] \notin Holding)
  BY <1>1, <1>3 DEF Inv, TypeInv, TypeOK, ThreadTypes, Threads, Goto, Holding, Fetched, Given, Queued,
     Leaving
<1>5. CASE ClearQueue /\ (Callback(x, "resetCb", NoBuffer) \/ UNCHANGED callbackVars)
  <2>1. Still
    BY <1>1, <1>2, <1>4, <1>5 DEF Still, Inv, TypeInv, TypeOK, ThreadTypes, Callback, ReleasePC,
       callbackVars
  <2>2. \A u \in AppThreads : pc[u] \notin Holding
    BY <1>1, <1>2, ClearSafe DEF DispatchPC
  <2> QED BY <1>1, <1>5, <2>1, <2>2, ClearBooks DEF Inv, Books
<1>6. CASE UNCHANGED <<node, bufferVars, callbackVars>>
  <2>1. Quiet
    BY <1>1, <1>4, <1>6 DEF Quiet, bufferVars, callbackVars
  <2> QED BY <2>1, QuietBooks DEF Inv, Books
<1> QED BY <1>5, <1>6 DEF FlushQueue

\* The destruction empties the queue.
LEMMA FiniQueueBooks == ASSUME Careful, Inv, NEW t \in AppThreads, FiniQueue(t) PROVE Books'
<1>1. /\ cb[t] = "none" /\ pc[t] = "finiPend" /\ Goto(t, "finiDrop") /\ buf' = buf
      /\ attached' = attached /\ held' = held /\ cb' = cb /\ cbBuf' = cbBuf /\ ClearQueue
  BY DEF FiniQueue, At, Ready, listVars, callbackVars
<1>2. t \in Threads /\ "fini" \in Runs[t]
  BY <1>1 DEF Inv, RoleInv, Role, FiniPC, Threads
<1>3. Still
  BY <1>1 DEF Still, Inv, TypeInv, TypeOK, ThreadTypes, Threads, Goto, Holding, Fetched, Given, Queued,
     Leaving
<1>4. \A u \in AppThreads : pc[u] \notin Holding
  BY <1>1, <1>2, ClearSafe DEF FiniPC
<1> QED BY <1>1, <1>3, <1>4, ClearBooks DEF Inv, Books

\* The attached buffers are dropped by the thread that hears of their release,
\* which is in no callback, while no thread has a buffer.
LEMMA DropSafe ==
    ASSUME Careful, Inv, NEW x \in Threads, DropAttached, node' = node, held' = held,
           cb' = cb, cbBuf' = cbBuf, buf' = buf, Goto(x, "idle"),
           cb[x] = "none", pc[x] \in {"flushDrop", "finiDrop"}
    PROVE  Books'
<1>1. Runs[x] \cap {"flush", "fini"} # {} /\ Empty
  BY DEF Inv, RoleInv, Role, FlushPC, FiniPC, EmptyInv, Emptied
<1>2. \A u \in AppThreads : pc[u] \notin Holding
  BY <1>1, ClearSafe DEF DispatchPC, FiniPC
<1>3. \A y \in Threads : cb[y] \notin ReleasePC
  <2> TAKE y \in Threads
  <2>1. cb[y] \in ReleasePC => y = x
    BY <1>1 DEF Inv, RoleInv, Role, Careful
  <2> QED BY <2>1 DEF ReleasePC
<1>4. Still
  BY DEF Still, Inv, TypeInv, TypeOK, ThreadTypes, Threads, Goto, Holding, Fetched, Given, Queued,
     Leaving
<1> QED BY <1>1, <1>2, <1>3, <1>4, DropBooks DEF Inv, Books

\* The flush and the destruction drop them.
LEMMA FlushDropBooks == ASSUME Careful, Inv, NEW x \in Threads, FlushDrop(x) PROVE Books'
  BY DropSafe DEF FlushDrop, At, Ready, queueVars, callbackVars

\* The destruction drops them, too.
LEMMA FiniDropBooks == ASSUME Careful, Inv, NEW t \in AppThreads, FiniDrop(t) PROVE Books'
  BY DropSafe DEF FiniDrop, At, Ready, queueVars, callbackVars, Threads

\* Every step keeps the books.
LEMMA BooksStep ==
    ASSUME Careful, Inv, [Next]_vars
    PROVE  Books'
<1> TypeInv /\ ThreadInv
  BY DEF Inv
<1> USE DEF ThreadInv
<1> USE SurfaceAssumption DEF Quiet, TypeInv, TypeOK, ThreadTypes, Holding, Fetched, Given, Queued, Leaving,
        Threads, queueVars,
        bufferVars, listVars, flagVars, vblankVars, threadVars, callbackVars, envVars, Goto, GotoWith,
        Return, Acquire, Callback, At, Ready
<1>1. ASSUME NEW t \in AppThreads, DequeueReset(t) PROVE Books'
  BY <1>1, DequeueResetBooks
<1>2. ASSUME NEW t \in AppThreads, DequeuePend(t) PROVE Books'
  <2>1. Quiet
    BY <1>2 DEF DequeuePend
  <2> QED BY <2>1, QuietBooks DEF Inv, Books
<1>3. ASSUME NEW t \in AppThreads, DequeueWait(t) PROVE Books'
  <2>1. Quiet
    BY <1>3 DEF DequeueWait
  <2> QED BY <2>1, QuietBooks DEF Inv, Books
<1>3t. ASSUME NEW t \in AppThreads, DequeueTest(t) PROVE Books'
  <2>1. Quiet
    BY <1>3t DEF DequeueTest
  <2> QED BY <2>1, QuietBooks DEF Inv, Books
<1>4. ASSUME NEW t \in AppThreads, DequeueRelock(t) PROVE Books'
  <2>1. Quiet
    BY <1>4 DEF DequeueRelock
  <2> QED BY <2>1, QuietBooks DEF Inv, Books
<1>5. ASSUME NEW t \in AppThreads, DequeueFail(t) PROVE Books'
  <2>1. Quiet
    BY <1>5 DEF DequeueFail
  <2> QED BY <2>1, QuietBooks DEF Inv, Books
<1>6. ASSUME NEW t \in AppThreads, DequeueQueue(t) PROVE Books'
  BY <1>6, DequeueQueueBooks
<1>7. ASSUME NEW t \in AppThreads, DequeueRef(t) PROVE Books'
  BY <1>7, DequeueRefBooks
<1>7f. ASSUME NEW t \in AppThreads, DequeueFlag(t) PROVE Books'
  BY <1>7f, DequeueFlagBooks
<1>8. ASSUME NEW t \in AppThreads, DequeuePush(t) PROVE Books'
  BY <1>8, DequeuePushBooks
<1>9. ASSUME NEW t \in AppThreads, VblankWait(t) PROVE Books'
  <2>1. Quiet
    BY <1>9 DEF VblankWait
  <2> QED BY <2>1, QuietBooks DEF Inv, Books
<1>9c. ASSUME NEW t \in AppThreads, VblankCall(t) PROVE Books'
  <2>1. Quiet
    BY <1>9c DEF VblankCall
  <2> QED BY <2>1, QuietBooks DEF Inv, Books
<1>10. ASSUME NEW t \in AppThreads, VblankRelock(t) PROVE Books'
  <2>1. Quiet
    BY <1>10 DEF VblankRelock
  <2> QED BY <2>1, QuietBooks DEF Inv, Books
<1>11. ASSUME NEW t \in AppThreads, EnqueueTrack(t) PROVE Books'
  <2>1. Quiet
    BY <1>11 DEF EnqueueTrack
  <2> QED BY <2>1, QuietBooks DEF Inv, Books
<1>12. ASSUME NEW t \in AppThreads, EnqueueCheck(t) PROVE Books'
  BY <1>12, EnqueueCheckBooks
<1>13. ASSUME NEW t \in AppThreads, EnqueueUnref(t) PROVE Books'
  BY <1>13, EnqueueUnrefBooks
<1>14. ASSUME NEW t \in AppThreads, EnqueueAcquire(t) PROVE Books'
  BY <1>14, EnqueueAcquireBooks
<1>15. ASSUME NEW t \in AppThreads, EnqueueRef(t) PROVE Books'
  BY <1>15, EnqueueRefBooks
<1>16. ASSUME NEW t \in AppThreads, Commit(t) PROVE Books'
  BY <1>16, CommitBooks
<1>17. ASSUME NEW t \in AppThreads, CommitTrack(t) PROVE Books'
  BY <1>17, CommitTrackBooks
<1>18. ASSUME NEW t \in AppThreads, CommitArm(t) PROVE Books'
  <2>1. Quiet
    BY <1>18 DEF CommitArm
  <2> QED BY <2>1, QuietBooks DEF Inv, Books
<1>19. ASSUME NEW t \in AppThreads, CommitArmed(t) PROVE Books'
  <2>1. Quiet
    BY <1>19 DEF CommitArmed
  <2> QED BY <2>1, QuietBooks DEF Inv, Books
<1>20. ASSUME NEW t \in AppThreads, FiniQueue(t) PROVE Books'
  BY <1>20, FiniQueueBooks
<1>21. ASSUME NEW t \in AppThreads, FiniDrop(t) PROVE Books'
  BY <1>21, FiniDropBooks
<1>22. ASSUME NEW t \in AppThreads, DequeueCall(t) PROVE Books'
  BY <1>22, DequeueCallBooks
<1>23. ASSUME NEW t \in AppThreads, NEW b \in Buffers, EnqueueCall(t, b) PROVE Books'
  BY <1>23, EnqueueCallBooks
<1>24. ASSUME NEW t \in AppThreads, FiniCall(t) PROVE Books'
  <2>1. Quiet
    BY <1>24 DEF FiniCall
  <2> QED BY <2>1, QuietBooks DEF Inv, Books
<1>25. ASSUME NEW x \in Threads, ReleaseTrack(x) PROVE Books'
  BY <1>25, ReleaseTrackBooks
<1>26. ASSUME NEW x \in Threads, ReleaseQueue(x) PROVE Books'
  BY <1>26, ReleaseQueueBooks
<1>27. ASSUME NEW x \in Threads, ReleaseUnref(x) PROVE Books'
  BY <1>27, ReleaseUnrefBooks
<1>28. ASSUME NEW x \in Threads, ResetCallback(x) PROVE Books'
  BY <1>28, ResetCallbackBooks
<1>29. ASSUME NEW x \in Threads, FlushQueue(x) PROVE Books'
  BY <1>29, FlushQueueBooks
<1>30. ASSUME NEW x \in Threads, FlushDrop(x) PROVE Books'
  BY <1>30, FlushDropBooks
<1>31. ASSUME NEW x \in Threads, ReleaseCallback(x) PROVE Books'
  BY <1>31, ReleaseCallbackBooks
<1>32. ASSUME NEW x \in Threads, ResetEvent(x) PROVE Books'
  BY <1>32, ResetEventBooks
<1>33. ASSUME NEW x \in Threads, VblankCallback(x) PROVE Books'
  <2>1. Quiet
    BY <1>33 DEF VblankCallback
  <2> QED BY <2>1, QuietBooks DEF Inv, Books
<1>34. ASSUME NEW x \in Threads, ResizeCallback(x) PROVE Books'
  <2>1. Quiet
    BY <1>34 DEF ResizeCallback
  <2> QED BY <2>1, QuietBooks DEF Inv, Books
<1>35. ASSUME NEW x \in Threads, FlushCallback(x) PROVE Books'
  <2>1. Quiet
    BY <1>35 DEF FlushCallback
  <2> QED BY <2>1, QuietBooks DEF Inv, Books
<1>35o. ASSUME NEW x \in Threads, OtherEvent(x) PROVE Books'
  <2>1. Quiet
    BY <1>35o DEF OtherEvent
  <2> QED BY <2>1, QuietBooks DEF Inv, Books
<1>36. ASSUME NEW b \in Buffers, ServerRelease(b) PROVE Books'
  BY <1>36, ServerReleaseBooks
<1>37. CASE Disconnect
  <2>1. Quiet
    BY <1>37 DEF Disconnect
  <2> QED BY <2>1, QuietBooks DEF Inv, Books
<1>38. CASE UNCHANGED vars
  <2>1. Quiet
    BY <1>38 DEF vars
  <2> QED BY <2>1, QuietBooks DEF Inv, Books
<1> HIDE DEF ThreadInv, Quiet, TypeInv, TypeOK, ThreadTypes, Holding, Fetched, Given, Queued, Leaving,
        Threads, queueVars,
        bufferVars, listVars, flagVars, vblankVars, threadVars, callbackVars, envVars
<1> QED
  BY <1>1, <1>2, <1>3, <1>3t, <1>4, <1>5, <1>6, <1>7, <1>7f, <1>8, <1>9, <1>9c, <1>10, <1>11,
     <1>12, <1>13, <1>14, <1>15, <1>16, <1>17, <1>18, <1>19, <1>20, <1>21, <1>22, <1>23, <1>24, <1>25, <1>26,
     <1>27, <1>28, <1>29, <1>30, <1>31, <1>32, <1>33, <1>34, <1>35, <1>35o, <1>36, <1>37, <1>38
     DEF Next, CallStep, CallbackStep, Begin, Finished

\* A step of any thread or of the compositor keeps the invariant.
LEMMA InvStep == ASSUME Careful, Inv, [Next]_vars PROVE Inv'
<1>1. TypeInv' /\ LockInv'
  BY TypeStep, LockStep DEF Inv
<1>2. RoleInv' /\ EmptyInv' /\ FiniInv'
  BY RoleStep, EmptyStep, FiniStep DEF Inv
<1>3. Books'
  BY BooksStep
<1> QED BY <1>1, <1>2, <1>3 DEF Inv, Books

-----------------------------------------------------------------------------
(* What follows from the invariant                                         *)

\* Of the threads that have a reference on b there is one or none.
LEMMA InHandOnce ==
    ASSUME Inv, NEW b \in Buffers
    PROVE  Cardinality({t \in AppThreads : InHand(t, b)}) = One(Works(b, Referring))
<1>1. \A t \in AppThreads : InHand(t, b) <=> pc[t] \in Referring /\ buf[t] = b
  BY DEF InHand, Referring, Holding, Fetched, Given, Queued, Leaving
<1>2. CASE Works(b, Referring)
  <2>1. PICK t \in AppThreads : pc[t] \in Referring /\ buf[t] = b
    BY <1>2 DEF Works
  <2>2. {u \in AppThreads : InHand(u, b)} = {t}
    BY <1>1, <2>1 DEF Inv, ThreadInv
  <2> QED BY <1>2, <2>2, FS_Singleton DEF One
<1>3. CASE ~Works(b, Referring)
  <2>1. {u \in AppThreads : InHand(u, b)} = {}
    BY <1>1, <1>3 DEF Works
  <2> QED BY <1>3, <2>1, FS_EmptySet DEF One
<1> QED BY <1>2, <1>3

\* No path of dequeue, enqueue, release, reset, flush or fini drops a reference
\* twice or keeps one, if the backend's calls and callbacks are on their threads.
THEOREM RefsBalanced == ASSUME Careful PROVE Spec => []RefCountBalanced
<1>1. Inv => RefCountBalanced
  <2> SUFFICES ASSUME Inv, NEW b \in Buffers PROVE ref[b] = Owned(b)
    BY DEF RefCountBalanced
  <2>1. Counted(b)
    BY DEF Inv, Ledger, Entry
  <2> QED BY <2>1, InHandOnce DEF Counted, Owned, Releasers
<1>2. Inv /\ [Next]_vars => Inv'
  BY Careful, InvStep
<1> QED BY <1>1, <1>2, InvInit, PTL DEF Spec

\* No call, no callback and not the application goes on with a destroyed buffer.
THEOREM NeverDestroyed == ASSUME Careful PROVE Spec => []NoUseAfterDestroy
<1>1. Inv => NoUseAfterDestroy
  <2> SUFFICES ASSUME Inv PROVE NoUseAfterDestroy
    OBVIOUS
  <2>1. \A b \in Buffers : Counted(b) /\ Placed(b) /\ Shown(b) /\ attached[b] \in Nat
    BY Numbers DEF Inv, Ledger, Entry
  <2>2. \A b \in held : ref[b] > 0
    BY <2>1, Referenced DEF Inv, TypeInv, TypeOK, ListTypes
  <2>3. ASSUME NEW t \in AppThreads, buf[t] \in Buffers, pc[t] # "enqAcquire"
        PROVE  ref[buf[t]] > 0
    <3>1. pc[t] \in Holding
      BY <2>3 DEF Inv, ThreadInv
    <3>2. \A L : Works(buf[t], L) <=> pc[t] \in L
      BY <2>3, WorksAlone DEF Inv
    <3>3. CASE pc[t] = "deqRef"
      <4>1. node[buf[t]] = "dequeued"
        BY <2>1, <2>3, <3>2, <3>3 DEF Placed, Fetched
      <4> QED BY <2>1, <2>3, <4>1, Referenced
    <3>4. CASE pc[t] = "enqRef"
      <4>1. node[buf[t]] = "acquired"
        BY <2>1, <2>3, <3>2, <3>4 DEF Placed
      <4> QED BY <2>1, <2>3, <4>1, Referenced
    <3>5. CASE pc[t] \notin {"deqRef", "enqRef"}
      <4>1. Works(buf[t], Referring)
        BY <2>3, <3>1, <3>2, <3>5 DEF Referring
      <4> QED BY <2>1, <2>3, <4>1, Referenced
    <3> QED BY <3>3, <3>4, <3>5
  <2>4. ASSUME NEW x \in Threads, cbBuf[x] \in Buffers PROVE ref[cbBuf[x]] > 0
    <3>1. cb[x] \in ReleasePC
      BY <2>4, SurfaceAssumption DEF Inv, TypeInv, TypeOK, ThreadTypes, CallbackPC, ReleasePC, RoleInv, Role
    <3>2. CASE cb[x] = "relTrack"
      <4>1. attached[cbBuf[x]] > 0
        BY <2>1, <2>4, <3>2 DEF Shown, Called
      <4> QED BY <2>1, <2>4, <4>1, Referenced
    <3>3. CASE cb[x] # "relTrack"
      <4>1. Releasers(cbBuf[x]) # {}
        BY <3>1, <3>3 DEF Releasers, Releasing, ReleasePC
      <4> QED BY <2>1, <2>4, <4>1, Referenced
    <3> QED BY <3>2, <3>3
  <2> QED BY <2>2, <2>3, <2>4 DEF NoUseAfterDestroy
<1>2. Inv /\ [Next]_vars => Inv'
  BY Careful, InvStep
<1> QED BY <1>1, <1>2, InvInit, PTL DEF Spec

\* Whatever attached_buffers lists is still with the compositor, or its release
\* is on the way.
LEMMA AttachedShown ==
    ASSUME Inv, NEW b \in Buffers, attached[b] > 0
    PROVE  scanout[b] = "shown" \/ ReleaseDue(b)
<1>1. Shown(b) /\ scanout[b] \in Scanout
  BY Numbers DEF Inv, Ledger, Entry
<1>2. Called(b, {"relTrack"}) => ReleaseDue(b)
  BY DEF Called, ReleaseDue
<1> QED BY <1>1, <1>2 DEF Shown, Scanout, ReleaseDue

\* attached_buffers lists no buffer whose release has come.
THEOREM TrackedOnly == ASSUME Careful PROVE Spec => []TrackedUntilReleased
<1>1. Inv => TrackedUntilReleased
  BY AttachedShown DEF TrackedUntilReleased
<1>2. Inv /\ [Next]_vars => Inv'
  BY Careful, InvStep
<1> QED BY <1>1, <1>2, InvInit, PTL DEF Spec

\* After the surface is destroyed nothing of it is with the compositor or in a
\* callback, and the only buffers left are the application's.
THEOREM NothingLeft == ASSUME Careful PROVE Spec => []FiniLeavesNothing
<1>1. Inv => FiniLeavesNothing
  <2> SUFFICES ASSUME Inv, ~alive, NEW b \in Buffers
               PROVE  /\ scanout[b] = "idle" /\ \A x \in Threads : cbBuf[x] # b
                      /\ ref[b] > 0 => b \in held
    BY DEF FiniLeavesNothing
  <2>1. /\ \A t \in AppThreads : pc[t] \notin Holding
        /\ \A x \in Threads : cb[x] \in {"none", "resetCb"}
        /\ node[b] = "none" /\ attached[b] = 0
    BY DEF Inv, FiniInv, FlushPC, FiniPC, Holding, Fetched, Given, Queued, Leaving
  <2>2. Counted(b) /\ Shown(b)
    BY DEF Inv, Ledger, Entry
  <2>3. ~Works(b, {"track"}) /\ ~Works(b, Referring)
    BY <2>1 DEF Works, Holding, Leaving, Referring
  <2>4. \A x \in Threads : cbBuf[x] # b
    BY <2>1, SurfaceAssumption DEF Inv, RoleInv, Role
  <2>5. Releasers(b) = {}
    BY <2>4 DEF Releasers, Releasing
  <2>6. Cardinality({}) = 0
    BY FS_EmptySet
  <2>7. ref[b] = One(b \in held)
    BY <2>1, <2>2, <2>3, <2>5, <2>6 DEF Counted, One
  <2> QED BY <2>1, <2>2, <2>3, <2>4, <2>7 DEF Shown, One
<1>2. Inv /\ [Next]_vars => Inv'
  BY Careful, InvStep
<1> QED BY <1>1, <1>2, InvInit, PTL DEF Spec

\* Whatever the queue counts as taken is somewhere, unless a wl_buffer could not
\* be created: dequeue gives up the slot of that buffer.
THEOREM SlotsKept ==
    ASSUME Careful, "wl_buffer" \notin Faults PROVE Spec => []NoSlotLost
<1>1. Inv => NoSlotLost
  <2> SUFFICES ASSUME Inv, NEW b \in Buffers
               PROVE  /\ node[b] = "dequeued" => b \in held \/ \E t \in AppThreads : buf[t] = b
                      /\ node[b] = "dirty" => \E t \in AppThreads : buf[t] = b
                      /\ node[b] = "acquired" =>
                            \/ scanout[b] = "shown" \/ ReleaseDue(b)
                            \/ \E t \in AppThreads : buf[t] = b
    BY DEF NoSlotLost
  <2>1. Placed(b)
    BY DEF Inv, Ledger, Entry
  <2>2. \A L : Works(b, L) => \E t \in AppThreads : buf[t] = b
    BY DEF Works
  <2>3. Called(b, {"relQueue"}) => ReleaseDue(b)
    BY DEF Called, ReleaseDue
  <2> QED BY <2>1, <2>2, <2>3, AttachedShown DEF Placed
<1>2. Inv /\ [Next]_vars => Inv'
  BY Careful, InvStep
<1> QED BY <1>1, <1>2, InvInit, PTL DEF Spec

-----------------------------------------------------------------------------
(* Stale buffers                                                           *)

\* One thread dequeues, one buffer per frame.
OneFrame ==
    /\ MaxHeld = 1
    /\ \A x, y \in Threads : "dequeue" \in Runs[x] /\ "dequeue" \in Runs[y] => x = y

\* While it does, the application has no other buffer.
DrawnInv == \A t \in AppThreads : pc[t] \in DequeuePC => held = {}

\* A stale buffer that the application has or is about to get is one it can ask for.
ToldInv ==
    \A b \in Buffers :
        bufReset[b] /\ (b \in held \/ Works(b, {"deqPush"})) => reset \/ resized

\* With MaxHeld = 1 a dequeue begins with no buffer in the application's hands.
LEMMA NoneHeld == ASSUME OneFrame, TypeInv, Cardinality(held) < MaxHeld PROVE held = {}
<1>1. IsFiniteSet(held)
  BY SurfaceAssumption, FS_Subset DEF TypeInv, TypeOK, ListTypes
<1>2. Cardinality(held) \in Nat /\ Cardinality(held) = 0
  BY <1>1, FS_CardinalityType DEF OneFrame
<1> QED BY <1>1, <1>2, FS_EmptySet

\* Two threads that are inside dequeue are the same.
LEMMA OneDequeuer ==
    ASSUME OneFrame, RoleInv, NEW t \in AppThreads, NEW u \in AppThreads,
           pc[t] \in DequeuePC, pc[u] \in DequeuePC
    PROVE  t = u
  BY DEF OneFrame, RoleInv, Role, Threads

\* A dequeue never finds a buffer in the application's hands.
LEMMA DrawnStep ==
    ASSUME OneFrame, TypeInv, RoleInv, DrawnInv, [Next]_vars
    PROVE  DrawnInv'
<1> USE SurfaceAssumption DEF DrawnInv, DequeuePC, Threads, TypeInv, TypeOK, ThreadTypes,
        queueVars, bufferVars, listVars, flagVars, vblankVars, threadVars, callbackVars, envVars,
        Goto, GotoWith, Return, Acquire, Callback, At, Ready
<1>1. ASSUME NEW t \in AppThreads, DequeueReset(t) PROVE DrawnInv'
  BY <1>1 DEF DequeueReset
<1>2. ASSUME NEW t \in AppThreads, DequeuePend(t) PROVE DrawnInv'
  BY <1>2 DEF DequeuePend
<1>3. ASSUME NEW t \in AppThreads, DequeueWait(t) PROVE DrawnInv'
  BY <1>3 DEF DequeueWait
<1>3t. ASSUME NEW t \in AppThreads, DequeueTest(t) PROVE DrawnInv'
  BY <1>3t DEF DequeueTest
<1>4. ASSUME NEW t \in AppThreads, DequeueRelock(t) PROVE DrawnInv'
  BY <1>4 DEF DequeueRelock
<1>5. ASSUME NEW t \in AppThreads, DequeueFail(t) PROVE DrawnInv'
  BY <1>5 DEF DequeueFail
<1>6. ASSUME NEW t \in AppThreads, DequeueQueue(t) PROVE DrawnInv'
  BY <1>6 DEF DequeueQueue
<1>7. ASSUME NEW t \in AppThreads, DequeueRef(t) PROVE DrawnInv'
  BY <1>7 DEF DequeueRef
<1>7f. ASSUME NEW t \in AppThreads, DequeueFlag(t) PROVE DrawnInv'
  BY <1>7f DEF DequeueFlag
<1>8. ASSUME NEW t \in AppThreads, DequeuePush(t) PROVE DrawnInv'
  <2>1. \A u \in AppThreads : u # t => pc[u] \notin DequeuePC
    BY <1>8, OneDequeuer DEF DequeuePush
  <2> QED BY <1>8, <2>1 DEF DequeuePush
<1>9. ASSUME NEW t \in AppThreads, VblankWait(t) PROVE DrawnInv'
  BY <1>9 DEF VblankWait
<1>9c. ASSUME NEW t \in AppThreads, VblankCall(t) PROVE DrawnInv'
  BY <1>9c DEF VblankCall
<1>10. ASSUME NEW t \in AppThreads, VblankRelock(t) PROVE DrawnInv'
  BY <1>10 DEF VblankRelock
<1>11. ASSUME NEW t \in AppThreads, EnqueueTrack(t) PROVE DrawnInv'
  BY <1>11 DEF EnqueueTrack
<1>12. ASSUME NEW t \in AppThreads, EnqueueCheck(t) PROVE DrawnInv'
  BY <1>12 DEF EnqueueCheck
<1>13. ASSUME NEW t \in AppThreads, EnqueueUnref(t) PROVE DrawnInv'
  BY <1>13 DEF EnqueueUnref
<1>14. ASSUME NEW t \in AppThreads, EnqueueAcquire(t) PROVE DrawnInv'
  BY <1>14 DEF EnqueueAcquire
<1>15. ASSUME NEW t \in AppThreads, EnqueueRef(t) PROVE DrawnInv'
  BY <1>15 DEF EnqueueRef
<1>16. ASSUME NEW t \in AppThreads, Commit(t) PROVE DrawnInv'
  BY <1>16 DEF Commit
<1>17. ASSUME NEW t \in AppThreads, CommitTrack(t) PROVE DrawnInv'
  BY <1>17 DEF CommitTrack
<1>18. ASSUME NEW t \in AppThreads, CommitArm(t) PROVE DrawnInv'
  BY <1>18 DEF CommitArm
<1>19. ASSUME NEW t \in AppThreads, CommitArmed(t) PROVE DrawnInv'
  BY <1>19 DEF CommitArmed
<1>20. ASSUME NEW t \in AppThreads, FiniQueue(t) PROVE DrawnInv'
  BY <1>20 DEF FiniQueue
<1>21. ASSUME NEW t \in AppThreads, FiniDrop(t) PROVE DrawnInv'
  BY <1>21 DEF FiniDrop
<1>22. ASSUME NEW t \in AppThreads, DequeueCall(t) PROVE DrawnInv'
  <2>1. held = {} /\ held' = held
    BY <1>22, NoneHeld DEF DequeueCall
  <2> QED BY <2>1
<1>23. ASSUME NEW t \in AppThreads, NEW b \in Buffers, EnqueueCall(t, b) PROVE DrawnInv'
  <2>1. held' = held \ {b} /\ \A u \in AppThreads : pc'[u] \in DequeuePC => pc[u] \in DequeuePC
    BY <1>23 DEF EnqueueCall
  <2> QED BY <2>1
<1>24. ASSUME NEW t \in AppThreads, FiniCall(t) PROVE DrawnInv'
  BY <1>24 DEF FiniCall
<1>25. ASSUME NEW x \in Threads, ReleaseTrack(x) PROVE DrawnInv'
  BY <1>25 DEF ReleaseTrack
<1>26. ASSUME NEW x \in Threads, ReleaseQueue(x) PROVE DrawnInv'
  BY <1>26 DEF ReleaseQueue
<1>27. ASSUME NEW x \in Threads, ReleaseUnref(x) PROVE DrawnInv'
  BY <1>27 DEF ReleaseUnref
<1>28. ASSUME NEW x \in Threads, ResetCallback(x) PROVE DrawnInv'
  BY <1>28 DEF ResetCallback
<1>29. ASSUME NEW x \in Threads, FlushQueue(x) PROVE DrawnInv'
  BY <1>29 DEF FlushQueue
<1>30. ASSUME NEW x \in Threads, FlushDrop(x) PROVE DrawnInv'
  BY <1>30 DEF FlushDrop
<1>31. ASSUME NEW x \in Threads, ReleaseCallback(x) PROVE DrawnInv'
  BY <1>31 DEF ReleaseCallback
<1>32. ASSUME NEW x \in Threads, ResetEvent(x) PROVE DrawnInv'
  BY <1>32 DEF ResetEvent
<1>33. ASSUME NEW x \in Threads, VblankCallback(x) PROVE DrawnInv'
  BY <1>33 DEF VblankCallback
<1>34. ASSUME NEW x \in Threads, ResizeCallback(x) PROVE DrawnInv'
  BY <1>34 DEF ResizeCallback
<1>35. ASSUME NEW x \in Threads, FlushCallback(x) PROVE DrawnInv'
  BY <1>35 DEF FlushCallback
<1>35o. ASSUME NEW x \in Threads, OtherEvent(x) PROVE DrawnInv'
  BY <1>35o DEF OtherEvent
<1>36. ASSUME NEW b \in Buffers, ServerRelease(b) PROVE DrawnInv'
  BY <1>36 DEF ServerRelease
<1>37. CASE Disconnect
  BY <1>37 DEF Disconnect
<1>38. CASE UNCHANGED vars
  BY <1>38 DEF vars
<1> HIDE DEF DrawnInv, DequeuePC, Threads, TypeInv, TypeOK, ThreadTypes, queueVars, bufferVars, listVars,
        flagVars, vblankVars, threadVars, callbackVars, envVars
<1> QED
  BY <1>1, <1>2, <1>3, <1>3t, <1>4, <1>5, <1>6, <1>7, <1>7f, <1>8, <1>9, <1>9c, <1>10, <1>11,
     <1>12, <1>13, <1>14, <1>15, <1>16, <1>17, <1>18, <1>19, <1>20, <1>21, <1>22, <1>23, <1>24, <1>25, <1>26,
     <1>27, <1>28, <1>29, <1>30, <1>31, <1>32, <1>33, <1>34, <1>35, <1>35o, <1>36, <1>37, <1>38
     DEF Next, CallStep, CallbackStep, Begin, Finished

\* A step that tells no less, flags nothing and hands nothing over.
Untold ==
    /\ reset \/ resized => reset' \/ resized'
    /\ \A b \in Buffers : bufReset'[b] => bufReset[b]
    /\ held' \subseteq held
    /\ \A u \in AppThreads : pc'[u] = "deqPush" => pc[u] = "deqPush" /\ buf'[u] = buf[u]

\* Such a step keeps ToldInv.
LEMMA UntoldKeeps == ASSUME ToldInv, Untold PROVE ToldInv'
<1> SUFFICES ASSUME NEW b \in Buffers, bufReset'[b], b \in held' \/ Works(b, {"deqPush"})'
             PROVE  reset' \/ resized'
  BY DEF ToldInv
<1>1. bufReset[b] /\ (b \in held \/ Works(b, {"deqPush"}))
  BY DEF Untold, Works
<1> QED BY <1>1 DEF ToldInv, Untold

\* While a thread begins to dequeue, nobody else has a buffer to ask about.
LEMMA NothingToTell ==
    ASSUME OneFrame, RoleInv, RoleInv', NEW t \in AppThreads, "dequeue" \in Runs[t],
           held' = {}, pc'[t] # "deqPush"
    PROVE  ToldInv'
<1>1. \A u \in AppThreads : pc'[u] = "deqPush" => u = t
  BY DEF OneFrame, RoleInv, Role, Threads, DequeuePC
<1> QED BY <1>1 DEF ToldInv, Works

\* The reset and the resize are remembered until the next dequeue looks at them.
LEMMA DequeueFlagTold ==
    ASSUME OneFrame, TypeInv, RoleInv, RoleInv', DrawnInv, NEW t \in AppThreads, DequeueFlag(t)
    PROVE  ToldInv'
<1>1. PICK b : b = buf[t]
  OBVIOUS
<1>2. /\ pc[t] = "deqFlag" /\ held' = held
      /\ \/ bufReset' = [bufReset EXCEPT ![b] = FALSE] /\ buf' = buf
         \/ pc' = [pc EXCEPT ![t] = "idle"]
  BY <1>1 DEF DequeueFlag, At, Goto, GotoWith, Return
<1>3. held' = {} /\ "dequeue" \in Runs[t]
  BY <1>2 DEF DrawnInv, DequeuePC, RoleInv, Role, Threads
<1>4. CASE pc' = [pc EXCEPT ![t] = "idle"]
  BY <1>3, <1>4, NothingToTell DEF TypeInv, TypeOK, ThreadTypes, Threads
<1>5. CASE bufReset' = [bufReset EXCEPT ![b] = FALSE] /\ buf' = buf
  <2>1. \A u \in AppThreads : pc'[u] = "deqPush" => u = t
    BY <1>3 DEF OneFrame, RoleInv, Role, Threads, DequeuePC
  <2>2. \A c \in Buffers : Works(c, {"deqPush"})' => c = b
    BY <1>1, <1>5, <2>1 DEF Works
  <2>3. b \in Buffers => ~bufReset'[b]
    BY <1>5 DEF TypeInv, TypeOK, BufferTypes
  <2> QED BY <1>3, <2>2, <2>3 DEF ToldInv
<1> QED BY <1>2, <1>4, <1>5

\* The buffer dequeue returns is as fresh as it was when dequeue tracked it.
LEMMA DequeuePushTold ==
    ASSUME TypeInv, ToldInv, NEW t \in AppThreads, DequeuePush(t)
    PROVE  ToldInv'
<1>1. /\ pc[t] = "deqPush" /\ held' = held \cup {buf[t]}
      /\ pc' = [pc EXCEPT ![t] = "idle"] /\ buf' = [buf EXCEPT ![t] = NoBuffer]
      /\ bufReset' = bufReset /\ reset' = reset /\ resized' = resized
  BY DEF DequeuePush, At, Goto, GotoWith, Return, bufferVars, flagVars
<1>2. \A b \in Buffers : Works(b, {"deqPush"})' => Works(b, {"deqPush"})
  BY <1>1 DEF Works, TypeInv, TypeOK, ThreadTypes, Threads
<1>3. \A b \in held' : b \in held \/ Works(b, {"deqPush"})
  BY <1>1 DEF Works
<1> QED BY <1>1, <1>2, <1>3 DEF ToldInv

\* What a reset or a resize means for a buffer is never forgotten.
LEMMA ToldStep ==
    ASSUME OneFrame, TypeInv, RoleInv, DrawnInv, ToldInv, [Next]_vars
    PROVE  ToldInv'
<1> USE SurfaceAssumption DEF Untold, Threads, TypeInv, TypeOK, ThreadTypes, BufferTypes, FlagTypes,
        queueVars, bufferVars, listVars, flagVars, vblankVars, threadVars, callbackVars, envVars,
        CountsBecome, Unref, ClearQueue, DropAttached, Goto, GotoWith, Return, Acquire, Callback,
        At, Ready
<1>1. ASSUME NEW t \in AppThreads, DequeueReset(t) PROVE ToldInv'
  <2>1. held' = {} /\ "dequeue" \in Runs[t] /\ pc'[t] # "deqPush"
    BY <1>1 DEF DequeueReset, DrawnInv, DequeuePC, RoleInv, Role
  <2> QED BY <2>1, RoleStep, NothingToTell
<1>2. ASSUME NEW t \in AppThreads, DequeuePend(t) PROVE ToldInv'
  <2>1. Untold
    BY <1>2 DEF DequeuePend
  <2> QED BY <2>1, UntoldKeeps
<1>3. ASSUME NEW t \in AppThreads, DequeueWait(t) PROVE ToldInv'
  <2>1. Untold
    BY <1>3 DEF DequeueWait
  <2> QED BY <2>1, UntoldKeeps
<1>3t. ASSUME NEW t \in AppThreads, DequeueTest(t) PROVE ToldInv'
  <2>1. Untold
    BY <1>3t DEF DequeueTest
  <2> QED BY <2>1, UntoldKeeps
<1>4. ASSUME NEW t \in AppThreads, DequeueRelock(t) PROVE ToldInv'
  <2>1. Untold
    BY <1>4 DEF DequeueRelock
  <2> QED BY <2>1, UntoldKeeps
<1>5. ASSUME NEW t \in AppThreads, DequeueFail(t) PROVE ToldInv'
  <2>1. Untold
    BY <1>5 DEF DequeueFail
  <2> QED BY <2>1, UntoldKeeps
<1>6. ASSUME NEW t \in AppThreads, DequeueQueue(t) PROVE ToldInv'
  <2>1. Untold
    BY <1>6 DEF DequeueQueue
  <2> QED BY <2>1, UntoldKeeps
<1>7. ASSUME NEW t \in AppThreads, DequeueRef(t) PROVE ToldInv'
  <2>1. Untold
    BY <1>7 DEF DequeueRef
  <2> QED BY <2>1, UntoldKeeps
<1>7f. ASSUME NEW t \in AppThreads, DequeueFlag(t) PROVE ToldInv'
  BY <1>7f, RoleStep, DequeueFlagTold
<1>8. ASSUME NEW t \in AppThreads, DequeuePush(t) PROVE ToldInv'
  BY <1>8, DequeuePushTold
<1>9. ASSUME NEW t \in AppThreads, VblankWait(t) PROVE ToldInv'
  <2>1. Untold
    BY <1>9 DEF VblankWait
  <2> QED BY <2>1, UntoldKeeps
<1>9c. ASSUME NEW t \in AppThreads, VblankCall(t) PROVE ToldInv'
  <2>1. Untold
    BY <1>9c DEF VblankCall
  <2> QED BY <2>1, UntoldKeeps
<1>10. ASSUME NEW t \in AppThreads, VblankRelock(t) PROVE ToldInv'
  <2>1. Untold
    BY <1>10 DEF VblankRelock
  <2> QED BY <2>1, UntoldKeeps
<1>11. ASSUME NEW t \in AppThreads, EnqueueTrack(t) PROVE ToldInv'
  <2>1. Untold
    BY <1>11 DEF EnqueueTrack
  <2> QED BY <2>1, UntoldKeeps
<1>12. ASSUME NEW t \in AppThreads, EnqueueCheck(t) PROVE ToldInv'
  <2>1. Untold
    BY <1>12 DEF EnqueueCheck
  <2> QED BY <2>1, UntoldKeeps
<1>13. ASSUME NEW t \in AppThreads, EnqueueUnref(t) PROVE ToldInv'
  <2>1. Untold
    BY <1>13 DEF EnqueueUnref
  <2> QED BY <2>1, UntoldKeeps
<1>14. ASSUME NEW t \in AppThreads, EnqueueAcquire(t) PROVE ToldInv'
  <2>1. Untold
    BY <1>14 DEF EnqueueAcquire
  <2> QED BY <2>1, UntoldKeeps
<1>15. ASSUME NEW t \in AppThreads, EnqueueRef(t) PROVE ToldInv'
  <2>1. Untold
    BY <1>15 DEF EnqueueRef
  <2> QED BY <2>1, UntoldKeeps
<1>16. ASSUME NEW t \in AppThreads, Commit(t) PROVE ToldInv'
  <2>1. Untold
    BY <1>16 DEF Commit
  <2> QED BY <2>1, UntoldKeeps
<1>17. ASSUME NEW t \in AppThreads, CommitTrack(t) PROVE ToldInv'
  <2>1. Untold
    BY <1>17 DEF CommitTrack
  <2> QED BY <2>1, UntoldKeeps
<1>18. ASSUME NEW t \in AppThreads, CommitArm(t) PROVE ToldInv'
  <2>1. Untold
    BY <1>18 DEF CommitArm
  <2> QED BY <2>1, UntoldKeeps
<1>19. ASSUME NEW t \in AppThreads, CommitArmed(t) PROVE ToldInv'
  <2>1. Untold
    BY <1>19 DEF CommitArmed
  <2> QED BY <2>1, UntoldKeeps
<1>20. ASSUME NEW t \in AppThreads, FiniQueue(t) PROVE ToldInv'
  <2>1. Untold
    BY <1>20 DEF FiniQueue
  <2> QED BY <2>1, UntoldKeeps
<1>21. ASSUME NEW t \in AppThreads, FiniDrop(t) PROVE ToldInv'
  <2>1. Untold
    BY <1>21 DEF FiniDrop
  <2> QED BY <2>1, UntoldKeeps
<1>22. ASSUME NEW t \in AppThreads, DequeueCall(t) PROVE ToldInv'
  <2>1. held = {} /\ held' = held /\ "dequeue" \in Runs[t]
    BY <1>22, NoneHeld DEF DequeueCall
  <2>2. pc'[t] # "deqPush"
    BY <1>22 DEF DequeueCall
  <2> QED BY <2>1, <2>2, RoleStep, NothingToTell
<1>23. ASSUME NEW t \in AppThreads, NEW b \in Buffers, EnqueueCall(t, b) PROVE ToldInv'
  <2>1. Untold
    BY <1>23 DEF EnqueueCall
  <2> QED BY <2>1, UntoldKeeps
<1>24. ASSUME NEW t \in AppThreads, FiniCall(t) PROVE ToldInv'
  <2>1. Untold
    BY <1>24 DEF FiniCall
  <2> QED BY <2>1, UntoldKeeps
<1>25. ASSUME NEW x \in Threads, ReleaseTrack(x) PROVE ToldInv'
  <2>1. Untold
    BY <1>25 DEF ReleaseTrack
  <2> QED BY <2>1, UntoldKeeps
<1>26. ASSUME NEW x \in Threads, ReleaseQueue(x) PROVE ToldInv'
  <2>1. Untold
    BY <1>26 DEF ReleaseQueue
  <2> QED BY <2>1, UntoldKeeps
<1>27. ASSUME NEW x \in Threads, ReleaseUnref(x) PROVE ToldInv'
  <2>1. Untold
    BY <1>27 DEF ReleaseUnref
  <2> QED BY <2>1, UntoldKeeps
<1>28. ASSUME NEW x \in Threads, ResetCallback(x) PROVE ToldInv'
  <2>1. reset' = TRUE
    BY <1>28 DEF ResetCallback
  <2> QED BY <2>1 DEF ToldInv
<1>29. ASSUME NEW x \in Threads, FlushQueue(x) PROVE ToldInv'
  <2>1. Untold
    BY <1>29 DEF FlushQueue
  <2> QED BY <2>1, UntoldKeeps
<1>30. ASSUME NEW x \in Threads, FlushDrop(x) PROVE ToldInv'
  <2>1. Untold
    BY <1>30 DEF FlushDrop
  <2> QED BY <2>1, UntoldKeeps
<1>31. ASSUME NEW x \in Threads, ReleaseCallback(x) PROVE ToldInv'
  <2>1. Untold
    BY <1>31 DEF ReleaseCallback
  <2> QED BY <2>1, UntoldKeeps
<1>32. ASSUME NEW x \in Threads, ResetEvent(x) PROVE ToldInv'
  <2>1. Untold
    BY <1>32 DEF ResetEvent
  <2> QED BY <2>1, UntoldKeeps
<1>33. ASSUME NEW x \in Threads, VblankCallback(x) PROVE ToldInv'
  <2>1. Untold
    BY <1>33 DEF VblankCallback
  <2> QED BY <2>1, UntoldKeeps
<1>34. ASSUME NEW x \in Threads, ResizeCallback(x) PROVE ToldInv'
  <2>1. Untold
    BY <1>34 DEF ResizeCallback
  <2> QED BY <2>1, UntoldKeeps
<1>35. ASSUME NEW x \in Threads, FlushCallback(x) PROVE ToldInv'
  <2>1. Untold
    BY <1>35 DEF FlushCallback
  <2> QED BY <2>1, UntoldKeeps
<1>35o. ASSUME NEW x \in Threads, OtherEvent(x) PROVE ToldInv'
  <2>1. Untold
    BY <1>35o DEF OtherEvent
  <2> QED BY <2>1, UntoldKeeps
<1>36. ASSUME NEW b \in Buffers, ServerRelease(b) PROVE ToldInv'
  <2>1. Untold
    BY <1>36 DEF ServerRelease
  <2> QED BY <2>1, UntoldKeeps
<1>37. CASE Disconnect
  <2>1. Untold
    BY <1>37 DEF Disconnect
  <2> QED BY <2>1, UntoldKeeps
<1>38. CASE UNCHANGED vars
  <2>1. Untold
    BY <1>38 DEF vars
  <2> QED BY <2>1, UntoldKeeps
<1> HIDE DEF Untold, Threads, TypeInv, TypeOK, ThreadTypes, BufferTypes, FlagTypes, queueVars,
        bufferVars, listVars, flagVars, vblankVars, threadVars, callbackVars, envVars, CountsBecome,
        Unref, ClearQueue, DropAttached
<1> QED
  BY <1>1, <1>2, <1>3, <1>3t, <1>4, <1>5, <1>6, <1>7, <1>7f, <1>8, <1>9, <1>9c, <1>10, <1>11,
     <1>12, <1>13, <1>14, <1>15, <1>16, <1>17, <1>18, <1>19, <1>20, <1>21, <1>22, <1>23, <1>24, <1>25, <1>26,
     <1>27, <1>28, <1>29, <1>30, <1>31, <1>32, <1>33, <1>34, <1>35, <1>35o, <1>36, <1>37, <1>38
     DEF Next, CallStep, CallbackStep, Begin, Finished

\* A dequeue that forgets the resets so far hands out a buffer the queue still
\* knows, and a buffer that is stale in the application's hands is one
\* tpl_surface_validate reports, as long as one thread dequeues, draws one buffer
\* per frame, and is the one that resets and flushes.  The window may be resized
\* on any thread, at any time.
THEOREM StaleSeen == ASSUME Careful, OneFrame PROVE Spec => []StaleMeansInvalid
<1> DEFINE J == Inv /\ DrawnInv /\ ToldInv
<1>1. Init => J
  <2> SUFFICES ASSUME Init PROVE J
    OBVIOUS
  <2>1. Inv
    BY InvInit
  <2>2. held = {} /\ \A b \in Buffers : ~bufReset[b]
    BY DEF Init
  <2> QED BY <2>1, <2>2 DEF DrawnInv, ToldInv
<1>2. J /\ [Next]_vars => J'
  <2> SUFFICES ASSUME J, [Next]_vars PROVE J'
    OBVIOUS
  <2>1. TypeInv /\ RoleInv
    BY DEF Inv
  <2> QED BY <2>1, OneFrame, Careful, InvStep, DrawnStep, ToldStep
<1>3. J => StaleMeansInvalid
  <2> SUFFICES ASSUME J PROVE StaleMeansInvalid
    OBVIOUS
  <2>1. ASSUME NEW t \in AppThreads, pc[t] \in {"deqFlag", "deqPush"} PROVE node[buf[t]] # "none"
    <3>1. pc[t] \in Holding /\ pc[t] \in Fetched
      BY <2>1 DEF Holding, Fetched
    <3>2. Placed(buf[t]) /\ Works(buf[t], Fetched)
      BY <3>1, OwnEntry
    <3> QED BY <3>2 DEF Placed
  <2>2. ASSUME NEW b \in held, bufReset[b] PROVE resized \/ reset
    <3>1. b \in Buffers
      BY DEF Inv, TypeInv, TypeOK, ListTypes
    <3> QED BY <2>2, <3>1 DEF ToldInv
  <2> QED BY <2>1, <2>2 DEF StaleMeansInvalid
<1> QED BY <1>1, <1>2, <1>3, PTL DEF Spec

-----------------------------------------------------------------------------
(* BufferFlow: who has a buffer                                            *)

\* Of a buffer that is with the compositor the client has nothing.
LEMMA ShownAlone ==
    ASSUME Inv, NEW b \in Buffers, scanout[b] = "shown"
    PROVE  ~WithClient(b)
<1>1. Placed(b) /\ Shown(b) /\ attached[b] \in Nat
  BY Numbers DEF Inv, Ledger, Entry
<1>2. CASE Works(b, {"track"})
  <2>1. PICK t \in AppThreads : pc[t] = "track" /\ buf[t] = b
    BY <1>2 DEF Works
  <2>2. Works(b, Holding)
    BY <2>1 DEF Works, Holding, Leaving
  <2>3. b \notin held
    BY <1>1, <2>2 DEF Placed, Places, One
  <2>4. \A u \in AppThreads : buf[u] = b => u = t
    BY <2>1 DEF Inv, ThreadInv
  <2> QED BY <2>1, <2>3, <2>4 DEF WithClient
<1>3. CASE attached[b] > 0
  <2>1. b \notin held /\ ~Works(b, Holding)
    BY <1>1, <1>3 DEF Placed, Places, One
  <2>2. \A u \in AppThreads : buf[u] # b
    BY <2>1 DEF Inv, ThreadInv, Works
  <2> QED BY <2>1, <2>2 DEF WithClient
<1> QED BY <1>1, <1>2, <1>3 DEF Shown

\* The step does not change who has b.
SameOwner(b) ==
    /\ scanout'[b] = "shown" <=> scanout[b] = "shown"
    /\ WithClient(b)' <=> WithClient(b)

\* If that is so for every buffer, Owner is what it was.
LEMMA OwnerKept == ASSUME \A b \in Buffers : SameOwner(b) PROVE Owner' = Owner
  BY DEF Owner, SameOwner

\* One buffer changes hands.
LEMMA OwnerMoves ==
    ASSUME NEW b \in Buffers, \A c \in Buffers : c # b => SameOwner(c), NEW v,
           v = IF scanout'[b] = "shown" THEN "display"
               ELSE IF WithClient(b)' THEN "client" ELSE "nobody"
    PROVE  Owner' = [Owner EXCEPT ![b] = v]
  BY DEF Owner, SameOwner

\* The client has what it had if no thread takes a buffer, gives one away, or
\* commits one.
LEMMA ClientKept ==
    ASSUME held' = held,
           \A u \in AppThreads : buf'[u] = buf[u] /\ (pc'[u] = "track" <=> pc[u] = "track")
    PROVE  \A b \in Buffers : WithClient(b)' <=> WithClient(b)
  BY DEF WithClient

\* Thread t goes to l and has buffer b from now on, or gives it away.
LEMMA ClientOwn ==
    ASSUME ThreadInv, NEW t \in AppThreads, NEW l, NEW v, NEW b \in Buffers,
           \A u \in AppThreads : /\ pc'[u] = IF u = t THEN l ELSE pc[u]
                                 /\ buf'[u] = IF u = t THEN v ELSE buf[u],
           v \in {b, NoBuffer}, buf[t] \in {b, NoBuffer},
           buf[t] = b \/ ~Works(b, Holding),
           \A c \in Buffers : c # b => (c \in held' <=> c \in held)
    PROVE  /\ \A c \in Buffers : c # b => (WithClient(c)' <=> WithClient(c))
           /\ WithClient(b)' <=> b \in held' \/ (v = b /\ l # "track")
<1>1. \A u \in AppThreads : u # t => buf[u] # b
  BY DEF ThreadInv, Works
<1>2. ASSUME NEW c \in Buffers, c # b PROVE WithClient(c)' <=> WithClient(c)
  BY <1>2, SurfaceAssumption DEF WithClient
<1>3. WithClient(b)' <=> b \in held' \/ (v = b /\ l # "track")
  BY <1>1, SurfaceAssumption DEF WithClient
<1> QED BY <1>2, <1>3

\* What the compositor shows has a reference of its own, so it survives whatever
\* references a step drops.
LEMMA ShownKept ==
    ASSUME Inv, Inv', attached' = attached,
           scanout' = [b \in Buffers |-> IF ref'[b] > 0 THEN scanout[b] ELSE "idle"],
           \A u \in AppThreads : pc[u] = "track" => pc'[u] = "track" /\ buf'[u] = buf[u]
    PROVE  \A b \in Buffers : scanout'[b] = "shown" <=> scanout[b] = "shown"
<1> TAKE b \in Buffers
<1>1. CASE scanout[b] = "shown"
  <2>1. Shown(b) /\ attached[b] \in Nat
    BY Numbers DEF Inv, Ledger, Entry
  <2>2. attached'[b] > 0 \/ Works(b, {"track"})'
    BY <1>1, <2>1 DEF Shown, Works
  <2>3. Works(b, {"track"})' => Works(b, Referring)'
    BY DEF Works, Referring, Holding, Leaving
  <2>4. ref'[b] > 0
    <3>1. Counted(b)' /\ attached'[b] \in Nat /\ TypeInv'
      BY <2>1 DEF Inv, Ledger, Entry
    <3>2. Cardinality(Releasers(b)') \in Nat
      BY <3>1, FS_CardinalityType DEF Counted
    <3> QED BY <2>2, <2>3, <3>1, <3>2 DEF Counted, One
  <2> QED BY <1>1, <2>4
<1>2. CASE scanout[b] # "shown"
  BY <1>2
<1> QED BY <1>1, <1>2

\* A step that shows and withdraws nothing and moves no buffer from thread to thread.
LEMMA NothingMoves ==
    ASSUME held' = held, scanout' = scanout,
           \A u \in AppThreads : buf'[u] = buf[u] /\ (pc'[u] = "track" <=> pc[u] = "track")
    PROVE  [Flow!Next]_Owner
<1>1. \A b \in Buffers : SameOwner(b)
  BY ClientKept DEF SameOwner
<1> QED BY <1>1, OwnerKept

\* A step that only drops references.
LEMMA CountsMove ==
    ASSUME Inv, Inv', held' = held, attached' = attached, NEW r, CountsBecome(r),
           \A u \in AppThreads : buf'[u] = buf[u] /\ (pc'[u] = "track" <=> pc[u] = "track")
    PROVE  [Flow!Next]_Owner
<1>1. \A b \in Buffers : WithClient(b)' <=> WithClient(b)
  BY ClientKept
<1>2. scanout' = [b \in Buffers |-> IF ref'[b] > 0 THEN scanout[b] ELSE "idle"]
  BY DEF CountsBecome
<1>3. \A b \in Buffers : SameOwner(b)
  BY <1>1, <1>2, ShownKept DEF SameOwner
<1> QED BY <1>3, OwnerKept

\* A buffer with a thread is not the application's, nor, before the commit, the
\* compositor's.
LEMMA WithThread ==
    ASSUME Inv, NEW t \in AppThreads, buf[t] \in Buffers
    PROVE  /\ buf[t] \notin held /\ attached[buf[t]] = 0
           /\ WithClient(buf[t]) <=> pc[t] # "track"
           /\ pc[t] # "track" => scanout[buf[t]] # "shown"
<1>1. PICK b : b = buf[t]
  OBVIOUS
<1>2. Placed(b) /\ attached[b] \in Nat
  BY <1>1, Numbers DEF Inv, Ledger, Entry
<1>3. Works(b, Holding)
  BY <1>1, WorksAlone DEF Inv, Works
<1>4. b \notin held /\ attached[b] = 0
  BY <1>2, <1>3 DEF Placed, Places, One
<1>5. \A u \in AppThreads : buf[u] = b => u = t
  BY <1>1 DEF Inv, ThreadInv
<1>6. WithClient(b) <=> pc[t] # "track"
  BY <1>1, <1>4, <1>5 DEF WithClient
<1> QED BY <1>1, <1>4, <1>6, ShownAlone

\* Get: the buffer the queue hands out is nobody's.
LEMMA DequeueQueueFlow == ASSUME Inv, NEW t \in AppThreads, DequeueQueue(t) PROVE [Flow!Next]_Owner
<1>1. pc[t] = "deqQueue" /\ buf[t] = NoBuffer /\ held' = held /\ scanout' = scanout
  BY DEF DequeueQueue, At, Inv, ThreadInv, TypeInv, TypeOK, ThreadTypes, Threads, Holding, Fetched,
     Given, Queued, Leaving
<1>2. ASSUME NEW b \in Dequeuable(node, IsAlive, QueueSize), GotoWith(t, "deqRef", b)
      PROVE  [Flow!Next]_Owner
  <2>1. b \in Buffers /\ Places(b) = 0
    BY DequeuableFresh DEF Inv
  <2>2. Shown(b) /\ attached[b] \in Nat
    BY <2>1, Numbers DEF Inv, Ledger, Entry
  <2>3. b \notin held /\ ~Works(b, Holding) /\ attached[b] = 0
    BY <2>1, <2>2 DEF Places, One
  <2>4. ~Works(b, {"track"}) /\ \A u \in AppThreads : buf[u] # b
    BY <2>1, <2>3 DEF Works, Holding, Leaving, Inv, ThreadInv
  <2>5. scanout[b] # "shown" /\ ~WithClient(b)
    BY <2>2, <2>3, <2>4 DEF Shown, WithClient
  <2>6. \A u \in AppThreads : /\ pc'[u] = IF u = t THEN "deqRef" ELSE pc[u]
                              /\ buf'[u] = IF u = t THEN b ELSE buf[u]
    BY <1>2 DEF Inv, TypeInv, TypeOK, ThreadTypes, Threads, Goto, GotoWith
  <2>7. /\ \A c \in Buffers : c # b => (WithClient(c)' <=> WithClient(c))
        /\ WithClient(b)'
    BY <1>1, <2>1, <2>3, <2>6, ClientOwn DEF Inv
  <2>8. Owner' = [Owner EXCEPT ![b] = "client"]
    BY <1>1, <2>1, <2>5, <2>7, OwnerMoves DEF SameOwner
  <2>9. Owner[b] = "nobody"
    BY <2>1, <2>5 DEF Owner
  <2> QED BY <2>1, <2>8, <2>9 DEF Flow!Next, Flow!Get
<1>3. CASE Return(t)
  <2>1. \A u \in AppThreads : buf'[u] = buf[u] /\ (pc'[u] = "track" <=> pc[u] = "track")
    BY <1>1, <1>3 DEF Inv, TypeInv, TypeOK, ThreadTypes, Threads, Return, Goto, GotoWith
  <2> QED BY <1>1, <2>1, NothingMoves
<1> QED BY <1>2, <1>3 DEF DequeueQueue

\* Drop: a dequeue that fails to create the wl_buffer gives the buffer up.
LEMMA DequeueFlagFlow ==
    ASSUME Inv, Inv', NEW t \in AppThreads, DequeueFlag(t) PROVE [Flow!Next]_Owner
<1>1. PICK b \in Buffers : b = buf[t]
  BY DEF DequeueFlag, At, Inv, ThreadInv, Holding, Fetched
<1>2. pc[t] = "deqFlag" /\ held' = held /\ attached' = attached
  BY DEF DequeueFlag, At, listVars
<1>3. b \notin held /\ WithClient(b) /\ scanout[b] # "shown"
  BY <1>1, <1>2, WithThread
<1>4. CASE scanout' = scanout /\ Goto(t, "deqPush") /\ buf' = buf
  <2>1. \A u \in AppThreads : buf'[u] = buf[u] /\ (pc'[u] = "track" <=> pc[u] = "track")
    BY <1>2, <1>4 DEF Inv, TypeInv, TypeOK, ThreadTypes, Threads, Goto
  <2> QED BY <1>2, <1>4, <2>1, NothingMoves
<1>5. CASE Return(t) /\ Unref(b)
  <2>1. \A u \in AppThreads : /\ pc'[u] = IF u = t THEN "idle" ELSE pc[u]
                              /\ buf'[u] = IF u = t THEN NoBuffer ELSE buf[u]
    BY <1>5 DEF Inv, TypeInv, TypeOK, ThreadTypes, Threads, Return, Goto, GotoWith
  <2>2. NoBuffer # b
    BY SurfaceAssumption
  <2>3. /\ \A c \in Buffers : c # b => (WithClient(c)' <=> WithClient(c))
        /\ ~WithClient(b)'
    BY <1>1, <1>2, <1>3, <2>1, <2>2, ClientOwn DEF Inv
  <2>4. \A c \in Buffers : scanout'[c] = "shown" <=> scanout[c] = "shown"
    <3>1. scanout' = [c \in Buffers |-> IF ref'[c] > 0 THEN scanout[c] ELSE "idle"]
      BY <1>5 DEF Unref, CountsBecome
    <3>2. \A u \in AppThreads : pc[u] = "track" => pc'[u] = "track" /\ buf'[u] = buf[u]
      BY <1>2, <2>1
    <3> QED BY <1>2, <3>1, <3>2, ShownKept
  <2>5. Owner' = [Owner EXCEPT ![b] = "nobody"]
    BY <1>1, <1>3, <2>3, <2>4, OwnerMoves DEF SameOwner
  <2>6. Owner[b] = "client"
    BY <1>3 DEF Owner
  <2> QED BY <2>5, <2>6 DEF Flow!Next, Flow!Drop
<1> QED BY <1>1, <1>4, <1>5 DEF DequeueFlag

\* From the call to the application ...
LEMMA DequeuePushFlow == ASSUME Inv, NEW t \in AppThreads, DequeuePush(t) PROVE [Flow!Next]_Owner
<1>1. PICK b \in Buffers : b = buf[t]
  BY DEF DequeuePush, At, Inv, ThreadInv, Holding, Fetched
<1>2. pc[t] = "deqPush" /\ held' = held \cup {b} /\ scanout' = scanout /\ Return(t)
  BY <1>1 DEF DequeuePush, At, bufferVars
<1>3. WithClient(b)
  BY <1>1, <1>2, WithThread
<1>4. \A u \in AppThreads : /\ pc'[u] = IF u = t THEN "idle" ELSE pc[u]
                            /\ buf'[u] = IF u = t THEN NoBuffer ELSE buf[u]
  BY <1>2 DEF Inv, TypeInv, TypeOK, ThreadTypes, Threads, Return, Goto, GotoWith
<1>5. /\ \A c \in Buffers : c # b => (WithClient(c)' <=> WithClient(c))
      /\ WithClient(b)'
  BY <1>1, <1>2, <1>4, ClientOwn DEF Inv
<1>6. \A c \in Buffers : SameOwner(c)
  BY <1>2, <1>3, <1>5 DEF SameOwner
<1> QED BY <1>6, OwnerKept

\* ... and back to the next call, which does not refuse it.
LEMMA EnqueueCallFlow ==
    ASSUME Inv, NEW t \in AppThreads, NEW b \in Buffers, EnqueueCall(t, b) PROVE [Flow!Next]_Owner
<1>1. pc[t] = "idle" /\ buf[t] = NoBuffer /\ b \in held /\ held' = held \ {b} /\ scanout' = scanout
  BY DEF EnqueueCall, At, Inv, ThreadInv, TypeInv, TypeOK, ThreadTypes, Threads, Holding, Fetched,
     Given, Queued, Leaving, bufferVars
<1>2. Counted(b) /\ Placed(b) /\ ref[b] \in Nat /\ attached[b] \in Nat
  BY Numbers DEF Inv, Ledger, Entry
<1>3. ref[b] > 0 /\ ~Works(b, Holding)
  BY <1>1, <1>2, Referenced DEF Placed, Places, One
<1>4. PICK l \in {"enqTrack", "vblCall"} : GotoWith(t, l, b)
  BY <1>3 DEF EnqueueCall
<1>5. \A u \in AppThreads : /\ pc'[u] = IF u = t THEN l ELSE pc[u]
                            /\ buf'[u] = IF u = t THEN b ELSE buf[u]
  BY <1>4 DEF Inv, TypeInv, TypeOK, ThreadTypes, Threads, Goto, GotoWith
<1>6. /\ \A c \in Buffers : c # b => (WithClient(c)' <=> WithClient(c))
      /\ WithClient(b)'
  BY <1>1, <1>3, <1>4, <1>5, ClientOwn DEF Inv
<1>7. WithClient(b)
  BY <1>1 DEF WithClient
<1>8. \A c \in Buffers : SameOwner(c)
  BY <1>1, <1>6, <1>7 DEF SameOwner
<1> QED BY <1>8, OwnerKept

\* The buffer has its wl_buffer, so the call goes on with it.
LEMMA EnqueueCheckFlow == ASSUME Inv, NEW t \in AppThreads, EnqueueCheck(t) PROVE [Flow!Next]_Owner
<1>1. PICK b \in Buffers : b = buf[t]
  BY DEF EnqueueCheck, At, Inv, ThreadInv, Holding, Given
<1>2. pc[t] = "enqCheck" /\ held' = held /\ scanout' = scanout
  BY DEF EnqueueCheck, At, bufferVars
<1>3. /\ Placed(b) /\ Kept(b) /\ attached[b] \in Nat
      /\ \A L : Works(b, L) <=> pc[t] \in L
  BY <1>1, Numbers, WorksAlone DEF Inv, Ledger, Entry
<1>4. Works(b, Holding) /\ ~Works(b, Bare)
  BY <1>2, <1>3 DEF Holding, Given, Bare
<1>5. Places(b) = 1
  BY <1>3, <1>4 DEF Placed, Places, One
<1>6. wlBuffer[b]
  BY <1>3, <1>4, <1>5 DEF Kept
<1>7. PICK l \in {"commit", "enqUnref"} : Goto(t, l) /\ buf' = buf
  BY <1>1, <1>6 DEF EnqueueCheck
<1>8. \A u \in AppThreads : buf'[u] = buf[u] /\ (pc'[u] = "track" <=> pc[u] = "track")
  BY <1>2, <1>7 DEF Inv, TypeInv, TypeOK, ThreadTypes, Threads, Goto
<1> QED BY <1>2, <1>8, NothingMoves

\* The frame the call acquires is the one it queued.
LEMMA EnqueueAcquireFlow == ASSUME Inv, NEW t \in AppThreads, EnqueueAcquire(t) PROVE [Flow!Next]_Owner
<1>1. PICK b \in Buffers : b = buf[t]
  BY DEF EnqueueAcquire, At, Inv, ThreadInv, Holding, Queued
<1>2. pc[t] = "enqAcquire" /\ held' = held /\ scanout' = scanout
  BY DEF EnqueueAcquire, At, bufferVars
<1>3. Works(b, Queued) /\ DOMAIN node = Buffers
  BY <1>1, <1>2 DEF Works, Queued, Inv, TypeInv, TypeOK, QueueTypes
<1>4. node[b] = "dirty"
  BY <1>3 DEF Inv, Ledger, Entry, Placed
<1>5. InState(node, "dirty") = {b}
  <2>1. ASSUME NEW c \in Buffers, node[c] = "dirty" PROVE c = b
    <3>1. PICK u \in AppThreads : pc[u] \in Queued /\ buf[u] = c
      BY <2>1 DEF Inv, Ledger, Entry, Placed, Works
    <3>2. t # NoThread /\ u # NoThread
      BY SurfaceAssumption DEF Threads
    <3>3. u = t
      BY <1>2, <3>1, <3>2 DEF Inv, LockInv, LockedPC, Queued
    <3> QED BY <1>1, <3>1, <3>3
  <2> QED BY <1>3, <1>4, <2>1 DEF InState
<1>6. GotoWith(t, "enqRef", b)
  BY <1>5 DEF EnqueueAcquire
<1>7. \A u \in AppThreads : buf'[u] = buf[u] /\ (pc'[u] = "track" <=> pc[u] = "track")
  BY <1>1, <1>2, <1>6 DEF Inv, TypeInv, TypeOK, ThreadTypes, Threads, GotoWith, Goto
<1> QED BY <1>2, <1>7, NothingMoves

\* Show: the commit gives the compositor a buffer that was the client's.
LEMMA CommitFlow == ASSUME Inv, NEW t \in AppThreads, Commit(t) PROVE [Flow!Next]_Owner
<1>1. PICK b \in Buffers : b = buf[t]
  BY DEF Commit, At, Inv, ThreadInv, Holding, Leaving
<1>2. pc[t] = "commit" /\ held' = held /\ scanout' = [scanout EXCEPT ![b] = "shown"] /\ buf' = buf
      /\ Goto(t, "track")
  BY <1>1 DEF Commit, At
<1>3. WithClient(b) /\ scanout[b] # "shown"
  BY <1>1, <1>2, WithThread
<1>4. scanout'[b] = "shown" /\ \A c \in Buffers : c # b => scanout'[c] = scanout[c]
  BY <1>2 DEF Inv, TypeInv, TypeOK, BufferTypes
<1>5. \A u \in AppThreads : /\ pc'[u] = IF u = t THEN "track" ELSE pc[u]
                            /\ buf'[u] = IF u = t THEN b ELSE buf[u]
  BY <1>1, <1>2 DEF Inv, TypeInv, TypeOK, ThreadTypes, Threads, Goto
<1>6. \A c \in Buffers : c # b => (WithClient(c)' <=> WithClient(c))
  BY <1>1, <1>2, <1>5, ClientOwn DEF Inv
<1>7. Owner' = [Owner EXCEPT ![b] = "display"]
  BY <1>4, <1>6, OwnerMoves DEF SameOwner
<1>8. Owner[b] = "client"
  BY <1>3 DEF Owner
<1> QED BY <1>7, <1>8 DEF Flow!Next, Flow!Show

\* After the commit the client has nothing of the buffer, tracked or not.
LEMMA CommitTrackFlow == ASSUME Inv, NEW t \in AppThreads, CommitTrack(t) PROVE [Flow!Next]_Owner
<1>1. PICK b \in Buffers : b = buf[t]
  BY DEF CommitTrack, At, Inv, ThreadInv, Holding, Leaving
<1>2. pc[t] = "track" /\ held' = held /\ scanout' = scanout /\ GotoWith(t, "arm", NoBuffer)
  BY DEF CommitTrack, At, bufferVars
<1>3. b \notin held /\ ~WithClient(b) /\ b # NoBuffer
  BY <1>1, <1>2, WithThread, SurfaceAssumption
<1>4. \A u \in AppThreads : /\ pc'[u] = IF u = t THEN "arm" ELSE pc[u]
                            /\ buf'[u] = IF u = t THEN NoBuffer ELSE buf[u]
  BY <1>2 DEF Inv, TypeInv, TypeOK, ThreadTypes, Threads, GotoWith, Goto
<1>5. /\ \A c \in Buffers : c # b => (WithClient(c)' <=> WithClient(c))
      /\ ~WithClient(b)'
  BY <1>1, <1>2, <1>3, <1>4, ClientOwn DEF Inv
<1>6. \A c \in Buffers : SameOwner(c)
  BY <1>2, <1>3, <1>5 DEF SameOwner
<1> QED BY <1>6, OwnerKept

\* GiveBack: the compositor releases one buffer ...
LEMMA ServerReleaseFlow == ASSUME Inv, NEW b \in Buffers, ServerRelease(b) PROVE [Flow!Next]_Owner
<1>1. /\ scanout[b] = "shown" /\ scanout' = [scanout EXCEPT ![b] = "released"]
      /\ held' = held /\ pc' = pc /\ buf' = buf
  BY DEF ServerRelease, threadVars
<1>2. scanout'[b] = "released" /\ \A c \in Buffers : c # b => scanout'[c] = scanout[c]
  BY <1>1 DEF Inv, TypeInv, TypeOK, BufferTypes
<1>3. \A c \in Buffers : WithClient(c)' <=> WithClient(c)
  BY <1>1, ClientKept
<1>4. Owner[b] = "display" /\ ~WithClient(b)
  BY <1>1, ShownAlone DEF Owner
<1>5. Owner' = [c \in Buffers |-> IF c \in {b} THEN "nobody" ELSE Owner[c]]
  BY <1>2, <1>3, <1>4 DEF Owner
<1>6. Flow!GiveBack({b})
  BY <1>4, <1>5 DEF Flow!GiveBack
<1> QED BY <1>6 DEF Flow!Next

\* ... or a flush or the destruction takes back all it has.
LEMMA DropFlow ==
    ASSUME Careful, Inv, Inv', NEW x \in Threads, DropAttached, held' = held, buf' = buf,
           Goto(x, "idle"), cb[x] = "none", pc[x] \in {"flushDrop", "finiDrop"}
    PROVE  [Flow!Next]_Owner
<1>1. Runs[x] \cap {"flush", "fini"} # {}
  BY DEF Inv, RoleInv, Role, FlushPC, FiniPC
<1>2. \A u \in AppThreads : pc[u] \notin Holding
  BY <1>1, ClearSafe DEF DispatchPC, FiniPC
<1>3. \A u \in AppThreads : pc[u] # "track" /\ pc'[u] # "track"
  BY <1>2 DEF Holding, Leaving, Inv, TypeInv, TypeOK, ThreadTypes, Threads, Goto
<1>4. \A b \in Buffers : scanout'[b] = "idle"
  <2> TAKE b \in Buffers
  <2>1. attached'[b] = 0 /\ ~Works(b, {"track"})'
    BY <1>3 DEF DropAttached, Works
  <2>2. Shown(b)'
    BY DEF Inv, Ledger, Entry
  <2> QED BY <2>1, <2>2 DEF Shown
<1>5. \A b \in Buffers : WithClient(b)' <=> WithClient(b)
  BY <1>3, ClientKept
<1>6. PICK S \in SUBSET Buffers : S = {b \in Buffers : scanout[b] = "shown"}
  OBVIOUS
<1>7. \A b \in S : Owner[b] = "display" /\ ~WithClient(b)
  BY <1>6, ShownAlone DEF Owner
<1>8. Owner' = [b \in Buffers |-> IF b \in S THEN "nobody" ELSE Owner[b]]
  BY <1>4, <1>5, <1>6, <1>7 DEF Owner
<1>9. CASE S # {}
  <2>1. Flow!GiveBack(S)
    BY <1>7, <1>8, <1>9 DEF Flow!GiveBack
  <2> QED BY <2>1 DEF Flow!Next
<1>10. CASE S = {}
  <2>1. Owner' = Owner
    BY <1>8, <1>10 DEF Owner
  <2> QED BY <2>1
<1> QED BY <1>9, <1>10

\* Every step is one of BufferFlow, or changes no owner.
LEMMA FlowStep ==
    ASSUME Careful, Inv, Inv', [Next]_vars
    PROVE  [Flow!Next]_Owner
<1> TypeInv
  BY DEF Inv
<1> USE SurfaceAssumption DEF Threads, TypeInv, TypeOK, ThreadTypes, queueVars, bufferVars, listVars,
        flagVars, vblankVars, threadVars, callbackVars, envVars,
        Goto, GotoWith, Return, Acquire, Callback, At, Ready
<1>1. ASSUME NEW t \in AppThreads, DequeueReset(t) PROVE [Flow!Next]_Owner
  <2>1. /\ held' = held /\ scanout' = scanout
        /\ \A u \in AppThreads : buf'[u] = buf[u] /\ (pc'[u] = "track" <=> pc[u] = "track")
    BY <1>1 DEF DequeueReset
  <2> QED BY <2>1, NothingMoves
<1>2. ASSUME NEW t \in AppThreads, DequeuePend(t) PROVE [Flow!Next]_Owner
  <2>1. /\ held' = held /\ scanout' = scanout
        /\ \A u \in AppThreads : buf'[u] = buf[u] /\ (pc'[u] = "track" <=> pc[u] = "track")
    BY <1>2 DEF DequeuePend
  <2> QED BY <2>1, NothingMoves
<1>3. ASSUME NEW t \in AppThreads, DequeueWait(t) PROVE [Flow!Next]_Owner
  <2>1. /\ held' = held /\ scanout' = scanout
        /\ \A u \in AppThreads : buf'[u] = buf[u] /\ (pc'[u] = "track" <=> pc[u] = "track")
    BY <1>3 DEF DequeueWait
  <2> QED BY <2>1, NothingMoves
<1>3t. ASSUME NEW t \in AppThreads, DequeueTest(t) PROVE [Flow!Next]_Owner
  <2>1. /\ held' = held /\ scanout' = scanout
        /\ \A u \in AppThreads : buf'[u] = buf[u] /\ (pc'[u] = "track" <=> pc[u] = "track")
    BY <1>3t DEF DequeueTest
  <2> QED BY <2>1, NothingMoves
<1>4. ASSUME NEW t \in AppThreads, DequeueRelock(t) PROVE [Flow!Next]_Owner
  <2>1. /\ held' = held /\ scanout' = scanout
        /\ \A u \in AppThreads : buf'[u] = buf[u] /\ (pc'[u] = "track" <=> pc[u] = "track")
    BY <1>4 DEF DequeueRelock
  <2> QED BY <2>1, NothingMoves
<1>5. ASSUME NEW t \in AppThreads, DequeueFail(t) PROVE [Flow!Next]_Owner
  <2>1. buf[t] = NoBuffer
    BY <1>5 DEF DequeueFail, Inv, ThreadInv, Holding, Fetched, Given, Queued, Leaving
  <2>2. /\ held' = held /\ scanout' = scanout
        /\ \A u \in AppThreads : buf'[u] = buf[u] /\ (pc'[u] = "track" <=> pc[u] = "track")
    BY <1>5, <2>1 DEF DequeueFail
  <2> QED BY <2>2, NothingMoves
<1>6. ASSUME NEW t \in AppThreads, DequeueQueue(t) PROVE [Flow!Next]_Owner
  BY <1>6, DequeueQueueFlow
<1>7. ASSUME NEW t \in AppThreads, DequeueRef(t) PROVE [Flow!Next]_Owner
  <2>1. /\ held' = held /\ scanout' = scanout
        /\ \A u \in AppThreads : buf'[u] = buf[u] /\ (pc'[u] = "track" <=> pc[u] = "track")
    BY <1>7 DEF DequeueRef
  <2> QED BY <2>1, NothingMoves
<1>7f. ASSUME NEW t \in AppThreads, DequeueFlag(t) PROVE [Flow!Next]_Owner
  BY <1>7f, DequeueFlagFlow
<1>8. ASSUME NEW t \in AppThreads, DequeuePush(t) PROVE [Flow!Next]_Owner
  BY <1>8, DequeuePushFlow
<1>9. ASSUME NEW t \in AppThreads, VblankWait(t) PROVE [Flow!Next]_Owner
  <2>1. /\ held' = held /\ scanout' = scanout
        /\ \A u \in AppThreads : buf'[u] = buf[u] /\ (pc'[u] = "track" <=> pc[u] = "track")
    BY <1>9 DEF VblankWait
  <2> QED BY <2>1, NothingMoves
<1>9c. ASSUME NEW t \in AppThreads, VblankCall(t) PROVE [Flow!Next]_Owner
  <2>1. /\ held' = held /\ scanout' = scanout
        /\ \A u \in AppThreads : buf'[u] = buf[u] /\ (pc'[u] = "track" <=> pc[u] = "track")
    BY <1>9c DEF VblankCall
  <2> QED BY <2>1, NothingMoves
<1>10. ASSUME NEW t \in AppThreads, VblankRelock(t) PROVE [Flow!Next]_Owner
  <2>1. /\ held' = held /\ scanout' = scanout
        /\ \A u \in AppThreads : buf'[u] = buf[u] /\ (pc'[u] = "track" <=> pc[u] = "track")
    BY <1>10 DEF VblankRelock
  <2> QED BY <2>1, NothingMoves
<1>11. ASSUME NEW t \in AppThreads, EnqueueTrack(t) PROVE [Flow!Next]_Owner
  <2>1. /\ held' = held /\ scanout' = scanout
        /\ \A u \in AppThreads : buf'[u] = buf[u] /\ (pc'[u] = "track" <=> pc[u] = "track")
    BY <1>11 DEF EnqueueTrack
  <2> QED BY <2>1, NothingMoves
<1>12. ASSUME NEW t \in AppThreads, EnqueueCheck(t) PROVE [Flow!Next]_Owner
  BY <1>12, EnqueueCheckFlow
<1>13. ASSUME NEW t \in AppThreads, EnqueueUnref(t) PROVE [Flow!Next]_Owner
  <2>1. /\ held' = held /\ attached' = attached
        /\ \A u \in AppThreads : buf'[u] = buf[u] /\ (pc'[u] = "track" <=> pc[u] = "track")
    BY <1>13 DEF EnqueueUnref
  <2> QED BY <1>13, <2>1, CountsMove DEF EnqueueUnref, Unref
<1>14. ASSUME NEW t \in AppThreads, EnqueueAcquire(t) PROVE [Flow!Next]_Owner
  BY <1>14, EnqueueAcquireFlow
<1>15. ASSUME NEW t \in AppThreads, EnqueueRef(t) PROVE [Flow!Next]_Owner
  <2>1. /\ held' = held /\ scanout' = scanout
        /\ \A u \in AppThreads : buf'[u] = buf[u] /\ (pc'[u] = "track" <=> pc[u] = "track")
    BY <1>15 DEF EnqueueRef
  <2> QED BY <2>1, NothingMoves
<1>16. ASSUME NEW t \in AppThreads, Commit(t) PROVE [Flow!Next]_Owner
  BY <1>16, CommitFlow
<1>17. ASSUME NEW t \in AppThreads, CommitTrack(t) PROVE [Flow!Next]_Owner
  BY <1>17, CommitTrackFlow
<1>18. ASSUME NEW t \in AppThreads, CommitArm(t) PROVE [Flow!Next]_Owner
  <2>1. buf[t] = NoBuffer
    BY <1>18 DEF CommitArm, Inv, ThreadInv, Holding, Fetched, Given, Queued, Leaving
  <2>2. /\ held' = held /\ scanout' = scanout
        /\ \A u \in AppThreads : buf'[u] = buf[u] /\ (pc'[u] = "track" <=> pc[u] = "track")
    BY <1>18, <2>1 DEF CommitArm
  <2> QED BY <2>2, NothingMoves
<1>19. ASSUME NEW t \in AppThreads, CommitArmed(t) PROVE [Flow!Next]_Owner
  <2>1. buf[t] = NoBuffer
    BY <1>19 DEF CommitArmed, Inv, ThreadInv, Holding, Fetched, Given, Queued, Leaving
  <2>2. /\ held' = held /\ scanout' = scanout
        /\ \A u \in AppThreads : buf'[u] = buf[u] /\ (pc'[u] = "track" <=> pc[u] = "track")
    BY <1>19, <2>1 DEF CommitArmed
  <2> QED BY <2>2, NothingMoves
<1>20. ASSUME NEW t \in AppThreads, FiniQueue(t) PROVE [Flow!Next]_Owner
  <2>1. /\ held' = held /\ attached' = attached
        /\ \A u \in AppThreads : buf'[u] = buf[u] /\ (pc'[u] = "track" <=> pc[u] = "track")
    BY <1>20 DEF FiniQueue
  <2> QED BY <1>20, <2>1, CountsMove DEF FiniQueue, ClearQueue
<1>21. ASSUME NEW t \in AppThreads, FiniDrop(t) PROVE [Flow!Next]_Owner
  BY <1>21, DropFlow DEF FiniDrop
<1>22. ASSUME NEW t \in AppThreads, DequeueCall(t) PROVE [Flow!Next]_Owner
  <2>1. /\ held' = held /\ attached' = attached
        /\ \A u \in AppThreads : buf'[u] = buf[u] /\ (pc'[u] = "track" <=> pc[u] = "track")
    BY <1>22 DEF DequeueCall
  <2>2. ClearQueue \/ scanout' = scanout
    BY <1>22 DEF DequeueCall
  <2> QED BY <2>1, <2>2, CountsMove, NothingMoves DEF ClearQueue
<1>23. ASSUME NEW t \in AppThreads, NEW b \in Buffers, EnqueueCall(t, b) PROVE [Flow!Next]_Owner
  BY <1>23, EnqueueCallFlow
<1>24. ASSUME NEW t \in AppThreads, FiniCall(t) PROVE [Flow!Next]_Owner
  <2>1. /\ held' = held /\ scanout' = scanout
        /\ \A u \in AppThreads : buf'[u] = buf[u] /\ (pc'[u] = "track" <=> pc[u] = "track")
    BY <1>24 DEF FiniCall
  <2> QED BY <2>1, NothingMoves
<1>25. ASSUME NEW x \in Threads, ReleaseTrack(x) PROVE [Flow!Next]_Owner
  <2>1. /\ held' = held /\ scanout' = scanout
        /\ \A u \in AppThreads : buf'[u] = buf[u] /\ (pc'[u] = "track" <=> pc[u] = "track")
    BY <1>25 DEF ReleaseTrack
  <2> QED BY <2>1, NothingMoves
<1>26. ASSUME NEW x \in Threads, ReleaseQueue(x) PROVE [Flow!Next]_Owner
  <2>1. /\ held' = held /\ scanout' = scanout
        /\ \A u \in AppThreads : buf'[u] = buf[u] /\ (pc'[u] = "track" <=> pc[u] = "track")
    BY <1>26 DEF ReleaseQueue
  <2> QED BY <2>1, NothingMoves
<1>27. ASSUME NEW x \in Threads, ReleaseUnref(x) PROVE [Flow!Next]_Owner
  <2>1. /\ held' = held /\ attached' = attached
        /\ \A u \in AppThreads : buf'[u] = buf[u] /\ (pc'[u] = "track" <=> pc[u] = "track")
    BY <1>27 DEF ReleaseUnref
  <2> QED BY <1>27, <2>1, CountsMove DEF ReleaseUnref, Unref
<1>28. ASSUME NEW x \in Threads, ResetCallback(x) PROVE [Flow!Next]_Owner
  <2>1. /\ held' = held /\ scanout' = scanout
        /\ \A u \in AppThreads : buf'[u] = buf[u] /\ (pc'[u] = "track" <=> pc[u] = "track")
    BY <1>28 DEF ResetCallback
  <2> QED BY <2>1, NothingMoves
<1>29. ASSUME NEW x \in Threads, FlushQueue(x) PROVE [Flow!Next]_Owner
  <2>1. /\ held' = held /\ attached' = attached
        /\ \A u \in AppThreads : buf'[u] = buf[u] /\ (pc'[u] = "track" <=> pc[u] = "track")
    BY <1>29 DEF FlushQueue
  <2>2. ClearQueue \/ scanout' = scanout
    BY <1>29 DEF FlushQueue
  <2> QED BY <2>1, <2>2, CountsMove, NothingMoves DEF ClearQueue
<1>30. ASSUME NEW x \in Threads, FlushDrop(x) PROVE [Flow!Next]_Owner
  BY <1>30, DropFlow DEF FlushDrop
<1>31. ASSUME NEW x \in Threads, ReleaseCallback(x) PROVE [Flow!Next]_Owner
  <2>1. /\ held' = held /\ pc' = pc /\ buf' = buf
        /\ \A b \in Buffers : scanout'[b] = "shown" <=> scanout[b] = "shown"
    BY <1>31 DEF ReleaseCallback, BufferTypes
  <2>2. \A b \in Buffers : SameOwner(b)
    BY <2>1, ClientKept DEF SameOwner
  <2> QED BY <2>2, OwnerKept
<1>32. ASSUME NEW x \in Threads, ResetEvent(x) PROVE [Flow!Next]_Owner
  <2>1. /\ held' = held /\ attached' = attached
        /\ \A u \in AppThreads : buf'[u] = buf[u] /\ (pc'[u] = "track" <=> pc[u] = "track")
    BY <1>32 DEF ResetEvent
  <2> QED BY <1>32, <2>1, CountsMove DEF ResetEvent, ClearQueue
<1>33. ASSUME NEW x \in Threads, VblankCallback(x) PROVE [Flow!Next]_Owner
  <2>1. /\ held' = held /\ scanout' = scanout
        /\ \A u \in AppThreads : buf'[u] = buf[u] /\ (pc'[u] = "track" <=> pc[u] = "track")
    BY <1>33 DEF VblankCallback
  <2> QED BY <2>1, NothingMoves
<1>34. ASSUME NEW x \in Threads, ResizeCallback(x) PROVE [Flow!Next]_Owner
  <2>1. /\ held' = held /\ scanout' = scanout
        /\ \A u \in AppThreads : buf'[u] = buf[u] /\ (pc'[u] = "track" <=> pc[u] = "track")
    BY <1>34 DEF ResizeCallback
  <2> QED BY <2>1, NothingMoves
<1>35. ASSUME NEW x \in Threads, FlushCallback(x) PROVE [Flow!Next]_Owner
  <2>1. /\ held' = held /\ scanout' = scanout
        /\ \A u \in AppThreads : buf'[u] = buf[u] /\ (pc'[u] = "track" <=> pc[u] = "track")
    BY <1>35 DEF FlushCallback
  <2> QED BY <2>1, NothingMoves
<1>35o. ASSUME NEW x \in Threads, OtherEvent(x) PROVE [Flow!Next]_Owner
  <2>1. /\ held' = held /\ scanout' = scanout
        /\ \A u \in AppThreads : buf'[u] = buf[u] /\ (pc'[u] = "track" <=> pc[u] = "track")
    BY <1>35o DEF OtherEvent
  <2> QED BY <2>1, NothingMoves
<1>36. ASSUME NEW b \in Buffers, ServerRelease(b) PROVE [Flow!Next]_Owner
  BY <1>36, ServerReleaseFlow
<1>37. CASE Disconnect
  <2>1. /\ held' = held /\ scanout' = scanout
        /\ \A u \in AppThreads : buf'[u] = buf[u] /\ (pc'[u] = "track" <=> pc[u] = "track")
    BY <1>37 DEF Disconnect
  <2> QED BY <2>1, NothingMoves
<1>38. CASE UNCHANGED vars
  <2>1. /\ held' = held /\ scanout' = scanout
        /\ \A u \in AppThreads : buf'[u] = buf[u] /\ (pc'[u] = "track" <=> pc[u] = "track")
    BY <1>38 DEF vars
  <2> QED BY <2>1, NothingMoves
<1> HIDE DEF Threads, TypeInv, TypeOK, ThreadTypes, queueVars, bufferVars, listVars,
        flagVars, vblankVars, threadVars, callbackVars, envVars
<1> QED
  BY <1>1, <1>2, <1>3, <1>3t, <1>4, <1>5, <1>6, <1>7, <1>7f, <1>8, <1>9, <1>9c, <1>10, <1>11,
     <1>12, <1>13, <1>14, <1>15, <1>16, <1>17, <1>18, <1>19, <1>20, <1>21, <1>22, <1>23, <1>24, <1>25, <1>26,
     <1>27, <1>28, <1>29, <1>30, <1>31, <1>32, <1>33, <1>34, <1>35, <1>35o, <1>36, <1>37, <1>38
     DEF Next, CallStep, CallbackStep, Begin, Finished

\* The surface keeps the promise of BufferFlow: a buffer reaches the compositor only
\* from the client, once each time the client got it, and the client never gets it
\* before the compositor released it or it was withdrawn.
THEOREM BufferFlowKept == ASSUME Careful PROVE Spec => ImplementsBufferFlow
<1>1. Inv /\ [Next]_vars => Inv'
  BY Careful, InvStep
<1>2. Init => Flow!Init
  <2> SUFFICES ASSUME Init PROVE Flow!Init
    OBVIOUS
  <2>1. \A b \in Buffers : scanout[b] = "idle" /\ ~WithClient(b)
    BY SurfaceAssumption DEF Init, WithClient, Threads
  <2> QED BY <2>1 DEF Flow!Init, Owner
<1>3. Inv /\ Inv' /\ [Next]_vars => [Flow!Next]_Owner
  BY Careful, FlowStep
<1> QED
  BY <1>1, <1>2, <1>3, InvInit, PTL DEF Spec, ImplementsBufferFlow, Flow!Spec
=============================================================================
