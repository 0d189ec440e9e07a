------------------------ MODULE WindowSurfaceProofs ------------------------
(***************************************************************************)
(* Theorems about WindowSurface, for every set of buffers, every queue     *)
(* size and every set of window sizes and rotations.                       *)
(***************************************************************************)
EXTENDS WindowSurface, TLAPS

\* Buffer b is out with a reference of its own: the application has it, or has
\* given it up.
Out(b) == b \in lost \/ (b \in held /\ ~Lent(b))

\* What the count, the lists and the queue say about b.  A buffer that is out is
\* neither attached nor free, so whoever returns it finds no second owner; one
\* whose reset flag is set the queue no longer knows.
Entry(b) ==
    /\ ref[b] = (IF node[b] # "none" THEN 1 ELSE 0) + attached[b] + (IF Out(b) THEN 1 ELSE 0)
    /\ Out(b) => attached[b] = 0 /\ node[b] \in {"none", "dequeued"}
    /\ node[b] \in {"free", "dequeued"} => attached[b] = 0
    /\ b \in shown <=> attached[b] = 1
    /\ dequeued[b] # 0 => Out(b)
    /\ ~(b \in held /\ b \in lost)
    /\ bufReset[b] => node[b] = "none"

Ledger == \A b \in Buffers : Entry(b)

\* The life of the surface: there is a front buffer only in front-buffer mode,
\* the application draws into one buffer at a time, and a surface that is gone
\* has left nothing in the queue or on the screen.
Life ==
    /\ mode \/ frontbuffer = NoBuffer
    /\ frontbuffer \notin lost
    /\ \A b, c \in held : b = c
    /\ alive => exists /\ hooked
    /\ ~alive => /\ held = {} /\ shown = {} /\ ~mode
                 /\ \A b \in Buffers : node[b] = "none"

Inv == TypeOK /\ Ledger /\ Life

-----------------------------------------------------------------------------
(* Operators                                                               *)

\* Turning a size gives a size.
LEMMA OrientedType ==
    ASSUME NEW s \in Sizes \cup {NoSize}, NEW r
    PROVE  Oriented(s, r) \in Sizes \cup {NoSize} /\ Swapped(s) \in Sizes \cup {NoSize}
  BY DEF Oriented, Swapped, Sizes, NoSize

\* A window may always stand upright.
LEMMA Upright == 0 \in Rotations
  BY WindowAssumption

\* A buffer loses its data only with its last reference.
LEMMA BuffersType ==
    ASSUME NEW r \in [Buffers -> 0..2], NEW s \in [Buffers -> Sizes \cup {NoSize}],
           NEW f \in [Buffers -> BOOLEAN], BuffersBecome(r, s, f)
    PROVE  /\ ref' = r
           /\ \A b \in Buffers : bufReset'[b] => f[b]
           /\ ref' \in [Buffers -> 0..2]
           /\ bufSize' \in [Buffers -> Sizes \cup {NoSize}]
           /\ bufReset' \in [Buffers -> BOOLEAN]
  BY DEF BuffersBecome

\* Setting one count to two.
LEMMA TwoReferences ==
    ASSUME NEW r \in [Buffers -> 0..2], NEW b
    PROVE  [r EXCEPT ![b] = 2] \in [Buffers -> 0..2]
<1>1. \A S, T : \A g \in [S -> T] : \A y \in T : [g EXCEPT ![b] = y] \in [S -> T]
  OBVIOUS
<1>2. 2 \in 0..2
  OBVIOUS
<1> QED BY <1>1, <1>2, Zenon

\* What the queue's references leave behind, and what the flusher leaves of it.
LEMMA Counts ==
    ASSUME TypeOK
    PROVE  /\ Forgotten \in [Buffers -> 0..2]
           /\ Flagged \in [Buffers -> BOOLEAN]
           /\ Cleared(node) = [b \in Buffers |-> "none"]
           /\ Cleared(node) \in [Buffers -> NodeState]
           /\ \A r \in [Buffers -> 0..2] : DropAttached(r) \in [Buffers -> 0..2]
  BY DEF TypeOK, BufferTypes, Forgotten, Flagged, Cleared, NodeState, Decremented, DropAttached

\* What a buffer has left of its references when the queue forgets it, and when
\* its entry goes too.
LEMMA ForgottenEntry ==
    ASSUME TypeOK, NEW b \in Buffers, Entry(b)
    PROVE  /\ Forgotten[b] = attached[b] + (IF Out(b) THEN 1 ELSE 0)
           /\ DropAttached(Forgotten)[b] = IF Out(b) THEN 1 ELSE 0
  BY Counts DEF TypeOK, BufferTypes, Entry, Forgotten, Decremented, DropAttached, NodeState

\* What the queue gives was free or did not exist.
LEMMA DequeuableEntry ==
    ASSUME NEW n \in [Buffers -> NodeState], NEW live \in [Buffers -> BOOLEAN],
           NEW b \in Dequeuable(n, live, QueueSize)
    PROVE  b \in Buffers /\ (n[b] = "free" \/ ~live[b])
  BY DEF Dequeuable, InState

-----------------------------------------------------------------------------
(* The inductive invariant                                                 *)

\* It holds in the beginning.
LEMMA InvInit == Init => Inv
<1> SUFFICES ASSUME Init PROVE Inv
  OBVIOUS
<1>1. WindowTypes /\ SurfaceTypes
  BY WindowAssumption DEF Init, WindowTypes, SurfaceTypes
<1>2. BufferTypes
  BY DEF Init, BufferTypes, NodeState
<1>3. Ledger
  BY DEF Init, Ledger, Entry, Out
<1>4. Life
  BY DEF Init, Life
<1> QED BY <1>1, <1>2, <1>3, <1>4 DEF Inv, TypeOK

\* The calls on the window change nothing the queue, the lists or the counts know.
LEMMA WindowStep ==
    ASSUME Inv,
           \/ \E s \in Sizes : WindowCreate(s) \/ WindowResize(s)
           \/ \E r \in Rotations : WindowRotate(r)
           \/ WindowDestroy \/ SurfaceInitFails
    PROVE  Inv'
<1>1. /\ UNCHANGED <<alive, size, mode, frontbuffer, reset, queueVars, bufferVars, listVars>>
      /\ UNCHANGED <<held, lost, front>>
  BY DEF WindowCreate, WindowResize, WindowRotate, WindowDestroy, SurfaceInitFails,
     surfaceVars, flagVars
<1>2. Ledger'
  BY <1>1 DEF Inv, Ledger, Entry, Out, Lent, queueVars, bufferVars, listVars
<1>3. Life'
  BY <1>1 DEF Inv, Life, WindowCreate, WindowResize, WindowRotate, WindowDestroy,
     SurfaceInitFails, queueVars, bufferVars
<1>4. BufferTypes'
  BY <1>1 DEF Inv, TypeOK, BufferTypes, queueVars, bufferVars, listVars
<1>5. ResizeCallback => resized' \in BOOLEAN /\ aborted' \in BOOLEAN
  BY DEF ResizeCallback, Inv, TypeOK, SurfaceTypes
<1>6. WindowTypes' /\ SurfaceTypes'
  <2>1. CASE \E s \in Sizes : WindowCreate(s)
    <3>1. PICK s \in Sizes : WindowCreate(s)
      BY <2>1
    <3>2. winSize' \in Sizes \cup {NoSize}
      BY <3>1, OrientedType DEF WindowCreate
    <3>3. WindowTypes'
      <4>1. exists' = TRUE /\ hooked' = FALSE /\ rotation' = 0 /\ asked' = s
            /\ attachedSize' = NoSize
        BY <3>1 DEF WindowCreate
      <4> QED BY <3>2, <4>1, Upright DEF WindowTypes
    <3>4. SurfaceTypes'
      BY <3>1 DEF WindowCreate, surfaceVars, flagVars, queueVars, Inv, TypeOK, SurfaceTypes
    <3> QED BY <3>3, <3>4
  <2>2. CASE \E s \in Sizes : WindowResize(s)
    BY <2>2, <1>5, OrientedType DEF WindowResize, surfaceVars, queueVars,
       Inv, TypeOK, WindowTypes, SurfaceTypes
  <2>3. CASE \E r \in Rotations : WindowRotate(r)
    BY <2>3, <1>5, OrientedType DEF WindowRotate, queueVars,
       Inv, TypeOK, WindowTypes, SurfaceTypes
  <2>4. CASE WindowDestroy
    BY <2>4, WindowAssumption DEF WindowDestroy, surfaceVars, flagVars, queueVars,
       Inv, TypeOK, WindowTypes, SurfaceTypes
  <2>5. CASE SurfaceInitFails
    BY <2>5 DEF SurfaceInitFails, surfaceVars, flagVars, queueVars,
       Inv, TypeOK, WindowTypes, SurfaceTypes
  <2> QED BY <2>1, <2>2, <2>3, <2>4, <2>5
<1> QED BY <1>2, <1>3, <1>4, <1>6 DEF Inv, TypeOK

\* A surface is made of the window: what an earlier one left is given up.
LEMMA SurfaceInitStep == Inv /\ SurfaceInit => Inv'
<1> SUFFICES ASSUME Inv, SurfaceInit PROVE Inv'
  OBVIOUS
<1> USE DEF Inv, TypeOK
<1>1. WindowTypes' /\ SurfaceTypes'
  BY DEF SurfaceInit, WindowTypes, SurfaceTypes
<1>2. BufferTypes' /\ Ledger'
  BY DEF SurfaceInit, bufferVars, listVars, BufferTypes, Ledger, Entry, Out, Life
<1>3. Life'
  BY WindowAssumption DEF SurfaceInit, Life, BufferTypes, bufferVars
<1> QED BY <1>1, <1>2, <1>3

\* Giving up what the application has leaves every buffer out that was out.
LEMMA GiveUpOut ==
    ASSUME Inv, GiveUp, NEW b \in Buffers
    PROVE  (b \in lost' <=> Out(b)) /\ held' = {} /\ lost' \subseteq Buffers
  BY DEF GiveUp, Inv, TypeOK, BufferTypes, Out

\* The surface goes, and with it every reference but those of buffers given up.
LEMMA SurfaceFiniStep == Inv /\ SurfaceFini => Inv'
<1> SUFFICES ASSUME Inv, SurfaceFini PROVE Inv'
  OBVIOUS
<1> USE DEF Inv, TypeOK
<1> DEFINE r == DropAttached(Forgotten)
<1>1. WindowTypes' /\ SurfaceTypes'
  BY Upright, WindowAssumption DEF SurfaceFini, windowVars, WindowTypes, SurfaceTypes
<1>2. r \in [Buffers -> 0..2] /\ BuffersBecome(r, bufSize, bufReset) /\ GiveUp
  BY Counts DEF SurfaceFini
<1>3. /\ ref' = r /\ BufferTypes' /\ shown' \subseteq Buffers
      /\ node' = [b \in Buffers |-> "none"]
  <2>1. ref' = r /\ ref' \in [Buffers -> 0..2] /\ bufSize' \in [Buffers -> Sizes \cup {NoSize}]
        /\ bufReset' \in [Buffers -> BOOLEAN]
    BY <1>2, BuffersType DEF BufferTypes
  <2>2. node' = [b \in Buffers |-> "none"] /\ node' \in [Buffers -> NodeState]
    BY Counts DEF SurfaceFini
  <2>3. attached' \in [Buffers -> {0, 1}] /\ dequeued' \in [Buffers -> {0, 1}]
    BY DEF SurfaceFini
  <2>4. held' \cup lost' \cup shown' \subseteq Buffers
    BY DEF SurfaceFini, GiveUp, Survivors, BufferTypes
  <2> QED BY <2>1, <2>2, <2>3, <2>4 DEF BufferTypes
<1>4. \A b \in Buffers : ref'[b] = (IF Out(b) THEN 1 ELSE 0) /\ b \notin shown'
  BY <1>3, ForgottenEntry DEF SurfaceFini, Survivors, Ledger, Entry
<1>5. \A b \in Buffers : Out(b)' <=> Out(b)
  BY <1>2, GiveUpOut DEF Out
<1>6. Ledger'
  <2> SUFFICES ASSUME NEW b \in Buffers PROVE Entry(b)'
    BY DEF Ledger
  <2>1. attached'[b] = 0 /\ dequeued'[b] = 0 /\ held' = {}
    BY DEF SurfaceFini, GiveUp
  <2> QED BY <1>3, <1>4, <1>5, <2>1 DEF Entry
<1>7. Life'
  BY <1>2, <1>3, <1>4, GiveUpOut, WindowAssumption DEF SurfaceFini, GiveUp, Life, BufferTypes
<1> QED BY <1>1, <1>3, <1>6, <1>7

\* The mode is switched when the application has no buffer, so none changes hands.
LEMMA SetModeStep == ASSUME "settled" \in Rules PROVE Inv /\ SetMode => Inv'
<1> SUFFICES ASSUME Inv, SetMode PROVE Inv'
  OBVIOUS
<1> USE DEF Inv, TypeOK
<1>1. WindowTypes' /\ SurfaceTypes'
  BY DEF SetMode, windowVars, flagVars, queueVars, WindowTypes, SurfaceTypes
<1>2. BufferTypes' /\ Ledger'
  BY DEF SetMode, queueVars, bufferVars, listVars, BufferTypes, Ledger, Entry, Out
<1>3. Life'
  BY WindowAssumption DEF SetMode, Life, BufferTypes, windowVars
<1> QED BY <1>1, <1>2, <1>3

\* The front buffer is lent and comes back on the reference of its entry.
LEMMA FrontStep ==
    Inv /\ (DequeueFront \/ \E b \in Buffers : EnqueueFront(b)) => Inv'
<1> SUFFICES ASSUME Inv, DequeueFront \/ \E b \in Buffers : EnqueueFront(b) PROVE Inv'
  OBVIOUS
<1> USE DEF Inv, TypeOK
<1>1. CASE DequeueFront
  <2>1. frontbuffer \in Buffers
    BY <1>1 DEF DequeueFront, HasFront, SurfaceTypes
  <2>2. WindowTypes' /\ SurfaceTypes'
    BY <1>1, <2>1 DEF DequeueFront, windowVars, flagVars, queueVars, WindowTypes, SurfaceTypes,
       BufferTypes
  <2>3. BufferTypes'
    BY <1>1, <2>1 DEF DequeueFront, queueVars, bufferVars, listVars, BufferTypes
  <2>4. Ledger'
    BY <1>1, <2>1 DEF DequeueFront, HasFront, queueVars, bufferVars, listVars, Ledger, Entry,
       Out, Lent, Life
  <2>5. Life'
    BY <1>1 DEF DequeueFront, Life, windowVars, queueVars
  <2> QED BY <2>2, <2>3, <2>4, <2>5
<1>2. CASE \E b \in Buffers : EnqueueFront(b)
  <2>1. WindowTypes' /\ SurfaceTypes'
    BY <1>2 DEF EnqueueFront, windowVars, surfaceVars, flagVars, queueVars, WindowTypes,
       SurfaceTypes
  <2>2. BufferTypes'
    BY <1>2 DEF EnqueueFront, queueVars, bufferVars, listVars, BufferTypes
  <2>3. Ledger'
    BY <1>2 DEF EnqueueFront, surfaceVars, queueVars, bufferVars, listVars, Ledger, Entry, Out,
       Lent, Life
  <2>4. Life'
    BY <1>2 DEF EnqueueFront, Life, windowVars, surfaceVars, queueVars, bufferVars
  <2> QED BY <2>1, <2>2, <2>3, <2>4
<1> QED BY <1>1, <1>2

\* A buffer given up stays out.
LEMMA AbandonStep == Inv /\ Abandon => Inv'
<1> SUFFICES ASSUME Inv, Abandon PROVE Inv'
  OBVIOUS
<1> USE DEF Inv, TypeOK
<1>1. GiveUp
  BY DEF Abandon
<1>2. WindowTypes' /\ SurfaceTypes'
  BY DEF Abandon, windowVars, surfaceVars, flagVars, queueVars, WindowTypes, SurfaceTypes
<1>3. BufferTypes'
  BY <1>1 DEF Abandon, GiveUp, queueVars, bufferVars, listVars, BufferTypes
<1>4. \A b \in Buffers : Out(b)' <=> Out(b)
  BY <1>1, GiveUpOut DEF Out
<1>5. Ledger'
  BY <1>1, <1>4 DEF Abandon, GiveUp, queueVars, bufferVars, listVars, Ledger, Entry
<1>6. alive /\ alive' /\ exists' /\ hooked' /\ held' = {} /\ (mode' \/ frontbuffer' = NoBuffer)
  BY <1>1 DEF Abandon, GiveUp, Life, windowVars, surfaceVars
<1>7. frontbuffer' \notin lost'
  <2>1. frontbuffer' = frontbuffer /\ frontbuffer \notin lost /\ NoBuffer \notin held
    BY WindowAssumption DEF Abandon, surfaceVars, Life, BufferTypes
  <2>2. lost' = lost \cup {b \in held : ~(mode /\ frontbuffer = b)}
    BY <1>1 DEF GiveUp, Lent
  <2> QED BY <2>1, <2>2 DEF Life
<1>8. Life'
  BY <1>6, <1>7 DEF Life
<1> QED BY <1>2, <1>3, <1>5, <1>8

\* A committed buffer goes from the application to the compositor: the reference
\* it was out with is now the one of its entry.
LEMMA EnqueueStep == Inv /\ (\E b \in Buffers : Enqueue(b)) => Inv'
<1> SUFFICES ASSUME Inv, NEW b \in Buffers, Enqueue(b) PROVE Inv'
  OBVIOUS
<1> USE DEF Inv, TypeOK
<1>1. Out(b) /\ held = {b} /\ b \notin lost /\ held' = {}
  BY DEF Enqueue, Out, Lent, Life, Ledger, Entry
<1>2. attached[b] = 0 /\ b \notin shown /\ node[b] \in {"none", "dequeued"} /\ dequeued[b] \in {0, 1}
  BY <1>1 DEF Ledger, Entry, BufferTypes
<1>3. WindowTypes' /\ SurfaceTypes'
  BY DEF Enqueue, flagVars, WindowTypes, SurfaceTypes
<1>4. /\ attached' = [attached EXCEPT ![b] = 1]
      /\ dequeued' = [dequeued EXCEPT ![b] = 0]
      /\ shown' = shown \cup {b}
      /\ ref' = ref /\ lost' = lost
  <2>1. /\ attached' = [attached EXCEPT ![b] = attached[b] + 1]
        /\ dequeued' = [dequeued EXCEPT ![b] = Decremented(dequeued[b])]
        /\ shown' = shown \cup {b} /\ ref' = ref /\ lost' = lost
    BY DEF Enqueue
  <2>2. attached[b] + 1 = 1 /\ Decremented(dequeued[b]) = 0
    BY <1>2 DEF Decremented
  <2> QED BY <2>1, <2>2
<1>5. /\ node' \in [Buffers -> NodeState]
      /\ \A c \in Buffers \ {b} : node'[c] = node[c]
      /\ \/ node'[b] \in {"none", "acquired"} /\ (node'[b] = "none" <=> node[b] = "none")
         \/ node' = node
  BY DEF Enqueue, BufferTypes, NodeState
<1>6. BufferTypes'
  BY <1>1, <1>4, <1>5 DEF Enqueue, BufferTypes
<1>7. Ledger'
  <2> SUFFICES ASSUME NEW c \in Buffers PROVE Entry(c)'
    BY DEF Ledger
  <2> USE DEF BufferTypes
  <2>1. Entry(c)
    BY DEF Ledger
  <2>2. CASE c = b
    <3>1. ~Out(b)' /\ attached'[b] = 1 /\ dequeued'[b] = 0 /\ b \in shown' /\ b \notin held'
      BY <1>1, <1>4 DEF Out
    <3>2. node'[b] = "none" <=> node[b] = "none"
      BY <1>5
    <3>3. node'[b] \in {"none", "acquired"} /\ (bufReset'[b] <=> bufReset[b])
      BY <1>2, <2>1, <2>2 DEF Enqueue, Entry
    <3> QED BY <2>1, <2>2, <1>1, <1>2, <1>4, <3>1, <3>2, <3>3 DEF Entry
  <2>3. CASE c # b
    <3>1. /\ node'[c] = node[c] /\ attached'[c] = attached[c] /\ dequeued'[c] = dequeued[c]
          /\ (c \in shown' <=> c \in shown) /\ c \notin held' /\ ref'[c] = ref[c]
          /\ bufReset' = bufReset
      BY <1>1, <1>4, <1>5, <2>3 DEF Enqueue
    <3>2. Out(c)' <=> Out(c)
      BY <1>1, <1>4, <2>3 DEF Out
    <3> QED BY <2>1, <3>1, <3>2 DEF Entry
  <2> QED BY <2>2, <2>3
<1>8. Life'
  BY <1>1, <1>4 DEF Enqueue, Life
<1> QED BY <1>3, <1>6, <1>7, <1>8

\* The compositor's release drops the reference of the entry and the entry.
LEMMA ReleaseStep == Inv /\ (\E b \in Buffers : Release(b)) => Inv'
<1> SUFFICES ASSUME Inv, NEW b \in Buffers, Release(b) PROVE Inv'
  OBVIOUS
<1> USE DEF Inv, TypeOK
<1> DEFINE r == [ref EXCEPT ![b] = Decremented(@)]
<1>1. attached[b] = 1 /\ ~Out(b) /\ node[b] \notin {"free", "dequeued"} /\ ref[b] > 0
  <2>1. b \in shown /\ Entry(b)
    BY DEF Release, Ledger
  <2> QED BY <2>1 DEF Entry, BufferTypes
<1>2. r \in [Buffers -> 0..2] /\ r = [ref EXCEPT ![b] = ref[b] - 1]
  <2>1. Decremented(ref[b]) = ref[b] - 1 /\ ref[b] - 1 \in 0..2
    BY <1>1 DEF BufferTypes, Decremented
  <2> QED BY <2>1 DEF BufferTypes
<1>3. /\ ref' = r /\ bufSize' \in [Buffers -> Sizes \cup {NoSize}]
      /\ bufReset' \in [Buffers -> BOOLEAN]
      /\ \A c \in Buffers : bufReset'[c] => bufReset[c]
  BY <1>2, BuffersType DEF Release, BufferTypes
<1>4. attached' = [attached EXCEPT ![b] = 0] /\ attached' \in [Buffers -> {0, 1}]
  <2>1. attached' = [attached EXCEPT ![b] = IF attached[b] = 0 THEN 0 ELSE attached[b] - 1]
    BY DEF Release, Decremented
  <2>2. attached' = [attached EXCEPT ![b] = 0]
    BY <1>1, <2>1
  <2> QED BY <2>2 DEF BufferTypes
<1>5. /\ node' \in [Buffers -> NodeState]
      /\ \A c \in Buffers \ {b} : node'[c] = node[c]
      /\ node'[b] = "none" <=> node[b] = "none"
  BY DEF Release, Released, BufferTypes, NodeState
<1>6. \A c \in Buffers : c \in shown' <=> c \in shown /\ c # b
  <2> SUFFICES ASSUME NEW c \in Buffers, c \in shown, c # b PROVE r[c] > 0
    BY <1>3 DEF Release, Survivors
  <2> QED BY <1>2 DEF Ledger, Entry, BufferTypes
<1>7. shown' \subseteq Buffers
  BY DEF Release, Survivors, BufferTypes
<1>8. WindowTypes' /\ SurfaceTypes'
  BY DEF Release, windowVars, surfaceVars, flagVars, WindowTypes, SurfaceTypes
<1>9. BufferTypes'
  BY <1>2, <1>3, <1>4, <1>5, <1>7 DEF Release, BufferTypes
<1>10. \A c \in Buffers : Out(c)' <=> Out(c)
  BY DEF Release, Out, Lent, surfaceVars
<1>11. Ledger'
  <2> SUFFICES ASSUME NEW c \in Buffers PROVE Entry(c)'
    BY DEF Ledger
  <2> USE DEF BufferTypes
  <2>1. Entry(c) /\ dequeued' = dequeued /\ held' = held /\ lost' = lost
    BY DEF Ledger, Release
  <2>2. CASE c = b
    <3>1. /\ ref'[b] = ref[b] - 1 /\ attached'[b] = 0 /\ b \notin shown' /\ ~Out(b)'
          /\ (bufReset'[b] => bufReset[b])
      BY <1>1, <1>2, <1>3, <1>4, <1>6, <1>10
    <3> QED BY <2>1, <2>2, <1>1, <1>5, <3>1 DEF Entry
  <2>3. CASE c # b
    <3>1. /\ ref'[c] = ref[c] /\ attached'[c] = attached[c] /\ node'[c] = node[c]
          /\ (c \in shown' <=> c \in shown) /\ (Out(c)' <=> Out(c))
          /\ (bufReset'[c] => bufReset[c])
      BY <2>3, <1>2, <1>3, <1>4, <1>5, <1>6, <1>10
    <3> QED BY <2>1, <3>1 DEF Entry
  <2> QED BY <2>2, <2>3
<1>12. Life'
  BY DEF Release, Life, windowVars, surfaceVars
<1> QED BY <1>8, <1>9, <1>11, <1>12

\* The queue forgets its buffers; those attached or out keep a reference.
LEMMA ResetEventStep == Inv /\ ResetEvent => Inv'
<1> SUFFICES ASSUME Inv, ResetEvent PROVE Inv'
  OBVIOUS
<1> USE DEF Inv, TypeOK
<1>1. /\ ref' = Forgotten /\ ref' \in [Buffers -> 0..2]
      /\ bufSize' \in [Buffers -> Sizes \cup {NoSize}] /\ bufReset' \in [Buffers -> BOOLEAN]
  BY Counts, BuffersType DEF ResetEvent, BufferTypes
<1>2. node' = [b \in Buffers |-> "none"] /\ node' \in [Buffers -> NodeState]
  BY Counts DEF ResetEvent
<1>3. WindowTypes' /\ SurfaceTypes'
  BY DEF ResetEvent, windowVars, surfaceVars, WindowTypes, SurfaceTypes
<1>4. BufferTypes'
  BY <1>1, <1>2 DEF ResetEvent, listVars, Survivors, BufferTypes
<1>5. \A b \in Buffers : ref'[b] = attached[b] + (IF Out(b) THEN 1 ELSE 0)
  BY <1>1, ForgottenEntry DEF Ledger
<1>6. \A b \in Buffers : b \in shown' <=> b \in shown
  BY <1>5 DEF ResetEvent, Survivors, Ledger, Entry
<1>7. \A b \in Buffers : Out(b)' <=> Out(b)
  BY DEF ResetEvent, Out, Lent, surfaceVars
<1>8. Ledger'
  <2> SUFFICES ASSUME NEW b \in Buffers PROVE Entry(b)'
    BY DEF Ledger
  <2>1. Entry(b) /\ listVars' = listVars /\ held' = held /\ lost' = lost
    BY DEF Ledger, ResetEvent
  <2>2. /\ ref'[b] = attached[b] + (IF Out(b) THEN 1 ELSE 0) /\ node'[b] = "none"
        /\ (b \in shown' <=> b \in shown) /\ (Out(b)' <=> Out(b)) /\ attached[b] \in {0, 1}
    BY <1>2, <1>5, <1>6, <1>7 DEF BufferTypes
  <2> QED BY <2>1, <2>2 DEF Entry, listVars
<1>9. Life'
  BY <1>2 DEF ResetEvent, Life, windowVars, surfaceVars
<1> QED BY <1>3, <1>4, <1>8, <1>9

\* The flusher leaves only the buffers that are out.
LEMMA FlushStep == Inv /\ Flush => Inv'
<1> SUFFICES ASSUME Inv, Flush PROVE Inv'
  OBVIOUS
<1> USE DEF Inv, TypeOK
<1>1. /\ ref' = DropAttached(Forgotten) /\ ref' \in [Buffers -> 0..2]
      /\ bufSize' \in [Buffers -> Sizes \cup {NoSize}] /\ bufReset' \in [Buffers -> BOOLEAN]
  BY Counts, BuffersType DEF Flush, BufferTypes
<1>2. node' = [b \in Buffers |-> "none"] /\ node' \in [Buffers -> NodeState]
  BY Counts DEF Flush
<1>3. WindowTypes' /\ SurfaceTypes'
  BY DEF Flush, windowVars, surfaceVars, WindowTypes, SurfaceTypes
<1>4. BufferTypes'
  BY <1>1, <1>2 DEF Flush, Survivors, BufferTypes
<1>5. \A b \in Buffers : ref'[b] = IF Out(b) THEN 1 ELSE 0
  BY <1>1, ForgottenEntry DEF Ledger
<1>6. \A b \in Buffers : b \notin shown' /\ attached'[b] = 0
  <2> SUFFICES ASSUME NEW b \in Buffers PROVE b \notin shown' /\ attached'[b] = 0
    OBVIOUS
  <2>1. Entry(b)
    BY DEF Ledger
  <2>2. b \in shown => ref'[b] = 0
    BY <1>5, <2>1 DEF Entry
  <2>3. shown' = {c \in shown : ref'[c] > 0} /\ attached' = [c \in Buffers |-> 0]
    BY Zenon DEF Flush, Survivors
  <2> QED BY <2>2, <2>3
<1>7. \A b \in Buffers : Out(b)' <=> Out(b)
  BY DEF Flush, Out, Lent, surfaceVars
<1>8. Ledger'
  <2> SUFFICES ASSUME NEW b \in Buffers PROVE Entry(b)'
    BY DEF Ledger
  <2>1. Entry(b) /\ dequeued' = dequeued /\ held' = held /\ lost' = lost
    BY DEF Ledger, Flush
  <2>2. /\ ref'[b] = (IF Out(b) THEN 1 ELSE 0) /\ node'[b] = "none" /\ attached'[b] = 0
        /\ b \notin shown' /\ (Out(b)' <=> Out(b))
    BY <1>2, <1>5, <1>6, <1>7
  <2> QED BY <2>1, <2>2 DEF Entry
<1>9. Life'
  BY <1>2 DEF Flush, Life, windowVars, surfaceVars
<1> QED BY <1>3, <1>4, <1>8, <1>9

\* What the queue knows before it picks a buffer: its own nodes and counts, or, if
\* the backend has reset it, none.
LEMMA QueueLeft ==
    ASSUME Inv, NEW clear \in BOOLEAN,
           NEW n, n = IF clear THEN Cleared(node) ELSE node,
           NEW r, r = IF clear THEN Forgotten ELSE ref,
           NEW f, f = IF clear THEN Flagged ELSE bufReset
    PROVE  /\ n \in [Buffers -> NodeState] /\ r \in [Buffers -> 0..2]
           /\ f \in [Buffers -> BOOLEAN]
           /\ \A c \in Buffers :
                /\ r[c] = (IF n[c] # "none" THEN 1 ELSE 0) + attached[c]
                          + (IF Out(c) THEN 1 ELSE 0)
                /\ n[c] # "none" => n[c] = node[c]
                /\ f[c] => n[c] = "none"
<1> USE DEF Inv, TypeOK
<1>1. CASE clear
  <2>1. /\ n \in [Buffers -> NodeState] /\ r \in [Buffers -> 0..2] /\ f \in [Buffers -> BOOLEAN]
        /\ n = [c \in Buffers |-> "none"] /\ r = Forgotten
    BY <1>1, Counts
  <2>2. \A c \in Buffers : r[c] = attached[c] + (IF Out(c) THEN 1 ELSE 0)
    BY <2>1, ForgottenEntry DEF Ledger
  <2>3. \A c \in Buffers : n[c] = "none" /\ attached[c] \in {0, 1}
    BY <2>1 DEF BufferTypes
  <2> QED BY <2>1, <2>2, <2>3
<1>2. CASE ~clear
  <2>1. n = node /\ r = ref /\ f = bufReset
    BY <1>2
  <2>2. \A c \in Buffers : Entry(c)
    BY DEF Ledger
  <2> QED BY <2>1, <2>2 DEF BufferTypes, Entry
<1> QED BY <1>1, <1>2

\* A buffer the queue gives is nobody's: it comes with the queue's reference and
\* one for the application.
LEMMA DequeueStep == Inv /\ Dequeue => Inv'
<1> SUFFICES ASSUME Inv, Dequeue PROVE Inv'
  OBVIOUS
<1> USE DEF Inv, TypeOK
<1>1. PICK clear \in BOOLEAN :
        LET n == IF clear THEN Cleared(node) ELSE node
            r == IF clear THEN Forgotten ELSE ref
            f == IF clear THEN Flagged ELSE bufReset
            q == IF resized THEN winSize ELSE qSize
        IN  \E b \in Dequeuable(n, [x \in Buffers |-> r[x] > 0], QueueSize) :
              /\ node' = [n EXCEPT ![b] = "dequeued"]
              /\ BuffersBecome([r EXCEPT ![b] = IF n[b] = "none" THEN 2 ELSE @ + 1],
                               IF n[b] = "none" THEN [bufSize EXCEPT ![b] = q] ELSE bufSize,
                               [f EXCEPT ![b] = FALSE])
              /\ shown' = Survivors(r)
              /\ qSize' = q
              /\ dequeued' = [dequeued EXCEPT ![b] = @ + 1]
              /\ held' = {b}
              /\ size' = bufSize'[b]
  <2>1. {resized, resized /\ qSize # winSize} \subseteq BOOLEAN
    BY DEF SurfaceTypes
  <2> QED BY <2>1, Zenon DEF Dequeue
<1> DEFINE n == IF clear THEN Cleared(node) ELSE node
           r == IF clear THEN Forgotten ELSE ref
           f == IF clear THEN Flagged ELSE bufReset
           q == IF resized THEN winSize ELSE qSize
<1>2. /\ n \in [Buffers -> NodeState] /\ r \in [Buffers -> 0..2] /\ f \in [Buffers -> BOOLEAN]
      /\ \A c \in Buffers :
           /\ r[c] = (IF n[c] # "none" THEN 1 ELSE 0) + attached[c] + (IF Out(c) THEN 1 ELSE 0)
           /\ n[c] # "none" => n[c] = node[c]
           /\ f[c] => n[c] = "none"
  BY QueueLeft
<1>3. PICK b \in Dequeuable(n, [x \in Buffers |-> r[x] > 0], QueueSize) :
        /\ node' = [n EXCEPT ![b] = "dequeued"]
        /\ BuffersBecome([r EXCEPT ![b] = IF n[b] = "none" THEN 2 ELSE @ + 1],
                         IF n[b] = "none" THEN [bufSize EXCEPT ![b] = q] ELSE bufSize,
                         [f EXCEPT ![b] = FALSE])
        /\ shown' = Survivors(r)
        /\ qSize' = q
        /\ dequeued' = [dequeued EXCEPT ![b] = @ + 1]
        /\ held' = {b}
        /\ size' = bufSize'[b]
  BY <1>1
<1> HIDE DEF n, r, f
<1>4. /\ UNCHANGED <<windowVars, alive, angle, mode, attached, front, lost, aborted>>
      /\ alive /\ held = {} /\ frontbuffer' = IF mode THEN NoBuffer ELSE frontbuffer
      /\ ~resized' /\ ~reset'
  BY DEF Dequeue
<1>5. b \in Buffers /\ (n[b] = "free" \/ r[b] = 0)
  <2>1. [x \in Buffers |-> r[x] > 0] \in [Buffers -> BOOLEAN]
    OBVIOUS
  <2>2. b \in Buffers /\ (n[b] = "free" \/ ~[x \in Buffers |-> r[x] > 0][b])
    BY <1>2, <2>1, DequeuableEntry
  <2>3. r[b] \in 0..2 /\ [x \in Buffers |-> r[x] > 0][b] = (r[b] > 0)
    BY <1>2, <2>2
  <2>4. CASE n[b] = "free"
    BY <2>2, <2>4
  <2>5. CASE ~(r[b] > 0)
    BY <2>2, <2>3, <2>5
  <2> QED BY <2>2, <2>3, <2>4, <2>5, Zenon
<1>6. \A c \in Buffers : Entry(c) /\ attached[c] \in {0, 1} /\ (Out(c) <=> c \in lost)
  BY <1>4 DEF Ledger, BufferTypes, Out
<1>7. attached[b] = 0 /\ ~Out(b) /\ dequeued[b] = 0 /\ b \notin shown
      /\ r[b] = (IF n[b] = "none" THEN 0 ELSE 1)
  <2>1. Entry(b) /\ attached[b] \in {0, 1} /\ (n[b] # "none" => n[b] = node[b])
        /\ r[b] = (IF n[b] # "none" THEN 1 ELSE 0) + attached[b] + (IF Out(b) THEN 1 ELSE 0)
    BY <1>2, <1>5, <1>6
  <2>2. CASE n[b] = "free"
    BY <2>1, <2>2 DEF Entry
  <2>3. CASE r[b] = 0
    BY <2>1, <2>3 DEF Entry
  <2> QED BY <1>5, <2>2, <2>3
<1> DEFINE r2 == [r EXCEPT ![b] = 2]
           s2 == IF n[b] = "none" THEN [bufSize EXCEPT ![b] = q] ELSE bufSize
           f2 == [f EXCEPT ![b] = FALSE]
<1>8. /\ r2 \in [Buffers -> 0..2] /\ f2 \in [Buffers -> BOOLEAN]
      /\ s2 \in [Buffers -> Sizes \cup {NoSize}]
      /\ q \in Sizes \cup {NoSize}
  <2>1. q \in Sizes \cup {NoSize}
    BY DEF WindowTypes, SurfaceTypes
  <2>2. s2 \in [Buffers -> Sizes \cup {NoSize}]
    <3> HIDE DEF q
    <3> QED BY <2>1 DEF BufferTypes
  <2>3. r \in [Buffers -> 0..2] /\ f \in [Buffers -> BOOLEAN]
    BY <1>2
  <2>4. r2 \in [Buffers -> 0..2]
    BY <2>3, TwoReferences
  <2>5. f2 \in [Buffers -> BOOLEAN]
    BY <2>3
  <2> QED BY <2>1, <2>2, <2>4, <2>5
<1>9. BuffersBecome(r2, s2, f2)
  <2>1. [r EXCEPT ![b] = IF n[b] = "none" THEN 2 ELSE @ + 1] = r2
    BY <1>2, <1>5, <1>7
  <2> QED BY <1>3, <2>1
<1>10. /\ ref' = r2 /\ ref' \in [Buffers -> 0..2]
       /\ bufSize' \in [Buffers -> Sizes \cup {NoSize}] /\ bufReset' \in [Buffers -> BOOLEAN]
       /\ \A c \in Buffers : bufReset'[c] => f2[c]
  <2> HIDE DEF r2, s2, f2
  <2> QED BY <1>8, <1>9, BuffersType
<1>11. /\ node' = [n EXCEPT ![b] = "dequeued"] /\ node' \in [Buffers -> NodeState]
       /\ dequeued' = [dequeued EXCEPT ![b] = 1] /\ dequeued' \in [Buffers -> {0, 1}]
  <2>1. dequeued' = [dequeued EXCEPT ![b] = dequeued[b] + 1] /\ dequeued[b] + 1 = 1
    BY <1>3, <1>7
  <2>2. dequeued' = [dequeued EXCEPT ![b] = 1]
    BY <2>1
  <2> QED BY <1>2, <1>3, <2>2 DEF BufferTypes, NodeState
<1>12. shown' = shown
  <2>1. \A c \in shown : c \in Buffers /\ r[c] > 0
    BY <1>2, <1>6 DEF BufferTypes, Entry
  <2> QED BY <1>3, <2>1 DEF Survivors
<1>13. WindowTypes' /\ SurfaceTypes'
  <2>1. size' \in Sizes \cup {NoSize} /\ qSize' \in Sizes \cup {NoSize}
    BY <1>3, <1>5, <1>8, <1>10
  <2>2. WindowTypes'
    BY <1>4 DEF windowVars, WindowTypes
  <2>3. frontbuffer' \in Buffers \cup {NoBuffer}
    BY <1>4 DEF SurfaceTypes
  <2>4. {alive, mode, resized, reset, aborted}' \subseteq BOOLEAN
    BY <1>4 DEF SurfaceTypes, Dequeue
  <2> QED BY <1>4, <2>1, <2>2, <2>3, <2>4 DEF SurfaceTypes
<1>14. BufferTypes'
  BY <1>3, <1>4, <1>5, <1>10, <1>11, <1>12 DEF BufferTypes
<1>15. \A c \in Buffers : Out(c)' <=> Out(c) \/ c = b
  BY <1>3, <1>4, <1>5, <1>6, WindowAssumption DEF Out, Lent
<1>16. Ledger'
  <2> SUFFICES ASSUME NEW c \in Buffers PROVE Entry(c)'
    BY DEF Ledger
  <2>1. CASE c = b
    <3>1. ref'[b] = 2 /\ node'[b] = "dequeued" /\ attached'[b] = 0 /\ b \notin shown'
          /\ Out(b)' /\ dequeued'[b] = 1 /\ ~bufReset'[b] /\ b \notin lost'
      BY <1>2, <1>4, <1>5, <1>6, <1>7, <1>10, <1>11, <1>12, <1>15
    <3> QED BY <2>1, <3>1 DEF Entry
  <2>2. CASE c # b
    <3>1. ref'[c] = r[c] /\ node'[c] = n[c] /\ attached'[c] = attached[c]
          /\ (c \in shown' <=> c \in shown) /\ (Out(c)' <=> Out(c))
          /\ dequeued'[c] = dequeued[c] /\ (bufReset'[c] => f[c]) /\ c \notin held'
      BY <1>2, <1>3, <1>4, <1>10, <1>11, <1>12, <1>15, <2>2 DEF BufferTypes
    <3>2. Entry(c) /\ r[c] = (IF n[c] # "none" THEN 1 ELSE 0) + attached[c] + (IF Out(c) THEN 1 ELSE 0)
          /\ (n[c] # "none" => n[c] = node[c]) /\ (f[c] => n[c] = "none")
      BY <1>2, <1>6
    <3> QED BY <3>1, <3>2 DEF Entry
  <2> QED BY <2>1, <2>2
<1>17. Life'
  BY <1>3, <1>4, WindowAssumption DEF Life, windowVars, BufferTypes
<1> QED BY <1>13, <1>14, <1>16, <1>17

\* The inductive step.
LEMMA InvNext == ASSUME "settled" \in Rules PROVE Inv /\ [Next]_vars => Inv'
<1> SUFFICES ASSUME Inv, [Next]_vars PROVE Inv'
  OBVIOUS
<1>1. CASE UNCHANGED vars
  BY <1>1 DEF vars, windowVars, surfaceVars, flagVars, queueVars, bufferVars, listVars, Inv,
     TypeOK, WindowTypes, SurfaceTypes, BufferTypes, Ledger, Entry, Out, Lent, Life
<1>2. CASE Next
  BY <1>2, WindowStep, SurfaceInitStep, SurfaceFiniStep, SetModeStep, FrontStep, DequeueStep,
     AbandonStep, EnqueueStep, ReleaseStep, ResetEventStep, FlushStep DEF Next
<1> QED BY <1>1, <1>2

-----------------------------------------------------------------------------
(* The front buffer                                                        *)

\* What the application must keep to for the front buffer to stay one.
Considerate == {"settled", "quiet flush", "front kept", "live window"} \subseteq Rules

\* The front buffer is the one on the screen, and no callback met a surface that
\* is gone.
Kept ==
    /\ HasFront => frontbuffer = front /\ front \in shown
    /\ ~aborted

\* What is on the screen changes only where attached_buffers does.
LEMMA ShownListed ==
    ASSUME Inv, Inv', NEW b \in Buffers, attached'[b] = attached[b]
    PROVE  b \in shown' <=> b \in shown
  BY DEF Inv, Ledger, Entry

\* No step takes the front buffer off the screen.
LEMMA KeptStep == ASSUME Considerate PROVE Inv /\ Inv' /\ Kept /\ [Next]_vars => Kept'
<1> SUFFICES ASSUME Inv, Inv', Kept, [Next]_vars PROVE Kept'
  OBVIOUS
<1> USE DEF Kept, HasFront
<1>1. CASE UNCHANGED vars
  BY <1>1 DEF vars, surfaceVars, bufferVars
<1>2. CASE \/ \E s \in Sizes : WindowCreate(s) \/ WindowResize(s)
           \/ \E r \in Rotations : WindowRotate(r)
           \/ WindowDestroy \/ SurfaceInitFails
  <2>1. UNCHANGED <<mode, frontbuffer, front, shown>>
    BY <1>2 DEF WindowCreate, WindowResize, WindowRotate, WindowDestroy, SurfaceInitFails,
       surfaceVars, bufferVars
  <2>2. aborted' = aborted
    <3>1. "live window" \in Rules
      BY DEF Considerate
    <3>2. CASE \E s \in Sizes : WindowResize(s)
      BY <3>1, <3>2 DEF WindowResize, ResizeCallback, Inv, TypeOK, WindowTypes, SurfaceTypes
    <3>3. CASE \E r \in Rotations : WindowRotate(r)
      BY <3>1, <3>3 DEF WindowRotate, ResizeCallback, Inv, TypeOK, WindowTypes, SurfaceTypes
    <3>4. CASE WindowDestroy \/ SurfaceInitFails \/ \E s \in Sizes : WindowCreate(s)
      BY <3>4 DEF WindowDestroy, SurfaceInitFails, WindowCreate
    <3> QED BY <1>2, <3>2, <3>3, <3>4
  <2> QED BY <2>1, <2>2
<1>3. CASE SurfaceInit \/ SurfaceFini
  BY <1>3 DEF SurfaceInit, SurfaceFini
<1>4. CASE SetMode
  BY <1>4 DEF SetMode
<1>5. CASE DequeueFront \/ Abandon \/ \E b \in Buffers : EnqueueFront(b)
  BY <1>5 DEF DequeueFront, Abandon, EnqueueFront, surfaceVars, bufferVars
<1>6. CASE Dequeue
  BY <1>6 DEF Dequeue
<1>7. CASE \E b \in Buffers : Enqueue(b)
  BY <1>7 DEF Enqueue
<1>8. CASE \E b \in Buffers : Release(b)
  <2>1. PICK b \in Buffers : Release(b)
    BY <1>8
  <2>2. UNCHANGED <<mode, frontbuffer, front, aborted>> /\ (mode => b # front)
    BY <2>1 DEF Release, surfaceVars, Considerate
  <2>3. attached' = [attached EXCEPT ![b] = IF attached[b] = 0 THEN 0 ELSE attached[b] - 1]
    BY <2>1 DEF Release, Decremented
  <2>4. ASSUME HasFront PROVE front \in shown'
    <3>1. front \in shown /\ front \in Buffers /\ front # b
      BY <2>2, <2>4 DEF Inv, TypeOK, BufferTypes
    <3>2. attached'[front] = attached[front]
      BY <2>3, <3>1 DEF Inv, TypeOK, BufferTypes
    <3> QED BY <3>1, <3>2, ShownListed
  <2> QED BY <2>2, <2>4
<1>9. CASE ResetEvent
  <2>1. UNCHANGED <<mode, frontbuffer, front, aborted, attached>>
    BY <1>9 DEF ResetEvent, surfaceVars, listVars
  <2>2. front \in shown => front \in shown'
    BY <2>1, ShownListed DEF Inv, TypeOK, BufferTypes
  <2> QED BY <2>1, <2>2
<1>10. CASE Flush
  BY <1>10 DEF Flush, surfaceVars, Considerate
<1> QED BY <1>1, <1>2, <1>3, <1>4, <1>5, <1>6, <1>7, <1>8, <1>9, <1>10 DEF Next

\* A buffer the application draws into, or is about to be lent, has a reference.
Drawn ==
    /\ \A b \in held : ref[b] > 0
    /\ HasFront => ref[frontbuffer] > 0 /\ frontbuffer \in Buffers
    /\ \A b \in Buffers : node[b] # "none" => ref[b] > 0

\* This holds in every state of the invariant ...
LEMMA DrawnAlive == Inv /\ Kept => Drawn
<1> SUFFICES ASSUME Inv, Kept PROVE Drawn
  OBVIOUS
<1> USE DEF Inv, TypeOK, BufferTypes
<1>1. \A b \in Buffers : Entry(b)
  BY DEF Ledger
<1>2. HasFront => ref[frontbuffer] > 0 /\ frontbuffer \in Buffers
  <2> SUFFICES ASSUME HasFront PROVE ref[frontbuffer] > 0 /\ frontbuffer \in Buffers
    OBVIOUS
  <2>1. frontbuffer \in shown /\ frontbuffer \in Buffers
    BY DEF Kept
  <2> QED BY <1>1, <2>1 DEF Entry
<1>3. \A b \in held : ref[b] > 0
  <2> SUFFICES ASSUME NEW b \in held PROVE ref[b] > 0
    OBVIOUS
  <2>1. b \in Buffers /\ NoBuffer \notin Buffers
    BY WindowAssumption
  <2>2. CASE Lent(b)
    BY <1>2, <2>1, <2>2 DEF Lent, HasFront
  <2>3. CASE ~Lent(b)
    <3>1. Out(b)
      BY <2>3 DEF Out
    <3> QED BY <1>1, <2>1, <3>1 DEF Entry
  <2> QED BY <2>2, <2>3
<1>4. \A b \in Buffers : node[b] # "none" => ref[b] > 0
  BY <1>1 DEF Entry
<1> QED BY <1>2, <1>3, <1>4 DEF Drawn

\* ... and so in the state after a step.
LEMMA StillAlive == (Inv /\ Kept => Drawn)'
  BY DrawnAlive, PTL

-----------------------------------------------------------------------------
(* The size of the buffers                                                 *)

\* Every rule is kept, and the memory of a new window held no rotation.
Orderly == Rules = AllRules /\ OldRotations = {0}

\* The window has the size it was asked for, turned.
WindowFits ==
    exists => /\ asked \in Sizes /\ winSize = Oriented(asked, rotation)
              /\ alive => angle = rotation /\ (winSize # qSize => resized)

\* The queue's buffers have the queue's size; of the others that may yet be drawn
\* into, those drawn into while the surface is valid.
BuffersFit ==
    /\ \A b \in Buffers : node[b] # "none" => bufSize[b] = qSize
    /\ Valid => \A b \in held : bufSize[b] = qSize
    /\ Valid /\ HasFront => bufSize[frontbuffer] = qSize

Fits == WindowFits /\ BuffersFit

\* Turning a size that was turned for another rotation.
LEMMA OrientedTurn ==
    ASSUME NEW s \in Sizes, NEW r, NEW q
    PROVE  IF Turned(q) # Turned(r)
           THEN Swapped(Oriented(s, r)) = Oriented(s, q)
           ELSE Oriented(s, r) = Oriented(s, q)
<1>1. Swapped(Swapped(s)) = s
  BY DEF Swapped, Sizes
<1>2. Turned(q) \in BOOLEAN /\ Turned(r) \in BOOLEAN
  BY DEF Turned
<1> QED BY <1>1, <1>2 DEF Oriented

\* A buffer that keeps a reference keeps its size.
LEMMA SizeKept ==
    ASSUME NEW r, NEW f, BuffersBecome(r, bufSize, f), NEW b \in Buffers, ref'[b] > 0
    PROVE  bufSize'[b] = bufSize[b]
  BY DEF BuffersBecome

\* A step that changes no buffer's size and gives none to the application.
LEMMA FitsStutter ==
    ASSUME BuffersFit, UNCHANGED <<node, bufSize, qSize, mode, frontbuffer>>,
           held' \subseteq held, Valid' => Valid
    PROVE  BuffersFit'
  BY DEF BuffersFit, HasFront

\* A resize or a rotation that leaves the queue's size behind marks the surface.
LEMMA FitsWindow ==
    ASSUME Orderly, Inv, Fits,
           \/ \E s \in Sizes : WindowCreate(s) \/ WindowResize(s)
           \/ \E r \in Rotations : WindowRotate(r)
           \/ WindowDestroy \/ SurfaceInitFails
    PROVE  Fits'
<1> USE DEF Inv, TypeOK, Fits
<1>1. UNCHANGED <<node, bufSize, qSize, mode, frontbuffer, held, alive, reset>>
  BY DEF WindowCreate, WindowResize, WindowRotate, WindowDestroy, SurfaceInitFails, queueVars,
     bufferVars,
     surfaceVars, flagVars
<1>2. CASE \E s \in Sizes : WindowCreate(s)
  <2>1. PICK s \in Sizes : WindowCreate(s)
    BY <1>2
  <2>2. ~alive /\ asked' = s /\ winSize' = Oriented(s, 0) /\ rotation' = 0 /\ resized' = resized
    BY <2>1 DEF WindowCreate, Orderly, Life, flagVars
  <2>3. BuffersFit'
    BY <1>1, <2>2, FitsStutter DEF Valid
  <2> QED BY <1>1, <2>2, <2>3 DEF WindowFits
<1>3. CASE \E s \in Sizes : WindowResize(s)
  <2>1. PICK s \in Sizes : WindowResize(s)
    BY <1>3
  <2>2. exists' /\ asked' = s /\ winSize' = Oriented(s, rotation) /\ rotation' = rotation
        /\ angle' = angle
    BY <2>1 DEF WindowResize, surfaceVars
  <2>3. /\ resized => resized'
        /\ alive => (resized' \/ winSize' = qSize \/ (~resized /\ winSize' = winSize))
    BY <2>1 DEF WindowResize, ResizeCallback, Life, SurfaceTypes, WindowTypes
  <2>4. BuffersFit'
    BY <1>1, <2>3, FitsStutter DEF Valid
  <2> QED BY <1>1, <2>1, <2>2, <2>3, <2>4 DEF WindowFits, WindowResize
<1>4. CASE \E r \in Rotations : WindowRotate(r)
  <2>1. PICK r \in Rotations : WindowRotate(r)
    BY <1>4
  <2>2. alive /\ exists /\ hooked /\ exists' /\ asked' = asked /\ rotation' = r /\ angle' = r
    BY <2>1 DEF WindowRotate, Orderly, AllRules, Life
  <2>3. winSize' = IF Turned(r) # Turned(rotation) THEN Swapped(winSize) ELSE winSize
    BY <2>1, <2>2 DEF WindowRotate
  <2>4. winSize' = Oriented(asked, r) /\ asked \in Sizes
    BY <2>2, <2>3, OrientedTurn DEF WindowFits
  <2>5. (resized => resized') /\ (winSize' # winSize /\ winSize' # qSize => resized')
    BY <2>1, <2>2, <2>3 DEF WindowRotate, ResizeCallback, SurfaceTypes
  <2>6. BuffersFit'
    BY <1>1, <2>5, FitsStutter DEF Valid
  <2> QED BY <1>1, <2>2, <2>4, <2>5, <2>6 DEF WindowFits
<1>5. CASE WindowDestroy
  BY <1>1, <1>5, FitsStutter DEF WindowDestroy, WindowFits, Valid, flagVars
<1>6. CASE SurfaceInitFails
  BY <1>1, <1>6, FitsStutter DEF SurfaceInitFails, surfaceVars, flagVars, WindowFits, Valid
<1> QED BY <1>2, <1>3, <1>4, <1>5, <1>6

\* The queue has the window's size when it gives a buffer, and so has the buffer,
\* an old one because the queue was not resized since it was made.
LEMMA FitsDequeue ==
    ASSUME Inv, Inv', Kept', Fits, Dequeue
    PROVE  /\ Fits' /\ Valid' /\ alive' /\ exists'
           /\ UNCHANGED <<asked, rotation>>
           /\ \A b \in held' : size' = bufSize'[b]
<1> USE DEF Fits
<1>1. /\ UNCHANGED <<exists, winSize, rotation, asked, alive, angle, mode>>
      /\ alive /\ exists /\ Valid' /\ ~HasFront'
  BY DEF Dequeue, windowVars, Valid, HasFront, Inv, Life
<1>2. PICK clear \in {resized, resized /\ qSize # winSize} :
        LET n == IF clear THEN Cleared(node) ELSE node
            r == IF clear THEN Forgotten ELSE ref
            f == IF clear THEN Flagged ELSE bufReset
            q == IF resized THEN winSize ELSE qSize
        IN  \E b \in Dequeuable(n, [x \in Buffers |-> r[x] > 0], QueueSize) :
              /\ node' = [n EXCEPT ![b] = "dequeued"]
              /\ BuffersBecome([r EXCEPT ![b] = IF n[b] = "none" THEN 2 ELSE @ + 1],
                               IF n[b] = "none" THEN [bufSize EXCEPT ![b] = q] ELSE bufSize,
                               [f EXCEPT ![b] = FALSE])
              /\ shown' = Survivors(r)
              /\ qSize' = q
              /\ dequeued' = [dequeued EXCEPT ![b] = @ + 1]
              /\ held' = {b}
              /\ size' = bufSize'[b]
  BY Zenon DEF Dequeue
<1> DEFINE n == IF clear THEN Cleared(node) ELSE node
           q == IF resized THEN winSize ELSE qSize
<1>3. PICK b :
        /\ node' = [n EXCEPT ![b] = "dequeued"]
        /\ \E r, f : BuffersBecome(r, IF n[b] = "none" THEN [bufSize EXCEPT ![b] = q]
                                      ELSE bufSize, f)
        /\ qSize' = q /\ held' = {b} /\ size' = bufSize'[b]
  BY <1>2
<1>4. b \in Buffers /\ \A c \in Buffers : node'[c] # "none" => ref'[c] > 0
  <2>1. held' \subseteq Buffers
    BY DEF Inv, TypeOK, BufferTypes
  <2> QED BY <1>3, <2>1, StillAlive DEF Drawn
<1>5. n \in [Buffers -> NodeState] /\ q = winSize
      /\ \A c \in Buffers : n[c] # "none" => bufSize[c] = q /\ n[c] = node[c]
  <2>1. CASE clear
    <3>1. n = [c \in Buffers |-> "none"] /\ resized
      BY <1>2, <2>1, Counts DEF Inv
    <3> QED BY <2>1, <3>1 DEF NodeState
  <2>2. CASE ~clear
    <3>1. n = node /\ (resized => qSize = winSize)
      BY <1>2, <2>2
    <3>2. q = qSize /\ q = winSize
      BY <1>1, <3>1 DEF WindowFits
    <3> QED BY <3>1, <3>2 DEF BuffersFit, Inv, TypeOK, BufferTypes
  <2> QED BY <2>1, <2>2
<1>6. ASSUME NEW c \in Buffers, node'[c] # "none" PROVE bufSize'[c] = q
  <2> HIDE DEF n, q
  <2>1. bufSize'[c] = (IF n[b] = "none" THEN [bufSize EXCEPT ![b] = q] ELSE bufSize)[c]
    BY <1>3, <1>4, <1>6 DEF BuffersBecome
  <2>2. CASE c = b
    BY <1>4, <1>5, <2>1, <2>2 DEF Inv, TypeOK, BufferTypes
  <2>3. CASE c # b
    <3>1. n[c] # "none"
      BY <1>3, <1>4, <1>5, <1>6, <2>3
    <3> QED BY <1>4, <1>5, <2>1, <2>3, <3>1 DEF Inv, TypeOK, BufferTypes
  <2> QED BY <2>2, <2>3
<1>7. node'[b] # "none"
  <2> HIDE DEF n
  <2> QED BY <1>3, <1>4, <1>5
<1>8. qSize' = q /\ held' = {b}
  BY <1>3
<1> HIDE DEF n, q
<1>9. BuffersFit'
  BY <1>1, <1>4, <1>6, <1>7, <1>8 DEF BuffersFit
<1>10. WindowFits'
  BY <1>1, <1>5, <1>8 DEF WindowFits
<1> QED BY <1>1, <1>3, <1>9, <1>10

\* No step leaves a buffer of another size where it counts for a fitting one.
LEMMA FitsStep ==
    ASSUME Orderly PROVE Inv /\ Inv' /\ Kept /\ Kept' /\ Fits /\ [Next]_vars => Fits'
<1> SUFFICES ASSUME Inv, Inv', Kept, Kept', Fits, [Next]_vars PROVE Fits'
  OBVIOUS
<1> USE DEF Fits
<1>1. CASE UNCHANGED vars
  BY <1>1 DEF vars, windowVars, surfaceVars, flagVars, queueVars, bufferVars, WindowFits,
     BuffersFit, Valid, HasFront
<1>2. CASE \/ \E s \in Sizes : WindowCreate(s) \/ WindowResize(s)
           \/ \E r \in Rotations : WindowRotate(r)
           \/ WindowDestroy \/ SurfaceInitFails
  BY <1>2, FitsWindow
<1>3. CASE SurfaceInit
  BY <1>3 DEF SurfaceInit, WindowFits, BuffersFit, HasFront, Inv, Life
<1>4. CASE SurfaceFini
  <2>1. node' = [b \in Buffers |-> "none"]
    BY <1>4, Counts DEF SurfaceFini, Inv
  <2> QED BY <1>4, <2>1 DEF SurfaceFini, GiveUp, windowVars, WindowFits, BuffersFit, HasFront
<1>5. CASE SetMode
  BY <1>5 DEF SetMode, windowVars, flagVars, queueVars, bufferVars, WindowFits, BuffersFit,
     Valid, HasFront
<1>6. CASE DequeueFront
  BY <1>6 DEF DequeueFront, windowVars, flagVars, queueVars, bufferVars, WindowFits, BuffersFit,
     Valid, HasFront
<1>7. CASE Dequeue
  BY <1>7, FitsDequeue
<1>8. CASE Abandon \/ \E b \in Buffers : EnqueueFront(b)
  BY <1>8 DEF Abandon, EnqueueFront, GiveUp, windowVars, surfaceVars, flagVars, queueVars,
     bufferVars, WindowFits, BuffersFit, Valid, HasFront
<1>9. CASE \E b \in Buffers : Enqueue(b)
  <2>1. PICK b \in Buffers : Enqueue(b)
    BY <1>9
  <2>2. UNCHANGED <<exists, winSize, rotation, asked, alive, angle, resized, reset, qSize,
                    bufSize>>
        /\ held' = {} /\ b \in held /\ (frontbuffer' = b \/ frontbuffer' = frontbuffer)
        /\ mode' = mode
    BY <2>1 DEF Enqueue, flagVars
  <2>3. \A c \in Buffers : node'[c] # "none" => node[c] # "none"
    BY <2>1 DEF Enqueue, Inv, TypeOK, BufferTypes
  <2> QED BY <2>2, <2>3 DEF WindowFits, BuffersFit, Valid, HasFront
<1>10. CASE (\E b \in Buffers : Release(b)) \/ ResetEvent \/ Flush
  <2>1. UNCHANGED <<windowVars, alive, angle, mode, frontbuffer, resized, qSize, held>>
        /\ (reset => reset')
    <3>1. CASE \E b \in Buffers : Release(b)
      <4>1. reset' = reset
        BY <3>1, Zenon DEF Release, flagVars
      <4>2. UNCHANGED <<windowVars, alive, angle, mode, frontbuffer, resized, qSize, held>>
        BY <3>1 DEF Release, surfaceVars, flagVars
      <4> QED BY <4>1, <4>2
    <3>2. CASE ResetEvent
      BY <3>2 DEF ResetEvent, surfaceVars
    <3>3. CASE Flush
      <4>1. reset' = TRUE \/ reset' = reset
        BY <3>3, Zenon DEF Flush
      <4>2. UNCHANGED <<windowVars, alive, angle, mode, frontbuffer, resized, qSize, held>>
        BY <3>3 DEF Flush, surfaceVars
      <4> QED BY <4>1, <4>2
    <3> QED BY <1>10, <3>1, <3>2, <3>3
  <2>2. WindowFits'
    BY <2>1 DEF windowVars, WindowFits
  <2>3. \E r, f : BuffersBecome(r, bufSize, f)
    BY <1>10 DEF Release, ResetEvent, Flush
  <2>4. \A b \in Buffers : ref'[b] > 0 => bufSize'[b] = bufSize[b]
    BY <2>3, SizeKept
  <2>5. \A b \in Buffers : node'[b] # "none" => node[b] # "none"
    <3>1. CASE \E b \in Buffers : Release(b)
      <4>1. PICK c \in Buffers : node' = node \/ node' = Released(node, c)
        BY <3>1, Zenon DEF Release
      <4> QED BY <4>1 DEF Released, Inv, TypeOK, BufferTypes
    <3>2. CASE ResetEvent \/ Flush
      <4>1. node' = [b \in Buffers |-> "none"]
        BY <3>2, Counts, Zenon DEF ResetEvent, Flush, Inv
      <4> QED BY <4>1
    <3> QED BY <1>10, <3>1, <3>2
  <2>6. Drawn' /\ held' \subseteq Buffers
    BY StillAlive DEF Inv, TypeOK, BufferTypes
  <2>7. Valid' => Valid
    BY <2>1 DEF Valid
  <2>8. BuffersFit'
    <3>1. \A b \in Buffers : node'[b] # "none" => bufSize'[b] = qSize'
      BY <2>1, <2>4, <2>5, <2>6 DEF BuffersFit, Drawn
    <3>2. Valid' => \A b \in held' : bufSize'[b] = qSize'
      BY <2>1, <2>4, <2>6, <2>7 DEF BuffersFit, Drawn
    <3>3. Valid' /\ HasFront' => bufSize'[frontbuffer'] = qSize'
      BY <2>1, <2>4, <2>6, <2>7 DEF BuffersFit, Drawn, HasFront
    <3> QED BY <3>1, <3>2, <3>3 DEF BuffersFit
  <2> QED BY <2>2, <2>8
<1> QED BY <1>1, <1>2, <1>3, <1>4, <1>5, <1>6, <1>7, <1>8, <1>9, <1>10 DEF Next

-----------------------------------------------------------------------------
(* Theorems                                                                *)

\* If the mode is switched only when the application has no buffer, every variable
\* keeps its type: no buffer is listed twice and none has a third reference.
THEOREM WindowTypeCorrect == ASSUME "settled" \in Rules PROVE Spec => []TypeOK
<1>1. Init => Inv
  BY InvInit
<1>2. Inv /\ [Next]_vars => Inv'
  BY InvNext
<1>3. Inv => TypeOK
  BY DEF Inv
<1> QED BY <1>1, <1>2, <1>3, PTL DEF Spec

\* If the mode is switched only when the application has no buffer, the count of
\* every buffer is exact whatever resizes, rotations, resets, flushes and changes
\* of mode come: nothing leaks, nothing is freed early (tpl_surface.c:217, 280).
THEOREM WindowRefsExact == ASSUME "settled" \in Rules PROVE Spec => []RefsExact
<1>1. Init => Inv
  BY InvInit
<1>2. Inv /\ [Next]_vars => Inv'
  BY InvNext
<1>3. Inv => RefsExact
  BY DEF Inv, Ledger, Entry, Out, RefsExact, Owned
<1> QED BY <1>1, <1>2, <1>3, PTL DEF Spec

\* If moreover the flusher does not come in front-buffer mode, the compositor keeps
\* the buffer it shows and a window without a surface, be it destroyed or not
\* completed, is left alone, the buffer drawn into exists and in that mode is the
\* one on the screen, and no callback of a window meets a surface that is gone
\* (tpl.h:719, tpl_wayland_egl.c:1256).
THEOREM WindowDrawsOnLive == ASSUME Considerate PROVE Spec => []DrawsOnLive
<1>1. Init => Inv /\ Kept
  BY InvInit DEF Init, Kept, HasFront
<1>2. Inv /\ Kept /\ [Next]_vars => Inv' /\ Kept'
  BY InvNext, KeptStep DEF Considerate
<1>3. Inv /\ Kept => DrawsOnLive
  BY DrawnAlive DEF Drawn, Kept, DrawsOnLive
<1> QED BY <1>1, <1>2, <1>3, PTL DEF Spec

\* A buffer the application gets has the window's size and rotation.
Fitting ==
    \A b \in Buffers : b \in held' \ held =>
        /\ bufSize'[b] = Oriented(asked, rotation)
        /\ size' = bufSize'[b]
        /\ angle' = rotation

\* If all the rules are kept and the memory of a new window held no rotation, a
\* buffer has the window's size and rotation whenever the application gets one
\* (tpl.h:418).
THEOREM WindowFitsBuffer == ASSUME Orderly PROVE Spec => BufferFitsWindow
<1>1. Considerate /\ "settled" \in Rules
  BY DEF Orderly, Considerate, AllRules
<1>2. Init => Inv /\ Kept /\ Fits
  BY InvInit DEF Init, Kept, HasFront, Fits, WindowFits, BuffersFit
<1>3. Inv /\ Kept /\ Fits /\ [Next]_vars => Inv' /\ Kept' /\ Fits'
  BY <1>1, InvNext, KeptStep, FitsStep
<1>4. Inv /\ Kept /\ Fits /\ [Next]_vars => [Fitting]_vars
  <2> SUFFICES ASSUME Inv, Kept, Fits, Next, NEW b \in Buffers, b \in held' \ held
               PROVE  /\ bufSize'[b] = Oriented(asked, rotation)
                      /\ size' = bufSize'[b]
                      /\ angle' = rotation
    BY DEF Fitting
  <2>1. Inv' /\ Kept' /\ Fits'
    BY <1>3
  <2>2. CASE DequeueFront
    BY <2>2 DEF DequeueFront, bufferVars, Fits, WindowFits, BuffersFit, Valid, Inv, Life
  <2>3. CASE Dequeue
    BY <2>1, <2>3, FitsDequeue DEF Fits, WindowFits, BuffersFit, Valid
  <2>4. CASE ~DequeueFront /\ ~Dequeue
    <3>1. held' \subseteq held
      BY <2>4 DEF Next, WindowCreate, WindowResize, WindowRotate, WindowDestroy, SurfaceInit,
         SurfaceInitFails,
         SurfaceFini, SetMode, Abandon, EnqueueFront, Enqueue, Release, ResetEvent, Flush,
         GiveUp
    <3> QED BY <3>1
  <2> QED BY <2>2, <2>3, <2>4
<1>5. Spec => [][Fitting]_vars
  BY <1>2, <1>3, <1>4, PTL DEF Spec
<1> QED BY <1>5 DEF BufferFitsWindow, Fitting
=============================================================================
