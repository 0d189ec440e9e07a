---------------------------- MODULE VkWsiProofs ----------------------------
(***************************************************************************)
(* Theorems about VkWsi, for every set of threads and buffers and every    *)
(* bound.  The application keeps the rule "idleDestroy": it destroys a    *)
(* swapchain only when the worker has committed every frame (what happens  *)
(* without it is the run vk_destroy_race).                                 *)
(***************************************************************************)
EXTENDS VkWsi, SequenceLemmas

\* The application destroys a swapchain, if ever, when the worker has committed
\* every frame.
Careful == "destroy" \in Calls => "idleDestroy" \in Rules

\* The worker has a buffer in hand.
Busy == wpc \in {"drawDone", "release", "signal"}

\* A thread that is past the object lock owns it, and one has a buffer exactly
\* while it enqueues it; no buffer is enqueued twice, or while the application
\* still has it.
ThreadInv ==
    /\ \A t \in Threads :
          /\ pc[t] \in Owning => lock = t
          /\ pc[t] = "enqLock" => buf[t] \in Buffers /\ buf[t] \notin held
    /\ \A t, x \in Threads :
          pc[t] = "enqLock" /\ pc[x] = "enqLock" /\ buf[t] = buf[x] => t = x
    /\ taken # <<>> => \E t \in Threads : pc[t] \in {"getTake", "getGive"}

\* What the worker has between two steps: it holds surface_mutex while it walks
\* the list and then waits for no buffer; the buffer it works on is
\* draw_wait_buffer if it came from epoll.
WorkerInv ==
    /\ scanning => listed /\ drawWait = NoBuffer
    /\ wpc = "acquire" => scanning
    /\ wpc \in {"epoll", "look"} => ~scanning
    /\ Busy => wbuf \in Buffers /\ (~scanning => drawWait = wbuf)
    /\ ~Busy => wbuf = NoBuffer

\* A swapchain is destroyed when nothing is going on, and once destroyed has
\* left nothing behind.
LifeInv ==
    /\ listed => created
    /\ ~created => /\ attached = {} /\ held = {} /\ dirty = <<>>
                   /\ drawWait = NoBuffer /\ ~Busy
                   /\ \A t \in Threads : pc[t] = "idle"
    /\ \A t \in Threads : pc[t] \in Destroying =>
          /\ held = {} /\ dirty = <<>> /\ drawWait = NoBuffer /\ ~Busy /\ created
          /\ \A x \in Threads : x = t \/ pc[x] = "idle"
          /\ pc[t] \in {"roundtrip", "destroy"} => ~listed

\* What the counts, the lists, the timeline and the worker say about b.  A
\* buffer the queue does not own is nowhere; the compositor's commits keep the
\* wl_buffer alive, and the timeline is behind the timestamp by one for each of
\* them, but for the commit whose timestamp the worker has not counted yet.
Entry(b) ==
    /\ ref[b] = One(b \in attached) + One(Clients(b)) + scanout[b] + releases[b]
    /\ b \notin attached => Places(b) = 0
    /\ b \in attached => Places(b) = 1
    /\ wl[b] => ref[b] > 0 /\ lag[b] = scanout[b] - One(Given /\ wbuf = b)
    /\ ~wl[b] => scanout[b] = 0 /\ releases[b] = 0
    /\ Clients(b) => wl[b] /\ (fence[b] >= scanout[b] \/ fence[b] = NoFence)
    /\ b \in Range(dirty) \cup Range(InHand) => wl[b]
    /\ Busy /\ wbuf = b => b \in attached /\ wl[b]

\* No list has a buffer twice.
ListInv == IsInjective(free) /\ IsInjective(dirty) /\ IsInjective(taken)

Ledger == \A b \in Buffers : Entry(b)

Inv == TypeOK /\ ThreadInv /\ WorkerInv /\ LifeInv /\ ListInv /\ Ledger

\* Between the fence of a frame and its commit no new drawing is announced.
Waited == "epoll" \in Faults \/ (wpc = "drawDone" => waitSync[wbuf] # "pending")

-----------------------------------------------------------------------------
(* What a step leaves alone                                                *)

\* A thread that goes from one place to another, neither of them the beginning
\* of enqueue, takes no image from the application and gives it none.
LEMMA ClientsKept ==
    ASSUME TypeOK, NEW t \in Threads, NEW l, Goto(t, l), pc[t] # "enqLock", l # "enqLock",
           held' = held, buf' = buf \/ buf' = [buf EXCEPT ![t] = NoBuffer]
    PROVE  \A c \in Buffers : Clients(c)' <=> Clients(c)
<1>1. \A x \in Threads : /\ pc'[x] = "enqLock" <=> pc[x] = "enqLock"
                         /\ pc[x] = "enqLock" => buf'[x] = buf[x]
  BY DEF TypeOK, Goto
<1> QED BY <1>1 DEF Clients

\* c is counted, announced and placed as before.
SameCounts(c) ==
    /\ ref'[c] = ref[c] /\ scanout'[c] = scanout[c] /\ releases'[c] = releases[c]
    /\ wl'[c] = wl[c] /\ lag'[c] = lag[c] /\ fence'[c] = fence[c]

SamePlaces(c) ==
    /\ c \in attached' <=> c \in attached
    /\ c \in lost' <=> c \in lost
    /\ Clients(c)' <=> Clients(c)
    /\ Range(free)' \cap {c} = Range(free) \cap {c}
    /\ Range(dirty)' \cap {c} = Range(dirty) \cap {c}
    /\ Range(taken)' \cap {c} = Range(taken) \cap {c}

SameWork(c) ==
    /\ Range(InHand)' \cap {c} = Range(InHand) \cap {c}
    /\ (Given /\ wbuf = c)' <=> Given /\ wbuf = c
    /\ (Busy /\ wbuf = c)' => (Busy /\ wbuf = c) \/ c \in Range(InHand)

\* Where they are as they were, the account stays right.
LEMMA EntryKept ==
    ASSUME NEW c \in Buffers, Entry(c), SameCounts(c), SamePlaces(c), SameWork(c)
    PROVE  Entry(c)'
<1>1. Places(c)' = Places(c)
  BY DEF Places, One, SamePlaces, SameWork
<1>2. c \in Range(InHand) => c \in attached /\ wl[c]
  BY DEF Entry, Places, One
<1> QED BY <1>1, <1>2 DEF Entry, One, SameCounts, SamePlaces, SameWork

\* The same for all buffers and a step of another thread than the worker.
LEMMA LedgerKept ==
    ASSUME Ledger, \A c \in Buffers : Clients(c)' <=> Clients(c),
           UNCHANGED <<attached, free, dirty, lost, ref, wl, lag, fence, scanout, releases,
                       taken>>,
           UNCHANGED <<wpc, wbuf, drawWait>>
    PROVE  Ledger'
<1>1. InHand' = InHand /\ (Given' <=> Given) /\ (Busy' <=> Busy)
  BY DEF InHand, Given, Busy
<1>2. ASSUME NEW c \in Buffers PROVE Entry(c)'
  <2>1. SameCounts(c) /\ SamePlaces(c) /\ SameWork(c)
    BY <1>1 DEF SameCounts, SamePlaces, SameWork
  <2> QED BY <2>1, EntryKept DEF Ledger
<1> QED BY <1>2 DEF Ledger

-----------------------------------------------------------------------------
(* The inductive invariant                                                 *)

\* It holds in the beginning.
LEMMA InvInit == Init => Inv
<1> SUFFICES ASSUME Init PROVE Inv
  OBVIOUS
<1>1. TypeOK
  <2>1. /\ {ref, scanout, releases} \subseteq [Buffers -> Nat] /\ lag \in [Buffers -> Int]
        /\ fence \in [Buffers -> Nat \cup {NoFence}]
    BY DEF Init
  <2>2. {free, dirty, taken} \subseteq Seq(Buffers)
    BY DEF Init
  <2> QED BY <2>1, <2>2 DEF Init, TypeOK, WorkerPC
<1>2. ThreadInv /\ WorkerInv
  BY DEF Init, ThreadInv, WorkerInv, Busy, Owning
<1>3. LifeInv
  BY DEF Init, LifeInv, Busy, Destroying
<1>4. ListInv
  BY Short DEF Init, ListInv
<1>5. Ledger
  <2> SUFFICES ASSUME NEW b \in Buffers PROVE Entry(b)
    BY DEF Ledger
  <2>1. InHand = <<>> /\ ~Given /\ ~Busy /\ ~Clients(b)
    BY DEF Init, InHand, Given, Busy, Clients
  <2>2. Places(b) = 0
    BY <2>1, Short DEF Init, Places, One
  <2> QED BY <2>1, <2>2, Short DEF Init, Entry, One
<1> QED BY <1>1, <1>2, <1>3, <1>4, <1>5 DEF Inv

\* The steps of a call that only move the thread on.
Moves(t) ==
    \/ GetCall(t) \/ GetTaken(t) \/ DestroyCall(t) \/ DequeueCall(t) \/ DequeueLock(t)
    \/ DequeueSleep(t) \/ DequeueTimeout(t) \/ EnqueueNotify(t)

\* They keep the invariant.
LEMMA MovesInv ==
    ASSUME Inv, Careful, NEW t \in Threads, Moves(t)
    PROVE  Inv'
<1>1. /\ UNCHANGED <<created, listed, attached, free, dirty, lost, ref, wl, waitSync, lag,
                     fence>>
      /\ UNCHANGED <<scanout, releases, shown, frameDue, frameDone>>
      /\ UNCHANGED <<held, taken, wpc, wbuf, scanning, drawWait>>
      /\ buf' = buf \/ buf' = [buf EXCEPT ![t] = NoBuffer]
      /\ event' \in BOOLEAN
  BY DEF Moves, GetCall, GetTaken, DestroyCall, DequeueCall, DequeueLock, DequeueSleep,
     DequeueTimeout, EnqueueNotify, Return, queueVars, syncVars, serverVars, workerVars, Inv,
     TypeOK
<1> DEFINE To(l) ==
         /\ l \in {"idle"} \cup Waiting \cup Owning
         /\ Goto(t, l) /\ l # "enqLock" /\ pc[t] # "enqLock"
         /\ lock' \in {lock, t, NoThread}
         /\ l \in Owning => lock' = t
         /\ lock' # lock => lock = NoThread \/ pc[t] \in Owning
         /\ l \in {"getTake", "getGive"} \/ pc[t] \notin {"getTake", "getGive"}
         /\ l \notin {"roundtrip", "destroy"} /\ pc[t] \notin Destroying
         /\ l = "unlist" => /\ created /\ held = {} /\ \A x \in Threads : pc[x] = "idle"
                            /\ dirty = <<>> /\ drawWait = NoBuffer /\ wpc \in {"epoll", "look"}
         /\ l \notin {"unlist", "idle"} => created /\ \A x \in Threads : pc[x] \notin Destroying
<1>2. PICK l : To(l)
  <2> USE DEF Inv, ThreadInv, LifeInv, Acquire, Goto, Waiting, Owning, Destroying
  <2>1. GetCall(t) => To("getTake")
    BY SwapchainAssumption DEF GetCall
  <2>2. GetTaken(t) => To("getGive")
    BY DEF GetTaken
  <2>3. ASSUME DestroyCall(t) PROVE To("unlist")
    <3>1. /\ created /\ held = {} /\ dirty = <<>> /\ drawWait = NoBuffer
          /\ wpc \in {"epoll", "look"} /\ lock = NoThread /\ lock' = t
          /\ pc' = [pc EXCEPT ![t] = "unlist"]
      BY <2>3, Careful DEF DestroyCall, Careful
    <3>2. \A x \in Threads : pc[x] = "idle"
      BY <2>3 DEF DestroyCall
    <3> QED BY <3>1, <3>2
  <2>4. DequeueCall(t) => To("deqLock")
    BY DEF DequeueCall
  <2>5. DequeueLock(t) => To("deqTest")
    BY DEF DequeueLock
  <2>6. DequeueSleep(t) => To("asleep")
    BY DEF DequeueSleep
  <2>7. DequeueTimeout(t) => To("idle")
    BY DEF DequeueTimeout, Return
  <2>8. EnqueueNotify(t) => To("enqDispatch")
    BY DEF EnqueueNotify
  <2> QED BY <2>1, <2>2, <2>3, <2>4, <2>5, <2>6, <2>7, <2>8 DEF Moves
<1>3. TypeOK'
  BY <1>1, <1>2 DEF Inv, TypeOK, Goto
<1>4. ThreadInv'
  <2>1. \A x \in Threads : pc'[x] = IF x = t THEN l ELSE pc[x]
    BY <1>2 DEF Inv, TypeOK, Goto
  <2>2. \A x \in Threads : pc'[x] \in Owning => lock' = x
    BY <1>2, <2>1, SwapchainAssumption DEF Inv, ThreadInv
  <2>3. \A x \in Threads : pc'[x] = "enqLock" => pc[x] = "enqLock" /\ buf'[x] = buf[x]
    BY <1>1, <1>2, <2>1 DEF Inv, TypeOK
  <2> QED BY <1>1, <1>2, <2>1, <2>2, <2>3 DEF Inv, ThreadInv
<1>5. WorkerInv'
  BY <1>1 DEF Inv, WorkerInv, Busy
<1>6. LifeInv'
  BY <1>1, <1>2 DEF Inv, TypeOK, LifeInv, Busy, Goto, Destroying
<1>7. ListInv'
  BY <1>1 DEF Inv, ListInv
<1>8. Ledger'
  BY <1>1, <1>2, ClientsKept, LedgerKept DEF Inv
<1> QED BY <1>3, <1>4, <1>5, <1>6, <1>7, <1>8 DEF Inv

\* A step of another thread than the worker.
LEMMA WorkKept ==
    ASSUME UNCHANGED <<wpc, wbuf, drawWait>>
    PROVE  \A c : SameWork(c)
<1>1. InHand' = InHand /\ (Given' <=> Given) /\ (Busy' <=> Busy)
  BY DEF InHand, Given, Busy
<1> QED BY <1>1 DEF SameWork

\* What tbm_surface_queue_dequeue gives was free or did not exist: it was in no
\* other place.
LEMMA Dequeued ==
    ASSUME Inv, NEW b, QueueDequeue(b)
    PROVE  /\ b \in Buffers /\ attached' = attached \cup {b}
           /\ free' \in Seq(Buffers) /\ IsInjective(free') /\ b \notin Range(free')
           /\ Range(free) \cup {b} = Range(free') \cup {b}
           /\ b \in Range(free) <=> b \in attached
           /\ b \notin attached => ref[b] = 0
           /\ ~Clients(b) /\ b \notin Range(dirty) /\ b \notin Range(InHand)
           /\ b \notin Range(taken) /\ ~(Given /\ wbuf = b) /\ b \notin lost
<1>1. free \in Seq(Buffers) /\ ref \in [Buffers -> Nat] /\ attached \subseteq Buffers
  BY DEF Inv, TypeOK
<1>2. \A c \in Buffers : Entry(c)
  BY DEF Inv, Ledger
<1>3. CASE free # <<>>
  <2>1. b = Head(free) /\ free' = Tail(free) /\ attached' = attached \cup {b}
    BY <1>3 DEF QueueDequeue, Dequeuable
  <2>2. /\ b \in Buffers /\ free' \in Seq(Buffers) /\ IsInjective(free')
        /\ Range(free) = Range(free') \cup {b} /\ b \notin Range(free')
    BY <1>1, <1>3, <2>1, Taken DEF Inv, ListInv
  <2> QED BY <1>2, <2>1, <2>2 DEF Entry, Places, One
<1>4. CASE free = <<>>
  <2>1. b \in Dead /\ free' = free /\ attached' = attached \cup {b}
    BY <1>4 DEF QueueDequeue, Dequeuable
  <2>2. b \in Buffers /\ ref[b] = 0
    BY <2>1 DEF Dead
  <2>3. Range(free) = {} /\ IsInjective(free)
    BY <1>4, Short
  <2>4. scanout[b] \in Nat /\ releases[b] \in Nat
    BY <2>2 DEF Inv, TypeOK
  <2>5. b \notin attached /\ ~Clients(b)
    BY <1>2, <2>2, <2>4 DEF Entry, One
  <2> QED BY <1>1, <1>2, <2>1, <2>2, <2>3, <2>5 DEF Entry, Places, One
<1> QED BY <1>3, <1>4

\* The references on the buffer a thread dequeues.
LEMMA RefsTakenType ==
    ASSUME TypeOK, NEW b \in Buffers, NEW mine \in Nat, ref' = RefsTaken(b, mine)
    PROVE  /\ ref' \in [Buffers -> Nat]
           /\ ref'[b] = IF b \in attached THEN ref[b] + mine ELSE 1 + mine
           /\ \A c \in Buffers : c # b => ref'[c] = ref[c]
<1>1. ref \in [Buffers -> Nat]
  BY DEF TypeOK
<1> QED BY <1>1 DEF RefsTaken

\* get_swapchain_buffers dequeues an image, or a dequeue fails after it.
LEMMA TakeInv ==
    ASSUME Inv, NEW t \in Threads, GetTake(t) \/ DequeueFail(t)
    PROVE  Inv'
<1>1. PICK b \in Buffers :
         /\ QueueDequeue(b) /\ ref' = RefsTaken(b, 0)
         /\ \/ pc[t] = "getTake" /\ taken' = Append(taken, b) /\ UNCHANGED <<pc, buf, lock>>
               /\ lost' = lost
            \/ pc[t] = "deqTest" /\ taken' = taken /\ lost' = lost \cup {b} /\ Return(t)
  BY DEF GetTake, DequeueFail
<1>2. UNCHANGED <<created, listed, dirty, wl, waitSync, lag, fence, scanout, releases, shown,
                  frameDue, frameDone, held, wpc, wbuf, scanning, drawWait, event>>
  BY DEF GetTake, DequeueFail, syncVars, serverVars, workerVars
<1>3. /\ attached' = attached \cup {b} /\ free' \in Seq(Buffers) /\ IsInjective(free')
      /\ b \notin Range(free') /\ Range(free) \cup {b} = Range(free') \cup {b}
      /\ b \in Range(free) <=> b \in attached
      /\ b \notin attached => ref[b] = 0
      /\ ~Clients(b) /\ b \notin Range(dirty) /\ b \notin Range(InHand)
      /\ b \notin Range(taken) /\ ~(Given /\ wbuf = b) /\ b \notin lost
  BY <1>1, Dequeued
<1>4. /\ ref' \in [Buffers -> Nat] /\ ref'[b] = IF b \in attached THEN ref[b] ELSE 1
      /\ \A c \in Buffers : c # b => ref'[c] = ref[c]
  <2>1. ref' \in [Buffers -> Nat] /\ ref'[b] = IF b \in attached THEN ref[b] + 0 ELSE 1 + 0
    BY <1>1, RefsTakenType DEF Inv
  <2>2. \A c \in Buffers : c # b => ref'[c] = ref[c]
    BY <1>1, RefsTakenType DEF Inv
  <2> QED BY <2>1, <2>2 DEF Inv, TypeOK
<1>5. /\ \/ taken' = taken /\ lost' = lost \cup {b}
         \/ Range(taken') = Range(taken) \cup {b} /\ lost' = lost
      /\ taken' \in Seq(Buffers) /\ IsInjective(taken')
  <2>1. taken \in Seq(Buffers) /\ IsInjective(taken)
    BY DEF Inv, TypeOK, ListInv
  <2>2. CASE taken' = Append(taken, b) /\ lost' = lost
    BY <1>3, <2>1, <2>2, Appended
  <2>3. CASE taken' = taken /\ lost' = lost \cup {b}
    BY <2>1, <2>3
  <2> QED BY <1>1, <2>2, <2>3
<1>6. pc[t] \in {"getTake", "deqTest"} /\ lock = t
  BY <1>1 DEF Inv, ThreadInv, Owning
<1>8. pc[t] # "enqLock" /\ \A c \in Buffers : Clients(c)' <=> Clients(c)
  <2>1. CASE UNCHANGED <<pc, buf, lock>>
    BY <1>1, <1>2, <2>1 DEF Clients
  <2>2. CASE Return(t) /\ pc[t] = "deqTest"
    BY <1>2, <2>2, ClientsKept DEF Return, Inv
  <2> QED BY <1>1, <2>1, <2>2
<1>9. TypeOK'
  <2>1. pc' \in [Threads -> {"idle"} \cup Waiting \cup Owning]
        /\ buf' \in [Threads -> Buffers \cup {NoBuffer}]
        /\ lock' \in Threads \cup {NoThread}
    BY <1>1 DEF Inv, TypeOK, Return, Goto
  <2>2. attached' \subseteq Buffers /\ lost' \subseteq Buffers
    BY <1>3, <1>5 DEF Inv, TypeOK
  <2> QED BY <1>2, <1>3, <1>4, <1>5, <2>1, <2>2 DEF Inv, TypeOK
<1>10. ThreadInv'
  <2>1. \A x \in Threads : x # t => pc[x] \notin Owning
    BY <1>6 DEF Inv, ThreadInv
  <2>2. CASE UNCHANGED <<pc, buf, lock>>
    BY <1>1, <1>2, <1>6, <2>2 DEF Inv, ThreadInv
  <2>3. CASE Return(t) /\ pc[t] = "deqTest" /\ taken' = taken
    <3>1. \A x \in Threads : /\ pc'[x] = IF x = t THEN "idle" ELSE pc[x]
                             /\ x # t => buf'[x] = buf[x]
      BY <2>3 DEF Inv, TypeOK, Return, Goto
    <3> QED BY <1>2, <1>6, <2>1, <2>3, <3>1 DEF Inv, ThreadInv, Owning
  <2> QED BY <1>1, <2>2, <2>3
<1>11. WorkerInv' /\ LifeInv'
  <2>1. created /\ \A x \in Threads : pc[x] \notin Destroying
    BY <1>1 DEF Inv, LifeInv, Destroying
  <2>2. \A x \in Threads : pc'[x] \notin Destroying
    <3>1. pc' = pc \/ pc' = [pc EXCEPT ![t] = "idle"]
      BY <1>1 DEF Return, Goto
    <3> QED BY <2>1, <3>1 DEF Inv, TypeOK, Destroying
  <2> QED BY <1>2, <2>1, <2>2 DEF Inv, WorkerInv, LifeInv, Busy
<1>12. ListInv'
  BY <1>2, <1>3, <1>5 DEF Inv, ListInv
<1>13. Ledger'
  <2> SUFFICES ASSUME NEW c \in Buffers PROVE Entry(c)'
    BY DEF Ledger
  <2>1. SameWork(c) /\ Entry(c)
    BY <1>2, WorkKept DEF Inv, Ledger
  <2>2. CASE c # b
    <3>1. SameCounts(c) /\ SamePlaces(c)
      BY <1>2, <1>3, <1>4, <1>5, <1>8, <2>2 DEF SameCounts, SamePlaces
    <3> QED BY <2>1, <3>1, EntryKept
  <2>3. CASE c = b
    <3>1. Range(dirty)' = Range(dirty)
      BY <1>2
    <3> QED BY <1>2, <1>3, <1>4, <1>5, <1>8, <2>1, <2>3, <3>1 DEF Entry, Places, One, SameWork
  <2> QED BY <2>2, <2>3
<1> QED BY <1>9, <1>10, <1>11, <1>12, <1>13 DEF Inv

\* get_swapchain_buffers gives an image back, or returns when it has given back
\* all of them.
LEMMA GiveInv ==
    ASSUME Inv, NEW t \in Threads, GetGive(t)
    PROVE  Inv'
<1>1. /\ UNCHANGED <<created, listed, attached, dirty, lost, ref, wl, waitSync, lag, fence,
                     scanout>>
      /\ UNCHANGED <<releases, shown, frameDue, frameDone, held, wpc, wbuf, scanning, drawWait>>
      /\ event' = event /\ pc[t] = "getGive"
      /\ taken # <<>> => /\ QueueRelease(Head(taken)) /\ taken' = Tail(taken)
                         /\ UNCHANGED <<pc, buf, lock>>
      /\ taken = <<>> => Return(t) /\ UNCHANGED <<free, taken>>
  BY DEF GetGive, syncVars, serverVars, workerVars
<1>2. lock = t /\ \A x \in Threads : x # t => pc[x] \notin Owning
  BY <1>1 DEF Inv, ThreadInv, Owning
<1>3. \A c \in Buffers : Clients(c)' <=> Clients(c)
  <2>1. CASE taken # <<>>
    BY <1>1, <2>1 DEF Clients
  <2>2. CASE taken = <<>>
    BY <1>1, <2>2, ClientsKept DEF Return, Inv
  <2> QED BY <2>1, <2>2
<1>4. /\ pc' \in [Threads -> {"idle"} \cup Waiting \cup Owning]
      /\ buf' \in [Threads -> Buffers \cup {NoBuffer}] /\ lock' \in Threads \cup {NoThread}
      /\ \A x \in Threads : x # t => pc'[x] = pc[x] /\ buf'[x] = buf[x]
      /\ pc'[t] \in {"idle", "getGive"} /\ (taken # <<>> => pc' = pc /\ lock' = lock)
      /\ taken = <<>> => pc'[t] = "idle"
  BY <1>1 DEF Inv, TypeOK, Return, Goto
<1>5. ThreadInv'
  <2>1. taken' # <<>> => taken # <<>>
    BY <1>1
  <2>2. \A x \in Threads : pc'[x] \in Owning => lock' = x
    BY <1>1, <1>2, <1>4 DEF Inv, ThreadInv, Owning
  <2> QED BY <1>1, <1>4, <2>1, <2>2 DEF Inv, ThreadInv
<1>6. WorkerInv' /\ LifeInv'
  <2>1. created /\ \A x \in Threads : pc[x] \notin Destroying
    BY <1>1 DEF Inv, LifeInv, Destroying
  <2> QED BY <1>1, <1>4, <2>1 DEF Inv, WorkerInv, LifeInv, Busy, Destroying
<1>7. CASE taken = <<>>
  <2>1. Ledger'
    BY <1>1, <1>3, <1>7, LedgerKept DEF Inv
  <2> QED BY <1>1, <1>4, <1>5, <1>6, <1>7, <2>1 DEF Inv, TypeOK, ListInv
<1>8. CASE taken # <<>>
  <2> DEFINE b == Head(taken)
  <2>1. /\ b \in Buffers /\ taken' \in Seq(Buffers) /\ IsInjective(taken')
        /\ Range(taken) = Range(taken') \cup {b} /\ b \notin Range(taken')
    <3>1. taken \in Seq(Buffers) /\ IsInjective(taken) /\ taken' = Tail(taken)
      BY <1>1, <1>8 DEF Inv, TypeOK, ListInv
    <3> QED BY <1>8, <3>1, Taken
  <2> HIDE DEF b
  <2>2. Entry(b)
    BY <2>1 DEF Inv, Ledger
  <2>3. /\ b \in attached /\ b \notin Range(free) /\ b \notin Range(dirty)
        /\ b \notin Range(InHand) /\ ~(Given /\ wbuf = b) /\ ~Clients(b) /\ b \notin lost
    BY <2>1, <2>2 DEF Entry, Places, One
  <2>4. free' = Append(free, b)
    BY <1>1, <1>8, <2>3 DEF QueueRelease, b
  <2>5. free' \in Seq(Buffers) /\ IsInjective(free') /\ Range(free') = Range(free) \cup {b}
    BY <2>1, <2>3, <2>4, Appended DEF Inv, TypeOK, ListInv
  <2>6. Ledger'
    <3> SUFFICES ASSUME NEW c \in Buffers PROVE Entry(c)'
      BY DEF Ledger
    <3>1. SameWork(c) /\ Entry(c)
      BY <1>1, WorkKept DEF Inv, Ledger
    <3>2. CASE c # b
      <4>1. SameCounts(c) /\ SamePlaces(c)
        BY <1>1, <1>3, <2>1, <2>5, <3>2 DEF SameCounts, SamePlaces
      <4> QED BY <3>1, <4>1, EntryKept
    <3>3. CASE c = b
      BY <1>1, <1>3, <2>1, <2>3, <2>5, <3>1, <3>3 DEF Entry, Places, One, SameWork
    <3> QED BY <3>2, <3>3
  <2> QED BY <1>1, <1>4, <1>5, <1>6, <2>1, <2>5, <2>6 DEF Inv, TypeOK, ListInv
<1> QED BY <1>7, <1>8

\* dequeue_buffer returns an image.
LEMMA DequeueInv ==
    ASSUME Inv, NEW t \in Threads, DequeueTake(t)
    PROVE  Inv'
<1>1. PICK b \in Buffers :
         /\ QueueDequeue(b) /\ ref' = RefsTaken(b, 1)
         /\ wl' = [wl EXCEPT ![b] = TRUE]
         /\ lag' = IF wl[b] THEN lag ELSE [lag EXCEPT ![b] = 0]
         /\ \E f \in {AtLeast0(lag'[b]), NoFence} : fence' = [fence EXCEPT ![b] = f]
         /\ held' = held \cup {b}
  BY DEF DequeueTake, FencesFor
<1>2. /\ UNCHANGED <<created, listed, dirty, lost, waitSync, scanout, releases, shown,
                     frameDue>>
      /\ UNCHANGED <<frameDone, taken, wpc, wbuf, scanning, drawWait, event>>
      /\ pc[t] = "deqTest"
      /\ pc' = [pc EXCEPT ![t] = "idle"] /\ buf' = [buf EXCEPT ![t] = NoBuffer]
      /\ lock' = NoThread
  BY DEF DequeueTake, serverVars, workerVars, Return, Goto
<1>3. /\ attached' = attached \cup {b} /\ free' \in Seq(Buffers) /\ IsInjective(free')
      /\ b \notin Range(free') /\ Range(free) \cup {b} = Range(free') \cup {b}
      /\ b \in Range(free) <=> b \in attached
      /\ b \notin attached => ref[b] = 0
      /\ ~Clients(b) /\ b \notin Range(dirty) /\ b \notin Range(InHand)
      /\ b \notin Range(taken) /\ ~(Given /\ wbuf = b) /\ b \notin lost
  BY <1>1, Dequeued
<1>4. /\ ref' \in [Buffers -> Nat] /\ ref'[b] = IF b \in attached THEN ref[b] + 1 ELSE 2
      /\ \A c \in Buffers : c # b => ref'[c] = ref[c]
  <2>1. ref' \in [Buffers -> Nat] /\ ref'[b] = IF b \in attached THEN ref[b] + 1 ELSE 1 + 1
    BY <1>1, RefsTakenType DEF Inv
  <2>2. \A c \in Buffers : c # b => ref'[c] = ref[c]
    BY <1>1, RefsTakenType DEF Inv
  <2> QED BY <2>1, <2>2
<1>5. /\ wl' \in [Buffers -> BOOLEAN] /\ wl'[b]
      /\ \A c \in Buffers : c # b => wl'[c] = wl[c]
  BY <1>1 DEF Inv, TypeOK
<1>6. /\ lag' \in [Buffers -> Int] /\ lag'[b] = IF wl[b] THEN lag[b] ELSE 0
      /\ \A c \in Buffers : c # b => lag'[c] = lag[c]
  BY <1>1 DEF Inv, TypeOK
<1>7. /\ fence' \in [Buffers -> Nat \cup {NoFence}]
      /\ fence'[b] \in {AtLeast0(lag'[b]), NoFence}
      /\ \A c \in Buffers : c # b => fence'[c] = fence[c]
  <2>1. AtLeast0(lag'[b]) \in Nat
    BY <1>6 DEF AtLeast0
  <2> QED BY <1>1, <2>1 DEF Inv, TypeOK
<1>8. /\ pc' \in [Threads -> {"idle"} \cup Waiting \cup Owning]
      /\ buf' \in [Threads -> Buffers \cup {NoBuffer}] /\ lock' \in Threads \cup {NoThread}
      /\ \A x \in Threads : /\ pc'[x] = IF x = t THEN "idle" ELSE pc[x]
                            /\ x # t => buf'[x] = buf[x]
  BY <1>2 DEF Inv, TypeOK
<1>9. Clients(b)' /\ \A c \in Buffers : c # b => (Clients(c)' <=> Clients(c))
  BY <1>1, <1>2, <1>8 DEF Clients
<1>10. TypeOK'
  <2>1. attached' \subseteq Buffers /\ held' \subseteq Buffers
    BY <1>1, <1>3 DEF Inv, TypeOK
  <2>2. {free', dirty', taken'} \subseteq Seq(Buffers)
    BY <1>2, <1>3 DEF Inv, TypeOK
  <2>3. {ref', scanout', releases'} \subseteq [Buffers -> Nat]
    BY <1>2, <1>4 DEF Inv, TypeOK
  <2> QED BY <1>2, <1>5, <1>6, <1>7, <1>8, <2>1, <2>2, <2>3 DEF Inv, TypeOK
<1>11. ThreadInv'
  <2>1. \A x \in Threads : x # t => pc[x] \notin Owning
    BY <1>2 DEF Inv, ThreadInv, Owning
  <2>2. \A x \in Threads : pc[x] = "enqLock" => buf[x] # b
    BY <1>3 DEF Clients
  <2> QED BY <1>1, <1>2, <1>8, <2>1, <2>2 DEF Inv, ThreadInv, Owning
<1>12. WorkerInv' /\ LifeInv'
  <2>1. created /\ \A x \in Threads : pc[x] \notin Destroying
    BY <1>2 DEF Inv, LifeInv, Destroying
  <2> QED BY <1>2, <1>8, <2>1 DEF Inv, WorkerInv, LifeInv, Busy, Destroying
<1>13. ListInv'
  BY <1>2, <1>3 DEF Inv, ListInv
<1>14. Ledger'
  <2> SUFFICES ASSUME NEW c \in Buffers PROVE Entry(c)'
    BY DEF Ledger
  <2>1. SameWork(c) /\ Entry(c)
    BY <1>2, WorkKept DEF Inv, Ledger
  <2>2. CASE c # b
    <3>1. SameCounts(c) /\ SamePlaces(c)
      BY <1>2, <1>3, <1>4, <1>5, <1>6, <1>7, <1>9, <2>2 DEF SameCounts, SamePlaces
    <3> QED BY <2>1, <3>1, EntryKept
  <2>3. CASE c = b
    <3>1. /\ scanout[b] \in Nat /\ releases[b] \in Nat /\ wl[b] \in BOOLEAN
          /\ scanout'[b] = scanout[b] /\ releases'[b] = releases[b]
          /\ lag[b] \in Int /\ lag'[b] \in Int
      BY <1>2, <1>6 DEF Inv, TypeOK
    <3>2. lag'[b] = scanout[b] /\ (fence'[b] = scanout[b] \/ fence'[b] = NoFence)
      BY <1>3, <1>6, <1>7, <2>1, <2>3, <3>1 DEF Entry, One, AtLeast0
    <3>3. b \notin attached => scanout[b] = 0 /\ releases[b] = 0
      BY <1>3, <2>1, <2>3, <3>1 DEF Entry, One
    <3>4. /\ ~(Given /\ wbuf = b)' /\ b \notin Range(InHand)' /\ b \notin Range(dirty)'
          /\ b \notin Range(taken)' /\ b \notin lost'
          /\ ((Busy /\ wbuf = b)' => Busy /\ wbuf = b)
      BY <1>2, <1>3, <2>1, <2>3 DEF SameWork
    <3>5. Places(b)' = 1
      BY <1>3, <1>9, <3>4 DEF Places, One
    <3>6. /\ b \in attached' /\ wl'[b] /\ ref'[b] > 0
          /\ ref'[b] = 1 + 1 + scanout[b] + releases[b]
      BY <1>3, <1>4, <1>5, <2>1, <2>3, <3>1, <3>3 DEF Entry, One
    <3> QED BY <1>9, <2>3, <3>1, <3>2, <3>4, <3>5, <3>6 DEF Entry, One
  <2> QED BY <2>2, <2>3
<1> QED BY <1>10, <1>11, <1>12, <1>13, <1>14 DEF Inv

\* The application gives an image to enqueue_buffer.
LEMMA EnqueueCallInv ==
    ASSUME Inv, NEW t \in Threads, EnqueueCall(t)
    PROVE  Inv'
<1>1. PICK b \in held : held' = held \ {b} /\ buf' = [buf EXCEPT ![t] = b]
  BY DEF EnqueueCall
<1>2. /\ UNCHANGED <<created, listed, attached, free, dirty, lost, ref, wl, waitSync, lag,
                     fence>>
      /\ UNCHANGED <<scanout, releases, shown, frameDue, frameDone>>
      /\ UNCHANGED <<taken, lock, wpc, wbuf, scanning, drawWait, event>>
      /\ pc[t] = "idle" /\ pc' = [pc EXCEPT ![t] = "enqLock"]
  BY DEF EnqueueCall, queueVars, syncVars, serverVars, workerVars, Goto
<1>3. /\ b \in Buffers
      /\ \A x \in Threads : /\ pc'[x] = IF x = t THEN "enqLock" ELSE pc[x]
                            /\ buf'[x] = IF x = t THEN b ELSE buf[x]
  BY <1>1, <1>2 DEF Inv, TypeOK
<1>4. TypeOK'
  <2>1. /\ pc' \in [Threads -> {"idle"} \cup Waiting \cup Owning] /\ held' \subseteq Buffers
        /\ buf' \in [Threads -> Buffers \cup {NoBuffer}]
    BY <1>1, <1>2, <1>3 DEF Inv, TypeOK, Waiting
  <2> QED BY <1>2, <2>1 DEF Inv, TypeOK
<1>5. ThreadInv'
  <2>1. \A x \in Threads : pc[x] = "enqLock" => buf[x] # b
    BY DEF Inv, ThreadInv
  <2> QED BY <1>1, <1>2, <1>3, <2>1 DEF Inv, ThreadInv, Owning
<1>6. WorkerInv' /\ LifeInv'
  <2>1. created /\ \A x \in Threads : pc[x] \notin Destroying
    BY DEF Inv, LifeInv
  <2> QED BY <1>2, <1>3, <2>1 DEF Inv, WorkerInv, LifeInv, Busy, Destroying
<1>7. ListInv'
  BY <1>2 DEF Inv, ListInv
<1>8. \A c \in Buffers : Clients(c)' <=> Clients(c)
  BY <1>1, <1>2, <1>3 DEF Clients
<1>9. Ledger'
  BY <1>2, <1>8, LedgerKept DEF Inv
<1> QED BY <1>4, <1>5, <1>6, <1>7, <1>9 DEF Inv

\* A buffer loses its wl_buffer only with its last reference.
LEMMA CountsType ==
    ASSUME TypeOK, NEW r \in [Buffers -> Nat], CountsBecome(r)
    PROVE  /\ ref' = r /\ wl' \in [Buffers -> BOOLEAN]
           /\ \A c \in Buffers : IF r[c] > 0 THEN wl'[c] = wl[c] ELSE ~wl'[c]
  BY DEF TypeOK, CountsBecome

\* A frame is put in the queue.
LEMMA EnqueueQueueInv ==
    ASSUME Inv, NEW t \in Threads, EnqueueQueue(t)
    PROVE  Inv'
<1> PICK b : b = buf[t]
  OBVIOUS
<1>1. /\ UNCHANGED <<created, listed, attached, lost, free, lag, fence, scanout, releases,
                     shown>>
      /\ UNCHANGED <<frameDue, frameDone, held, buf, taken, wpc, wbuf, scanning, drawWait,
                     event>>
      /\ pc[t] = "enqLock" /\ pc' = [pc EXCEPT ![t] = "enqNotify"]
      /\ lock = NoThread /\ lock' = t
      /\ CountsBecome([ref EXCEPT ![b] = AtLeast0(@ - 1)]) /\ dirty' = Append(dirty, b)
      /\ waitSync' \in {[waitSync EXCEPT ![b] = sync] : sync \in {"none", "pending"}}
  BY DEF EnqueueQueue, serverVars, workerVars, Acquire, Goto
<1>2. /\ b \in Buffers /\ b \notin held /\ Clients(b)
      /\ \A x \in Threads : pc[x] = "enqLock" /\ x # t => buf[x] # b
  BY <1>1 DEF Inv, ThreadInv, Clients
<1>3. \A x \in Threads : pc'[x] = IF x = t THEN "enqNotify" ELSE pc[x]
  BY <1>1 DEF Inv, TypeOK
<1>4. ~Clients(b)' /\ \A c \in Buffers : c # b => (Clients(c)' <=> Clients(c))
  BY <1>1, <1>2, <1>3 DEF Clients
<1>5. Entry(b) /\ scanout[b] \in Nat /\ releases[b] \in Nat /\ ref[b] \in Nat
  BY <1>2 DEF Inv, TypeOK, Ledger
<1>6. /\ b \in attached /\ b \notin Range(free) /\ b \notin Range(dirty)
      /\ b \notin Range(InHand) /\ ~(Given /\ wbuf = b) /\ b \notin Range(taken)
      /\ b \notin lost
  BY <1>2, <1>5 DEF Entry, Places, One
<1>7. wl[b] /\ ref[b] = 2 + scanout[b] + releases[b]
  BY <1>2, <1>5, <1>6 DEF Entry, One
<1>8. AtLeast0(ref[b] - 1) = ref[b] - 1 /\ ref[b] - 1 \in Nat
  BY <1>5, <1>7 DEF AtLeast0
<1> DEFINE r == [ref EXCEPT ![b] = AtLeast0(@ - 1)]
<1>9. /\ r \in [Buffers -> Nat] /\ r[b] = ref[b] - 1
      /\ \A c \in Buffers : c # b => r[c] = ref[c]
  BY <1>2, <1>8 DEF Inv, TypeOK
<1>10. CountsBecome(r)
  BY <1>1
<1> HIDE DEF r
<1>11. /\ ref' = r /\ wl' \in [Buffers -> BOOLEAN]
       /\ \A c \in Buffers : IF r[c] > 0 THEN wl'[c] = wl[c] ELSE ~wl'[c]
  BY <1>9, <1>10, CountsType DEF Inv
<1>12. \A c \in Buffers : wl'[c] = wl[c]
  <2> SUFFICES ASSUME NEW c \in Buffers PROVE wl'[c] = wl[c]
    OBVIOUS
  <2>1. wl[c] => r[c] > 0
    BY <1>5, <1>7, <1>9 DEF Inv, Ledger, Entry
  <2>2. wl[c] \in BOOLEAN /\ wl'[c] \in BOOLEAN
    BY <1>11 DEF Inv, TypeOK
  <2> QED BY <1>11, <2>1, <2>2
<1>13. dirty' \in Seq(Buffers) /\ IsInjective(dirty') /\ Range(dirty') = Range(dirty) \cup {b}
  <2>1. dirty \in Seq(Buffers) /\ IsInjective(dirty)
    BY DEF Inv, TypeOK, ListInv
  <2> QED BY <1>1, <1>2, <1>6, <2>1, Appended
<1>14. TypeOK'
  <2>1. {free', dirty', taken'} \subseteq Seq(Buffers)
    BY <1>1, <1>13 DEF Inv, TypeOK
  <2>2. ref' \in [Buffers -> Nat] /\ {scanout', releases'} \subseteq [Buffers -> Nat]
    BY <1>1, <1>9, <1>11 DEF Inv, TypeOK
  <2>3. waitSync' \in [Buffers -> {"none", "pending", "signalled"}]
    BY <1>1 DEF Inv, TypeOK
  <2>4. pc' \in [Threads -> {"idle"} \cup Waiting \cup Owning]
    BY <1>1 DEF Inv, TypeOK, Owning
  <2> QED BY <1>1, <1>11, <2>1, <2>2, <2>3, <2>4 DEF Inv, TypeOK
<1>15. ThreadInv'
  <2>1. \A x \in Threads : pc[x] \notin Owning
    BY <1>1, SwapchainAssumption DEF Inv, ThreadInv
  <2> QED BY <1>1, <1>3, <2>1 DEF Inv, ThreadInv, Owning
<1>16. WorkerInv' /\ LifeInv'
  <2>1. created /\ \A x \in Threads : pc[x] \notin Destroying
    BY <1>1 DEF Inv, LifeInv, Destroying
  <2> QED BY <1>1, <1>3, <2>1 DEF Inv, WorkerInv, LifeInv, Busy, Destroying
<1>17. ListInv'
  BY <1>1, <1>13 DEF Inv, ListInv
<1>18. Ledger'
  <2> SUFFICES ASSUME NEW c \in Buffers PROVE Entry(c)'
    BY DEF Ledger
  <2>1. SameWork(c) /\ Entry(c)
    BY <1>1, WorkKept DEF Inv, Ledger
  <2>2. CASE c # b
    <3>1. SameCounts(c) /\ SamePlaces(c)
      BY <1>1, <1>4, <1>9, <1>11, <1>12, <1>13, <2>2 DEF SameCounts, SamePlaces
    <3> QED BY <2>1, <3>1, EntryKept
  <2>3. CASE c = b
    <3>1. /\ ref'[b] = 1 + scanout[b] + releases[b] /\ wl'[b] /\ b \in attached'
          /\ scanout'[b] = scanout[b] /\ releases'[b] = releases[b] /\ lag'[b] = lag[b]
      <4>1. ref'[b] = 1 + scanout[b] + releases[b]
        BY <1>5, <1>7, <1>9, <1>11
      <4>2. wl'[b]
        BY <1>2, <1>7, <1>12
      <4> QED BY <1>1, <1>6, <4>1, <4>2
    <3>2. ~(Given /\ wbuf = b)' /\ b \notin Range(InHand)' /\ b \notin Range(free)'
      BY <1>1, <1>6, <2>1, <2>3 DEF SameWork
    <3>3. b \in Range(dirty)' /\ b \notin Range(taken)' /\ b \notin lost'
      BY <1>1, <1>6, <1>13
    <3>4. Places(b)' = 1
      BY <1>4, <3>2, <3>3 DEF Places, One
    <3>5. lag[b] = scanout[b]
      BY <1>5, <1>6, <1>7 DEF Entry, One
    <3> QED BY <1>4, <1>5, <2>3, <3>1, <3>2, <3>4, <3>5 DEF Entry, One
  <2> QED BY <2>2, <2>3
<1> QED BY <1>14, <1>15, <1>16, <1>17, <1>18 DEF Inv

\* The dispatch of events: every release that has arrived drops the reference
\* its commit took.
LEMMA DispatchLedger ==
    ASSUME Inv, Dispatch, UNCHANGED <<attached, free, dirty, lost, lag, fence, taken>>,
           UNCHANGED <<wpc, wbuf, drawWait>>,
           \A c \in Buffers : Clients(c)' <=> Clients(c)
    PROVE  /\ Ledger' /\ {ref', releases'} \subseteq [Buffers -> Nat]
           /\ wl' \in [Buffers -> BOOLEAN]
<1> DEFINE left(c) == IF wl[c] THEN AtLeast0(ref[c] - releases[c]) ELSE ref[c]
           r == [c \in Buffers |-> left(c)]
<1>1. CountsBecome(r) /\ releases' = [c \in Buffers |-> 0] /\ scanout' = scanout
  BY DEF Dispatch
<1>2. \A c \in Buffers : left(c) \in Nat
  <2>1. ASSUME NEW c \in Buffers PROVE ref[c] \in Nat /\ releases[c] \in Nat
    BY DEF Inv, TypeOK
  <2> QED BY <2>1 DEF AtLeast0
<1>3. r \in [Buffers -> Nat] /\ \A c \in Buffers : r[c] = left(c)
  BY <1>2
<1> HIDE DEF r
<1>4. /\ ref' = r /\ wl' \in [Buffers -> BOOLEAN]
      /\ \A c \in Buffers : IF r[c] > 0 THEN wl'[c] = wl[c] ELSE ~wl'[c]
  BY <1>1, <1>3, CountsType DEF Inv
<1>5. ASSUME NEW c \in Buffers PROVE Entry(c)'
  <2>1. Entry(c) /\ SameWork(c)
    BY WorkKept DEF Inv, Ledger
  <2>2. ref[c] \in Nat /\ releases[c] \in Nat /\ scanout[c] \in Nat /\ releases'[c] = 0
    BY <1>1 DEF Inv, TypeOK
  <2>3. r[c] = One(c \in attached) + One(Clients(c)) + scanout[c]
    <3>1. CASE wl[c]
      BY <1>3, <2>1, <2>2, <3>1 DEF Entry, One, AtLeast0
    <3>2. CASE ~wl[c]
      BY <1>3, <2>1, <2>2, <3>2 DEF Entry, One
    <3> QED BY <3>1, <3>2
  <2>4. Places(c)' = Places(c)
    <3>1. SamePlaces(c)
      BY DEF SamePlaces
    <3> QED BY <2>1, <3>1 DEF Places, One, SamePlaces, SameWork
  <2>5. c \in attached => wl'[c] = wl[c]
    BY <1>4, <2>2, <2>3 DEF One
  <2>6. Clients(c) \/ scanout[c] > 0 => wl'[c] = wl[c]
    BY <1>4, <2>2, <2>3 DEF One
  <2>7. wl'[c] => wl[c] /\ r[c] > 0
    BY <1>3, <1>4
  <2>8. c \in Range(InHand) \cup Range(dirty) => c \in attached
    BY <2>1 DEF Entry, Places, One
  <2>9. ~wl'[c] => scanout[c] = 0
    BY <2>1, <2>2, <2>6 DEF Entry
  <2>10. (Busy /\ wbuf = c)' => c \in attached /\ wl[c]
    BY <2>1, <2>8 DEF Entry, SameWork
  <2> QED BY <1>1, <1>4, <2>1, <2>2, <2>3, <2>4, <2>5, <2>6, <2>7, <2>8, <2>9, <2>10
          DEF Entry, One, SameWork
<1>6. releases' \in [Buffers -> Nat]
  BY <1>1
<1> QED BY <1>3, <1>4, <1>5, <1>6 DEF Ledger

\* The three places where events are dispatched.
LEMMA DispatchInv ==
    ASSUME Inv,
           \/ DispatchElsewhere
           \/ \E t \in Threads : DestroyRoundtrip(t) \/ EnqueueDispatch(t)
    PROVE  Inv'
<1>1. /\ Dispatch
      /\ UNCHANGED <<created, listed, attached, free, dirty, lost, waitSync, lag, fence,
                     scanout>>
      /\ UNCHANGED <<shown, frameDue, held, taken, wpc, wbuf, scanning, drawWait, event>>
      /\ frameDone' = FALSE
  BY DEF DispatchElsewhere, DestroyRoundtrip, EnqueueDispatch, Dispatch, queueVars, syncVars,
     serverVars, workerVars, appVars
<1>2. \/ UNCHANGED <<pc, buf, lock>>
      \/ \E t \in Threads : pc[t] = "roundtrip" /\ Goto(t, "destroy") /\ UNCHANGED <<buf, lock>>
      \/ \E t \in Threads : pc[t] = "enqDispatch" /\ Return(t)
  BY DEF DispatchElsewhere, DestroyRoundtrip, EnqueueDispatch, appVars
<1>3. ASSUME NEW l \in {"idle"} \cup Waiting \cup Owning, NEW t \in Threads,
             pc' = [pc EXCEPT ![t] = l]
      PROVE  /\ pc' \in [Threads -> {"idle"} \cup Waiting \cup Owning]
             /\ \A x \in Threads : pc'[x] = IF x = t THEN l ELSE pc[x]
  BY <1>3 DEF Inv, TypeOK
<1> DEFINE Goal == /\ pc' \in [Threads -> {"idle"} \cup Waiting \cup Owning]
                   /\ buf' \in [Threads -> Buffers \cup {NoBuffer}]
                   /\ lock' \in Threads \cup {NoThread}
                   /\ \A c \in Buffers : Clients(c)' <=> Clients(c)
                   /\ ThreadInv'
<1>4. Goal
  <2>1. CASE UNCHANGED <<pc, buf, lock>>
    BY <1>1, <2>1 DEF Inv, TypeOK, Clients, ThreadInv
  <2>2. ASSUME NEW t \in Threads, pc[t] = "roundtrip", Goto(t, "destroy"), UNCHANGED <<buf,
                                                                                       lock>>
        PROVE  Goal
    <3>1. /\ pc' \in [Threads -> {"idle"} \cup Waiting \cup Owning]
          /\ \A x \in Threads : pc'[x] = IF x = t THEN "destroy" ELSE pc[x]
      BY <1>3, <2>2 DEF Goto, Owning
    <3>2. \A c \in Buffers : Clients(c)' <=> Clients(c)
      BY <1>1, <2>2, ClientsKept DEF Inv
    <3>3. ThreadInv'
      BY <1>1, <2>2, <3>1 DEF Inv, ThreadInv, Owning
    <3>4. buf' \in [Threads -> Buffers \cup {NoBuffer}] /\ lock' \in Threads \cup {NoThread}
      BY <2>2 DEF Inv, TypeOK
    <3> QED BY <3>1, <3>2, <3>3, <3>4
  <2>3. ASSUME NEW t \in Threads, pc[t] = "enqDispatch", Return(t)
        PROVE  Goal
    <3>1. /\ pc' \in [Threads -> {"idle"} \cup Waiting \cup Owning]
          /\ \A x \in Threads : pc'[x] = IF x = t THEN "idle" ELSE pc[x]
      BY <1>3, <2>3 DEF Return, Goto
    <3>2. buf' = [buf EXCEPT ![t] = NoBuffer] /\ lock' = NoThread
      BY <2>3 DEF Return
    <3>3. \A c \in Buffers : Clients(c)' <=> Clients(c)
      BY <1>1, <2>3, <3>2, ClientsKept DEF Inv, Return
    <3>4. \A x \in Threads : x # t => pc[x] \notin Owning
      BY <2>3 DEF Inv, ThreadInv, Owning
    <3>5. \A x \in Threads : x # t => buf'[x] = buf[x]
      BY <3>2 DEF Inv, TypeOK
    <3>6. ThreadInv'
      BY <1>1, <2>3, <3>1, <3>4, <3>5 DEF Inv, ThreadInv, Owning
    <3>7. buf' \in [Threads -> Buffers \cup {NoBuffer}] /\ lock' \in Threads \cup {NoThread}
      BY <3>2 DEF Inv, TypeOK
    <3> QED BY <3>1, <3>3, <3>6, <3>7
  <2> QED BY <1>2, <2>1, <2>2, <2>3
<1>5. WorkerInv'
  BY <1>1 DEF Inv, WorkerInv, Busy
<1>6. LifeInv'
  <2>1. \A x \in Threads : \/ pc'[x] = pc[x] \/ pc'[x] = "idle"
                           \/ pc[x] = "roundtrip" /\ pc'[x] = "destroy"
    BY <1>2, <1>3 DEF Return, Goto, Owning
  <2> QED BY <1>1, <2>1 DEF Inv, LifeInv, Busy, Destroying
<1>7. Ledger' /\ {ref', releases'} \subseteq [Buffers -> Nat] /\ wl' \in [Buffers -> BOOLEAN]
  BY <1>1, <1>4, DispatchLedger
<1> QED BY <1>1, <1>4, <1>5, <1>6, <1>7 DEF Inv, TypeOK, ListInv

\* A new swapchain finds nothing of an old one.
LEMMA CreateInv ==
    ASSUME Inv, NEW t \in Threads, CreateSwapchain(t)
    PROVE  Inv'
<1>1. /\ UNCHANGED <<ref, wl, waitSync, lag, fence, scanout, releases, shown, frameDue>>
      /\ UNCHANGED <<frameDone, held, pc, buf, taken, lock, wpc, wbuf, scanning, event>>
      /\ ~created /\ ~scanning /\ created' = TRUE /\ listed' = TRUE
      /\ attached' = {} /\ free' = <<>> /\ dirty' = <<>> /\ lost' = {} /\ drawWait' = NoBuffer
  BY DEF CreateSwapchain, syncVars, serverVars, appVars
<1>2. /\ attached = {} /\ dirty = <<>> /\ drawWait = NoBuffer
      /\ \A x \in Threads : pc[x] = "idle"
  BY <1>1 DEF Inv, LifeInv
<1>3. TypeOK' /\ ThreadInv'
  <2>1. {free', dirty', taken'} \subseteq Seq(Buffers)
    BY <1>1 DEF Inv, TypeOK
  <2>2. ThreadInv'
    BY <1>1 DEF Inv, ThreadInv
  <2> QED BY <1>1, <2>1, <2>2 DEF Inv, TypeOK
<1>4. WorkerInv' /\ LifeInv'
  BY <1>1, <1>2 DEF Inv, WorkerInv, LifeInv, Busy, Destroying
<1>5. ListInv'
  BY <1>1, Short DEF Inv, ListInv
<1>6. Ledger'
  <2> SUFFICES ASSUME NEW c \in Buffers PROVE Entry(c)'
    BY DEF Ledger
  <2>1. Entry(c) /\ SameWork(c)
    BY <1>1, <1>2, WorkKept DEF Inv, Ledger
  <2>2. c \notin Range(free) /\ c \notin lost
    BY <1>2, <2>1 DEF Entry, Places, One
  <2>3. SameCounts(c) /\ SamePlaces(c)
    BY <1>1, <1>2, <2>2, Short DEF SameCounts, SamePlaces, Clients
  <2> QED BY <2>1, <2>3, EntryKept
<1> QED BY <1>3, <1>4, <1>5, <1>6 DEF Inv

\* The worker no longer sees the surface.
LEMMA UnlistInv ==
    ASSUME Inv, NEW t \in Threads, DestroyUnlist(t)
    PROVE  Inv'
<1>1. /\ UNCHANGED <<created, attached, free, dirty, lost, ref, wl, waitSync, lag, fence,
                     scanout>>
      /\ UNCHANGED <<releases, shown, frameDue, frameDone, held, buf, taken, lock, wpc, wbuf>>
      /\ UNCHANGED <<scanning, drawWait, event>>
      /\ ~scanning /\ listed' = FALSE /\ pc[t] = "unlist" /\ Goto(t, "roundtrip")
  BY DEF DestroyUnlist, syncVars, serverVars, workerVars
<1>2. /\ pc' \in [Threads -> {"idle"} \cup Waiting \cup Owning]
      /\ \A x \in Threads : pc'[x] = IF x = t THEN "roundtrip" ELSE pc[x]
  BY <1>1 DEF Inv, TypeOK, Goto, Owning
<1>3. TypeOK'
  BY <1>1, <1>2 DEF Inv, TypeOK
<1>4. ThreadInv' /\ WorkerInv'
  BY <1>1, <1>2 DEF Inv, ThreadInv, WorkerInv, Busy, Owning
<1>5. LifeInv'
  BY <1>1, <1>2 DEF Inv, LifeInv, Busy, Destroying
<1>6. ListInv' /\ Ledger'
  BY <1>1, ClientsKept, LedgerKept DEF Inv, ListInv
<1> QED BY <1>3, <1>4, <1>5, <1>6 DEF Inv

\* The queue goes, with its reference on every buffer it owns.
LEMMA DestroyQueueInv ==
    ASSUME Inv, NEW t \in Threads, DestroyQueue(t)
    PROVE  Inv'
<1> DEFINE left(c) == IF c \in attached THEN AtLeast0(ref[c] - 1) ELSE ref[c]
           r == [c \in Buffers |-> left(c)]
<1>1. /\ UNCHANGED <<listed, waitSync, lag, fence, scanout, releases, shown, frameDue>>
      /\ UNCHANGED <<frameDone, held, taken, wpc, wbuf, scanning, drawWait, event>>
      /\ pc[t] = "destroy" /\ CountsBecome(r) /\ created' = FALSE
      /\ attached' = {} /\ free' = <<>> /\ dirty' = <<>> /\ lost' = {}
      /\ pc' = [pc EXCEPT ![t] = "idle"] /\ buf' = [buf EXCEPT ![t] = NoBuffer]
      /\ lock' = NoThread
  BY DEF DestroyQueue, syncVars, serverVars, workerVars, Return, Goto
<1>2. /\ held = {} /\ dirty = <<>> /\ drawWait = NoBuffer /\ ~Busy /\ ~listed
      /\ \A x \in Threads : x = t \/ pc[x] = "idle"
  BY <1>1 DEF Inv, LifeInv, Destroying
<1>3. taken = <<>> /\ \A c : ~Clients(c)
  BY <1>1, <1>2 DEF Inv, ThreadInv, Clients
<1>4. /\ pc' \in [Threads -> {"idle"} \cup Waiting \cup Owning]
      /\ buf' \in [Threads -> Buffers \cup {NoBuffer}]
      /\ \A x \in Threads : pc'[x] = "idle"
  BY <1>1, <1>2 DEF Inv, TypeOK
<1>5. \A c \in Buffers : left(c) \in Nat
  <2>1. \A c \in Buffers : ref[c] \in Nat
    BY DEF Inv, TypeOK
  <2> QED BY <2>1 DEF AtLeast0
<1>6. r \in [Buffers -> Nat] /\ \A c \in Buffers : r[c] = left(c)
  BY <1>5
<1> HIDE DEF r
<1>7. /\ ref' = r /\ wl' \in [Buffers -> BOOLEAN]
      /\ \A c \in Buffers : IF r[c] > 0 THEN wl'[c] = wl[c] ELSE ~wl'[c]
  BY <1>1, <1>6, CountsType DEF Inv
<1>8. TypeOK'
  <2>1. {free', dirty', taken'} \subseteq Seq(Buffers)
    BY <1>1 DEF Inv, TypeOK
  <2>2. {ref', scanout', releases'} \subseteq [Buffers -> Nat]
    BY <1>1, <1>6, <1>7 DEF Inv, TypeOK
  <2>3. /\ attached' \subseteq Buffers /\ lost' \subseteq Buffers
        /\ created' \in BOOLEAN /\ lock' \in Threads \cup {NoThread}
    BY <1>1
  <2> QED BY <1>1, <1>4, <1>7, <2>1, <2>2, <2>3 DEF Inv, TypeOK
<1>9. ThreadInv' /\ WorkerInv' /\ LifeInv'
  BY <1>1, <1>2, <1>3, <1>4 DEF Inv, ThreadInv, WorkerInv, LifeInv, Busy, Destroying, Owning
<1>10. ListInv'
  BY <1>1, Short DEF Inv, ListInv
<1>11. Ledger'
  <2> SUFFICES ASSUME NEW c \in Buffers PROVE Entry(c)'
    BY DEF Ledger
  <2>1. Entry(c)
    BY DEF Inv, Ledger
  <2>2. ref[c] \in Nat /\ scanout[c] \in Nat /\ releases[c] \in Nat
    BY DEF Inv, TypeOK
  <2>3. r[c] = scanout[c] + releases[c]
    BY <1>3, <1>6, <2>1, <2>2 DEF Entry, One, AtLeast0
  <2>4. InHand' = <<>> /\ ~Given' /\ ~Busy' /\ ~Given
    BY <1>1, <1>2 DEF InHand, Given, Busy
  <2>5. ~Clients(c)'
    BY <1>1, <1>2, <1>4 DEF Clients
  <2>6. Places(c)' = 0
    BY <1>1, <1>3, <2>4, <2>5, Short DEF Places, One
  <2>7. r[c] > 0 => wl'[c] = wl[c]
    BY <1>7
  <2>8. wl'[c] => r[c] > 0 /\ wl[c]
    BY <1>6, <1>7
  <2> QED BY <1>1, <1>7, <2>1, <2>2, <2>3, <2>4, <2>5, <2>6, <2>7, <2>8, Short DEF Entry, One
<1> QED BY <1>8, <1>9, <1>10, <1>11 DEF Inv

\* The steps of the worker that move it on with what it has, if anything.
WorkerMoves == WorkerNotified \/ WorkerFence \/ WorkerFenceError \/ WorkerLook \/ WorkerDrained

\* So do those.
LEMMA WorkerMovesInv ==
    ASSUME Inv, WorkerMoves
    PROVE  Inv'
<1>1. /\ UNCHANGED <<created, listed, attached, free, dirty, lost, ref, wl, waitSync, lag,
                     fence>>
      /\ UNCHANGED <<scanout, releases, shown, frameDue, frameDone>>
      /\ UNCHANGED <<held, pc, buf, taken, lock, drawWait>>
      /\ event' \in BOOLEAN
  BY DEF WorkerMoves, WorkerNotified, WorkerFence, WorkerFenceError, WorkerLook,
     WorkerDrained, queueVars, syncVars,
     serverVars, appVars, Inv, TypeOK
<1>2. \/ /\ wpc \in {"epoll", "look", "acquire"} /\ wpc' \in {"epoll", "look"}
         /\ wbuf' = wbuf /\ ~scanning'
      \/ /\ wpc = "look" /\ wpc' = "acquire" /\ wbuf' = wbuf
         /\ listed /\ drawWait = NoBuffer /\ scanning' = TRUE
      \/ /\ wpc = "epoll" /\ wpc' = "drawDone" /\ wbuf' = drawWait /\ drawWait \in Buffers
         /\ ~scanning'
  BY DEF WorkerMoves, WorkerNotified, WorkerFence, WorkerFenceError, WorkerLook,
     WorkerDrained, Inv, TypeOK,
     WorkerInv
<1>3. scanning' \in BOOLEAN
  BY DEF WorkerMoves, WorkerNotified, WorkerFence, WorkerFenceError, WorkerLook,
     WorkerDrained, Inv, TypeOK
<1>4. TypeOK'
  <2>1. wpc' \in WorkerPC /\ wbuf' \in Buffers \cup {NoBuffer}
    BY <1>2 DEF Inv, TypeOK, WorkerPC
  <2> QED BY <1>1, <1>3, <2>1 DEF Inv, TypeOK
<1>5. ThreadInv' /\ ListInv'
  BY <1>1 DEF Inv, ThreadInv, ListInv
<1>6. WorkerInv'
  BY <1>1, <1>2, SwapchainAssumption DEF Inv, WorkerInv, Busy
<1>7. LifeInv'
  BY <1>1, <1>2, SwapchainAssumption DEF Inv, LifeInv, Busy
<1>8. Ledger'
  <2>1. /\ InHand' = InHand /\ ~Given /\ ~Given' /\ ~Busy
        /\ Busy' => wbuf' = drawWait /\ InHand = <<drawWait>>
    BY <1>1, <1>2, SwapchainAssumption DEF InHand, Given, Busy
  <2>2. ASSUME NEW c \in Buffers PROVE Entry(c)'
    <3>1. SameCounts(c) /\ SamePlaces(c) /\ SameWork(c)
      BY <1>1, <2>1, Short DEF SameCounts, SamePlaces, SameWork, Clients
    <3> QED BY <3>1, EntryKept DEF Inv, Ledger
  <2> QED BY <2>2 DEF Ledger
<1> QED BY <1>4, <1>5, <1>6, <1>7, <1>8 DEF Inv

\* The worker takes the next frame from the queue: it has it in hand, to wait
\* for its fence or to commit it.
LEMMA AcquireInv ==
    ASSUME Inv, WorkerAcquire
    PROVE  Inv'
<1> PICK b : b = Head(dirty)
  OBVIOUS
<1>1. /\ UNCHANGED <<created, listed, attached, lost, free, ref, wl, waitSync, lag, fence>>
      /\ UNCHANGED <<scanout, releases, shown, frameDue, frameDone>>
      /\ UNCHANGED <<held, pc, buf, taken, lock, event>>
      /\ wpc = "acquire" /\ dirty # <<>> /\ dirty' = Tail(dirty)
      /\ \/ drawWait' = b /\ scanning' = FALSE /\ wpc' = "epoll" /\ wbuf' = wbuf
         \/ wbuf' = b /\ wpc' = "drawDone" /\ UNCHANGED <<drawWait, scanning>>
  BY DEF WorkerAcquire, syncVars, serverVars, appVars
<1>2. /\ b \in Buffers /\ dirty' \in Seq(Buffers) /\ IsInjective(dirty')
      /\ Range(dirty) = Range(dirty') \cup {b} /\ b \notin Range(dirty')
  <2>1. dirty \in Seq(Buffers) /\ IsInjective(dirty)
    BY DEF Inv, TypeOK, ListInv
  <2> QED BY <1>1, <2>1, Taken
<1>3. /\ listed /\ created /\ scanning /\ drawWait = NoBuffer
      /\ \A x \in Threads : pc[x] \notin Destroying
  BY <1>1 DEF Inv, WorkerInv, LifeInv
<1>4. InHand = <<>> /\ InHand' = <<b>> /\ ~Given /\ ~Given' /\ ~Busy
  BY <1>1, <1>2, <1>3, SwapchainAssumption DEF InHand, Given, Busy
<1>5. b \in attached /\ wl[b] /\ Entry(b)
  BY <1>2 DEF Inv, Ledger, Entry, Places, One
<1>6. TypeOK'
  <2>1. {free', dirty', taken'} \subseteq Seq(Buffers)
    BY <1>1, <1>2 DEF Inv, TypeOK
  <2>2. /\ wpc' \in WorkerPC /\ scanning' \in BOOLEAN
        /\ {wbuf', drawWait'} \subseteq Buffers \cup {NoBuffer}
    BY <1>1, <1>2 DEF Inv, TypeOK, WorkerPC
  <2> QED BY <1>1, <2>1, <2>2 DEF Inv, TypeOK
<1>7. ThreadInv' /\ ListInv'
  BY <1>1, <1>2 DEF Inv, ThreadInv, ListInv
<1>8. WorkerInv' /\ LifeInv'
  BY <1>1, <1>2, <1>3 DEF Inv, WorkerInv, LifeInv, Busy
<1>9. ASSUME NEW c \in Buffers PROVE Entry(c)'
  <2>1. Entry(c)
    BY DEF Inv, Ledger
  <2>2. CASE c # b
    <3>1. SameCounts(c) /\ SamePlaces(c)
      BY <1>1, <1>2, <2>2 DEF SameCounts, SamePlaces, Clients
    <3>2. Range(InHand) \cap {c} = Range(InHand)' \cap {c}
      BY <1>4, <2>2, Short
    <3>3. ~(Busy /\ wbuf = c)'
      BY <1>1, <1>4, <2>2 DEF Busy
    <3>4. SameWork(c)
      BY <1>4, <3>2, <3>3 DEF SameWork
    <3> QED BY <2>1, <3>1, <3>4, EntryKept
  <2>3. CASE c = b
    <3>1. Places(b)' = Places(b)
      BY <1>1, <1>2, <1>4, Short DEF Places, One, Clients
    <3>2. Clients(b)' <=> Clients(b)
      BY <1>1 DEF Clients
    <3> QED BY <1>1, <1>4, <1>5, <2>3, <3>1, <3>2 DEF Entry, One
  <2> QED BY <2>2, <2>3
<1> QED BY <1>6, <1>7, <1>8, <1>9 DEF Inv, Ledger

\* The commit: the compositor has one more use of the buffer, and a reference
\* on it.
LEMMA DrawDoneInv ==
    ASSUME Inv, WorkerDrawDone
    PROVE  Inv'
<1> PICK b : b = wbuf
  OBVIOUS
<1>1. /\ UNCHANGED <<created, listed, attached, free, dirty, lost, wl, lag, fence, releases>>
      /\ UNCHANGED <<frameDone, held, pc, buf, taken, lock, wbuf, scanning, drawWait, event>>
      /\ wpc = "drawDone" /\ wpc' = "release" /\ shown' = b /\ frameDue' = TRUE
      /\ waitSync' = [waitSync EXCEPT ![b] = "none"]
      /\ ref' = [ref EXCEPT ![b] = @ + 1]
      /\ scanout' = [scanout EXCEPT ![b] = @ + 1]
  BY DEF WorkerDrawDone, queueVars, appVars
<1>2. b \in Buffers /\ Busy /\ Busy' /\ created /\ \A x \in Threads : pc[x] \notin Destroying
  BY <1>1 DEF Inv, WorkerInv, LifeInv, Busy
<1>3. InHand = <<b>> /\ InHand' = <<>> /\ ~Given /\ Given'
  BY <1>1, <1>2 DEF InHand, Given
<1>4. /\ \A c \in Buffers : ref[c] \in Nat /\ scanout[c] \in Nat
      /\ \A c \in Buffers : /\ ref'[c] = IF c = b THEN ref[c] + 1 ELSE ref[c]
                            /\ scanout'[c] = IF c = b THEN scanout[c] + 1 ELSE scanout[c]
      /\ ref' \in [Buffers -> Nat] /\ scanout' \in [Buffers -> Nat]
  <2>1. ref \in [Buffers -> Nat] /\ scanout \in [Buffers -> Nat]
    BY DEF Inv, TypeOK
  <2>2. ref[b] + 1 \in Nat /\ scanout[b] + 1 \in Nat
    BY <1>2, <2>1
  <2> QED BY <1>1, <1>2, <2>1, <2>2, Updated
<1>5. b \in attached /\ wl[b] /\ Entry(b)
  BY <1>2 DEF Inv, Ledger, Entry
<1>6. ~Clients(b) /\ b \notin Range(dirty) /\ Places(b)' = Places(b)
  BY <1>1, <1>3, <1>5, Short DEF Entry, Places, One, Clients
<1>7. TypeOK'
  <2>1. {free', dirty', taken'} \subseteq Seq(Buffers)
    BY <1>1 DEF Inv, TypeOK
  <2>2. waitSync' \in [Buffers -> {"none", "pending", "signalled"}]
    BY <1>1 DEF Inv, TypeOK
  <2>3. shown' \in Buffers \cup {NoBuffer} /\ wpc' \in WorkerPC
    BY <1>1, <1>2 DEF WorkerPC
  <2>4. /\ fence' \in [Buffers -> Nat \cup {NoFence}] /\ releases' \in [Buffers -> Nat]
        /\ lost' \subseteq Buffers
    BY <1>1 DEF Inv, TypeOK
  <2>5. /\ {created', listed', frameDue', frameDone', scanning', event'} \subseteq BOOLEAN
        /\ attached' \subseteq Buffers /\ held' \subseteq Buffers
        /\ wl' \in [Buffers -> BOOLEAN] /\ lag' \in [Buffers -> Int]
        /\ {wbuf', drawWait'} \subseteq Buffers \cup {NoBuffer}
        /\ lock' \in Threads \cup {NoThread}
    BY <1>1 DEF Inv, TypeOK
  <2>6. /\ pc' \in [Threads -> {"idle"} \cup Waiting \cup Owning]
        /\ buf' \in [Threads -> Buffers \cup {NoBuffer}]
    BY <1>1 DEF Inv, TypeOK
  <2> QED BY <1>4, <2>1, <2>2, <2>3, <2>4, <2>5, <2>6 DEF TypeOK
<1>8. ThreadInv' /\ ListInv'
  BY <1>1 DEF Inv, ThreadInv, ListInv
<1>9. WorkerInv' /\ LifeInv'
  BY <1>1, <1>2 DEF Inv, WorkerInv, LifeInv, Busy
<1>10. ASSUME NEW c \in Buffers PROVE Entry(c)'
  <2>1. Entry(c) /\ (Clients(c)' <=> Clients(c))
    BY <1>1 DEF Inv, Ledger, Clients
  <2>2. CASE c # b
    <3>1. SameCounts(c) /\ SamePlaces(c)
      BY <1>1, <1>4, <2>1, <2>2 DEF SameCounts, SamePlaces
    <3>2. SameWork(c)
      BY <1>1, <1>3, <2>2, Short DEF SameWork
    <3> QED BY <2>1, <3>1, <3>2, EntryKept
  <2>3. CASE c = b
    <3>1. /\ ref'[b] = ref[b] + 1 /\ scanout'[b] = scanout[b] + 1
          /\ lag[b] = scanout[b] /\ ref[b] \in Nat /\ scanout[b] \in Nat /\ releases[b] \in Nat
      BY <1>2, <1>3, <1>4, <1>5 DEF Entry, One, Inv, TypeOK
    <3>2. b \notin Range(dirty)' \cup Range(InHand)'
      BY <1>1, <1>3, <1>6, Short
    <3> QED BY <1>1, <1>3, <1>5, <1>6, <2>1, <2>3, <3>1, <3>2 DEF Entry, One
  <2> QED BY <2>2, <2>3
<1> QED BY <1>7, <1>8, <1>9, <1>10 DEF Inv, Ledger

\* The committed image is free again, and its timestamp counts the commit.
LEMMA ReleaseInv ==
    ASSUME Inv, WorkerRelease
    PROVE  Inv'
<1> PICK b : b = wbuf
  OBVIOUS
<1>1. /\ UNCHANGED <<created, listed, attached, dirty, lost, ref, wl, waitSync, fence, scanout>>
      /\ UNCHANGED <<releases, shown, frameDue, frameDone>>
      /\ UNCHANGED <<held, pc, buf, taken, lock, wbuf, scanning, drawWait, event>>
      /\ wpc = "release" /\ wpc' = "signal" /\ lag' = [lag EXCEPT ![b] = @ + 1]
      /\ QueueRelease(b)
  BY DEF WorkerRelease, serverVars, appVars
<1>2. b \in Buffers /\ Busy /\ Busy' /\ created /\ \A x \in Threads : pc[x] \notin Destroying
  BY <1>1 DEF Inv, WorkerInv, LifeInv, Busy
<1>3. InHand = <<>> /\ InHand' = <<>> /\ Given /\ ~Given'
  BY <1>1 DEF InHand, Given
<1>4. b \in attached /\ wl[b] /\ Entry(b)
  BY <1>2 DEF Inv, Ledger, Entry
<1>5. ~Clients(b) /\ b \notin Range(dirty) /\ b \notin Range(free) /\ b \notin Range(taken)
  BY <1>3, <1>4 DEF Entry, Places, One
<1>6. /\ free' = Append(free, b) /\ free' \in Seq(Buffers) /\ IsInjective(free')
      /\ Range(free') = Range(free) \cup {b}
  <2>1. free \in Seq(Buffers) /\ IsInjective(free)
    BY DEF Inv, TypeOK, ListInv
  <2> QED BY <1>1, <1>2, <1>4, <1>5, <2>1, Appended DEF QueueRelease
<1>7. /\ \A c \in Buffers : lag[c] \in Int /\ lag'[c] = IF c = b THEN lag[c] + 1 ELSE lag[c]
      /\ lag' \in [Buffers -> Int]
  <2>1. lag \in [Buffers -> Int]
    BY DEF Inv, TypeOK
  <2>2. lag[b] + 1 \in Int
    BY <1>2, <2>1
  <2> QED BY <1>1, <1>2, <2>1, <2>2, Updated
<1>8. TypeOK'
  <2>1. {free', dirty', taken'} \subseteq Seq(Buffers)
    BY <1>1, <1>6 DEF Inv, TypeOK
  <2>2. wpc' \in WorkerPC
    BY <1>1 DEF WorkerPC
  <2> QED BY <1>1, <1>7, <2>1, <2>2 DEF Inv, TypeOK
<1>9. ThreadInv' /\ ListInv'
  BY <1>1, <1>6 DEF Inv, ThreadInv, ListInv
<1>10. WorkerInv' /\ LifeInv'
  BY <1>1, <1>2 DEF Inv, WorkerInv, LifeInv, Busy
<1>11. ASSUME NEW c \in Buffers PROVE Entry(c)'
  <2>1. Entry(c) /\ (Clients(c)' <=> Clients(c))
    BY <1>1 DEF Inv, Ledger, Clients
  <2>2. CASE c # b
    <3>1. SameCounts(c) /\ SamePlaces(c)
      BY <1>1, <1>6, <1>7, <2>1, <2>2 DEF SameCounts, SamePlaces
    <3>2. SameWork(c)
      BY <1>1, <1>3, <2>2, Short DEF SameWork
    <3> QED BY <2>1, <3>1, <3>2, EntryKept
  <2>3. CASE c = b
    <3>1. /\ lag'[b] = scanout[b] /\ scanout[b] \in Nat
      BY <1>2, <1>3, <1>4, <1>7 DEF Entry, One, Inv, TypeOK
    <3>2. b \notin Range(dirty)' \cup Range(InHand)'
      BY <1>1, <1>3, <1>5, Short
    <3>3. b \notin lost' /\ b \notin Range(taken)'
      BY <1>1, <1>3, <1>4, <2>1, <2>3 DEF Entry, Places, One
    <3>4. Places(b)' = 1
      BY <1>1, <1>3, <1>5, <1>6, <2>1, <2>3, <3>3, Short DEF Places, One
    <3> QED BY <1>1, <1>3, <1>4, <1>5, <2>1, <2>3, <3>1, <3>2, <3>4 DEF Entry, One
  <2> QED BY <2>2, <2>3
<1> QED BY <1>8, <1>9, <1>10, <1>11 DEF Inv, Ledger

\* The worker wakes a sleeper, who has the object lock, and goes on.
LEMMA SignalInv ==
    ASSUME Inv, WorkerSignal
    PROVE  Inv'
<1>1. /\ UNCHANGED <<created, listed, attached, free, dirty, lost, ref, wl, waitSync, lag,
                     fence>>
      /\ UNCHANGED <<scanout, releases, shown, frameDue, frameDone>>
      /\ UNCHANGED <<held, buf, taken, lock, scanning, event>>
      /\ wpc = "signal" /\ wbuf' = NoBuffer
      /\ wpc' = IF scanning THEN "acquire" ELSE "look"
      /\ drawWait' = IF scanning THEN drawWait ELSE NoBuffer
      /\ pc' = pc \/ \E t \in Threads : pc[t] = "asleep" /\ Goto(t, "deqTest")
  BY DEF WorkerSignal, queueVars, syncVars, serverVars
<1>2. /\ Busy /\ ~Busy' /\ created /\ \A x \in Threads : pc[x] \notin Destroying
      /\ scanning => drawWait = NoBuffer /\ listed
  BY <1>1 DEF Inv, WorkerInv, LifeInv, Busy
<1>3. InHand = <<>> /\ InHand' = <<>> /\ ~Given /\ ~Given'
  BY <1>1, <1>2 DEF InHand, Given
<1> DEFINE Woken == /\ pc' \in [Threads -> {"idle"} \cup Waiting \cup Owning]
                    /\ \A x \in Threads : \/ pc'[x] = pc[x]
                                          \/ pc[x] = "asleep" /\ pc'[x] = "deqTest"
<1>4. Woken
  <2>1. CASE pc' = pc
    BY <2>1 DEF Inv, TypeOK
  <2>2. ASSUME NEW t \in Threads, pc[t] = "asleep", Goto(t, "deqTest")
        PROVE  Woken
    BY <2>2 DEF Inv, TypeOK, Goto, Owning
  <2> QED BY <1>1, <2>1, <2>2
<1>5. \A c : Clients(c)' <=> Clients(c)
  BY <1>1, <1>4 DEF Clients
<1>6. TypeOK'
  <2>1. wpc' \in WorkerPC /\ {wbuf', drawWait'} \subseteq Buffers \cup {NoBuffer}
    BY <1>1 DEF Inv, TypeOK, WorkerPC
  <2> QED BY <1>1, <1>4, <2>1 DEF Inv, TypeOK
<1>7. ThreadInv' /\ ListInv'
  <2>1. ThreadInv'
    BY <1>1, <1>4 DEF Inv, ThreadInv, Owning
  <2> QED BY <1>1, <2>1 DEF Inv, ListInv
<1>8. WorkerInv' /\ LifeInv'
  BY <1>1, <1>2, <1>4 DEF Inv, WorkerInv, LifeInv, Busy, Destroying
<1>9. ASSUME NEW c \in Buffers PROVE Entry(c)'
  <2>1. SameCounts(c) /\ SamePlaces(c) /\ SameWork(c)
    BY <1>1, <1>2, <1>3, <1>5 DEF SameCounts, SamePlaces, SameWork
  <2> QED BY <2>1, EntryKept DEF Inv, Ledger
<1> QED BY <1>6, <1>7, <1>8, <1>9 DEF Inv, Ledger

\* The GPU finishes a drawing, the compositor owes one frame callback less.
LEMMA OutsideInv ==
    ASSUME Inv, ServerFrame \/ \E b \in Buffers : FenceSignals(b)
    PROVE  Inv'
<1>1. /\ UNCHANGED <<created, listed, attached, free, dirty, lost, ref, wl, lag, fence>>
      /\ UNCHANGED <<scanout, releases, shown, held, pc, buf, taken, lock>>
      /\ UNCHANGED <<wpc, wbuf, scanning, drawWait, event>>
      /\ {frameDue', frameDone'} \subseteq BOOLEAN
      /\ waitSync' \in [Buffers -> {"none", "pending", "signalled"}]
  BY DEF ServerFrame, FenceSignals, queueVars, syncVars, serverVars, appVars, workerVars, Inv,
     TypeOK
<1>2. TypeOK'
  BY <1>1 DEF Inv, TypeOK
<1>3. ThreadInv' /\ WorkerInv' /\ LifeInv' /\ ListInv'
  BY <1>1 DEF Inv, ThreadInv, WorkerInv, LifeInv, ListInv, Busy
<1>4. Ledger'
  <2>1. \A c \in Buffers : Clients(c)' <=> Clients(c)
    BY <1>1 DEF Clients
  <2> QED BY <1>1, <2>1, LedgerKept DEF Inv
<1> QED BY <1>2, <1>3, <1>4 DEF Inv

\* The compositor is done with a commit: its use becomes an event on its way.
LEMMA ServerReleaseInv ==
    ASSUME Inv, NEW b \in Buffers, ServerRelease(b)
    PROVE  Inv'
<1>1. /\ UNCHANGED <<created, listed, attached, free, dirty, lost, ref, wl, waitSync>>
      /\ UNCHANGED <<shown, frameDue, frameDone, held, pc, buf, taken, lock>>
      /\ UNCHANGED <<wpc, wbuf, scanning, drawWait, event>>
      /\ scanout[b] > 0
      /\ scanout' = [scanout EXCEPT ![b] = @ - 1]
      /\ releases' = [releases EXCEPT ![b] = @ + 1]
      /\ lag' = [lag EXCEPT ![b] = @ - 1]
      /\ fence' = [fence EXCEPT ![b] = IF fence[b] > 0 THEN fence[b] - 1 ELSE fence[b]]
  BY DEF ServerRelease, queueVars, appVars, workerVars
<1>2. \A c \in Buffers : /\ scanout[c] \in Nat /\ releases[c] \in Nat
                         /\ fence[c] \in Nat \cup {NoFence}
                         /\ lag[c] \in Int /\ ref[c] \in Nat
  BY DEF Inv, TypeOK
<1>3. /\ \A c \in Buffers : c # b =>
            /\ scanout'[c] = scanout[c] /\ releases'[c] = releases[c]
            /\ lag'[c] = lag[c] /\ fence'[c] = fence[c]
      /\ scanout'[b] = scanout[b] - 1 /\ releases'[b] = releases[b] + 1
      /\ lag'[b] = lag[b] - 1 /\ fence'[b] = IF fence[b] > 0 THEN fence[b] - 1 ELSE fence[b]
      /\ scanout' \in [Buffers -> Nat] /\ releases' \in [Buffers -> Nat]
      /\ fence' \in [Buffers -> Nat \cup {NoFence}] /\ lag' \in [Buffers -> Int]
  <2>1. /\ (IF fence[b] > 0 THEN fence[b] - 1 ELSE fence[b]) \in Nat \cup {NoFence}
        /\ scanout[b] - 1 \in Nat /\ releases[b] + 1 \in Nat /\ lag[b] - 1 \in Int
    BY <1>1, <1>2 DEF NoFence
  <2>2. /\ scanout \in [Buffers -> Nat] /\ releases \in [Buffers -> Nat]
        /\ fence \in [Buffers -> Nat \cup {NoFence}] /\ lag \in [Buffers -> Int]
    BY DEF Inv, TypeOK
  <2> QED BY <1>1, <2>1, <2>2, Updated
<1>4. TypeOK'
  <2>1. {free', dirty', taken'} \subseteq Seq(Buffers) /\ ref' \in [Buffers -> Nat]
    BY <1>1 DEF Inv, TypeOK
  <2> QED BY <1>1, <1>3, <2>1 DEF Inv, TypeOK
<1>5. ThreadInv' /\ WorkerInv' /\ LifeInv' /\ ListInv'
  BY <1>1 DEF Inv, ThreadInv, WorkerInv, LifeInv, ListInv, Busy
<1>6. ASSUME NEW c \in Buffers PROVE Entry(c)'
  <2>1. Entry(c) /\ SameWork(c) /\ SamePlaces(c)
    BY <1>1, WorkKept DEF Inv, Ledger, SamePlaces, Clients
  <2>2. CASE c # b
    <3>1. SameCounts(c)
      BY <1>1, <1>3, <2>2 DEF SameCounts
    <3> QED BY <2>1, <3>1, EntryKept
  <2>3. CASE c = b
    <3>1. Places(c)' = Places(c) /\ (Clients(c)' <=> Clients(c))
      BY <2>1 DEF Places, One, SamePlaces, SameWork
    <3>2. wl[b]
      BY <1>1, <2>1, <2>3 DEF Entry
    <3>3. Clients(b) => fence'[b] >= scanout'[b] \/ fence'[b] = NoFence
      BY <1>1, <1>2, <1>3, <2>1, <2>3 DEF Entry, NoFence
    <3>4. /\ InHand' = InHand /\ (Given' <=> Given) /\ (Busy' <=> Busy)
      BY <1>1 DEF InHand, Given, Busy
    <3> QED BY <1>1, <1>2, <1>3, <2>1, <2>3, <3>1, <3>2, <3>3, <3>4 DEF Entry, One
  <2> QED BY <2>2, <2>3
<1> QED BY <1>4, <1>5, <1>6 DEF Inv, Ledger

-----------------------------------------------------------------------------
(* Safety                                                                  *)

\* Inv is inductive.
LEMMA InvStep == ASSUME Careful, Inv, [Next]_vars PROVE Inv'
<1>1. CASE Worker
  BY <1>1, WorkerMovesInv, AcquireInv, DrawDoneInv, ReleaseInv, SignalInv DEF Worker,
     WorkerMoves
<1>2. CASE Environment
  BY <1>2, OutsideInv, DispatchInv, ServerReleaseInv DEF Environment
<1>3. ASSUME NEW t \in Threads, Lifecycle(t) PROVE Inv'
  BY <1>3, Careful, CreateInv, MovesInv, TakeInv, GiveInv, UnlistInv, DispatchInv,
     DestroyQueueInv
     DEF Lifecycle, Moves
<1>4. ASSUME NEW t \in Threads, Dequeue(t) PROVE Inv'
  BY <1>4, Careful, MovesInv, TakeInv, DequeueInv DEF Dequeue, Moves
<1>5. ASSUME NEW t \in Threads, Enqueue(t) PROVE Inv'
  BY <1>5, Careful, EnqueueCallInv, EnqueueQueueInv, MovesInv, DispatchInv DEF Enqueue, Moves
<1>6. CASE UNCHANGED vars
  <2>1. /\ UNCHANGED <<created, listed, attached, free, dirty, lost, ref, wl, waitSync, lag,
                       fence>>
        /\ UNCHANGED <<scanout, releases, shown, frameDue, frameDone>>
        /\ UNCHANGED <<held, pc, buf, taken, lock, wpc, wbuf, scanning, drawWait, event>>
    BY <1>6 DEF vars, queueVars, syncVars, serverVars, appVars, workerVars
  <2>2. TypeOK'
    BY <2>1 DEF Inv, TypeOK
  <2>3. ThreadInv' /\ WorkerInv' /\ LifeInv' /\ ListInv'
    BY <2>1 DEF Inv, ThreadInv, WorkerInv, LifeInv, ListInv, Busy
  <2>4. \A c \in Buffers : Clients(c)' <=> Clients(c)
    BY <2>1 DEF Clients
  <2>5. Ledger'
    BY <2>1, <2>4, LedgerKept DEF Inv
  <2> QED BY <2>2, <2>3, <2>5 DEF Inv
<1> QED BY <1>1, <1>2, <1>3, <1>4, <1>5, <1>6 DEF Next

\* Every variable has the type its C declaration gives it (tpl_wayland_vk_
\* wsi.c, the structures at its top): no reference count goes below zero.
THEOREM TypeCorrect == ASSUME Careful PROVE Spec => []TypeOK
<1>1. Inv /\ [Next]_vars => Inv'
  BY Careful, InvStep
<1>2. Inv => TypeOK
  BY DEF Inv
<1> QED
  BY <1>1, <1>2, InvInit, PTL DEF Spec

\* No reference on a tbm_surface is lost and none is dropped twice, however the
\* application, the worker and the compositor interleave (tpl_wayland_vk_wsi.c,
\* dequeue 635, enqueue 496, commit 444, release callback 1143).
THEOREM ExactReferences == ASSUME Careful PROVE Spec => []RefsExact
<1>1. Inv /\ [Next]_vars => Inv'
  BY Careful, InvStep
<1>2. Inv => RefsExact
  BY DEF Inv, Ledger, Entry, RefsExact
<1> QED
  BY <1>1, <1>2, InvInit, PTL DEF Spec

\* The fence that comes with an image is late enough: it covers every commit the
\* compositor has not released (sync_timestamp and the sw_sync timeline).  Where
\* the fence could not be created (646-653) the image comes without one and
\* nothing is covered: the theorem says that this is the only way.
THEOREM FencesCover == ASSUME Careful PROVE Spec => []FenceCovers
<1>1. Inv /\ [Next]_vars => Inv'
  BY Careful, InvStep
<1>2. Inv => FenceCovers
  BY DEF Inv, Ledger, Entry, FenceCovers
<1> QED
  BY <1>1, <1>2, InvInit, PTL DEF Spec

\* No image of the swapchain is in two places, or twice in one, and each is in one:
\* those dequeue could not make a wl_buffer for (669) are accounted for one by one.
THEOREM EveryImageOnce == ASSUME Careful PROVE Spec => []EachImageOnce
<1>1. Inv /\ [Next]_vars => Inv'
  BY Careful, InvStep
<1>2. ASSUME Inv PROVE EachImageOnce
  <2>1. ASSUME NEW b \in attached PROVE Places(b) = 1
    <3>1. b \in Buffers
      BY <1>2 DEF Inv, TypeOK
    <3> QED BY <1>2, <2>1, <3>1 DEF Inv, Ledger, Entry
  <2>2. ASSUME NEW s \in {free, dirty, taken} PROVE Cardinality(Range(s)) = Len(s)
    <3>1. s \in Seq(Buffers) /\ IsInjective(s)
      BY <1>2 DEF Inv, TypeOK, ListInv
    <3> QED BY <3>1, DistinctLength
  <2> QED BY <2>1, <2>2 DEF EachImageOnce
<1> QED
  BY <1>1, <1>2, InvInit, PTL DEF Spec

\* The worker never presents a buffer that destroy_swapchain has taken away,
\* provided the application destroys an idle swapchain only.
THEOREM WorkerSafe == ASSUME Careful PROVE Spec => []WorkerTouchesLive
<1>1. Inv /\ [Next]_vars => Inv'
  BY Careful, InvStep
<1>2. Inv => WorkerTouchesLive
  BY DEF Inv, WorkerInv, LifeInv, Ledger, Entry, WorkerTouchesLive, Busy
<1> QED
  BY <1>1, <1>2, InvInit, PTL DEF Spec

-----------------------------------------------------------------------------
(* Commits                                                                 *)

\* A frame the worker is about to commit has been drawn: its fence is not
\* forgotten, and only the application could renew it.
LEMMA WaitedStep ==
    ASSUME Inv, Waited, "epoll" \notin Faults, [Next]_vars
    PROVE  Waited'
<1>1. ASSUME wpc' = "drawDone", wpc # "drawDone" PROVE waitSync'[wbuf'] # "pending"
  <2>1. wpc' # wpc
    BY <1>1
  <2>2. WorkerFence \/ WorkerAcquire
    BY <1>1, <2>1 DEF Next, Worker, Environment, Lifecycle, Dequeue, Enqueue, vars, workerVars,
       WorkerNotified, WorkerFenceError, WorkerLook, WorkerDrained, WorkerDrawDone,
       WorkerRelease, WorkerSignal, FenceSignals, ServerRelease, ServerFrame,
       DispatchElsewhere, CreateSwapchain,
       GetCall, GetTake, GetTaken, GetGive, DestroyCall, DestroyUnlist, DestroyRoundtrip,
       DestroyQueue, DequeueCall, DequeueLock, DequeueTake, DequeueFail, DequeueSleep,
       DequeueTimeout, EnqueueCall, EnqueueQueue, EnqueueNotify, EnqueueDispatch
  <2>3. CASE WorkerFence
    BY <2>3 DEF WorkerFence, syncVars
  <2>4. CASE WorkerAcquire
    BY <1>1, <2>4 DEF WorkerAcquire, syncVars
  <2> QED BY <2>2, <2>3, <2>4
<1>2. ASSUME wpc = "drawDone", wpc' = "drawDone" PROVE waitSync'[wbuf'] # "pending"
  <2>1. /\ waitSync[wbuf] # "pending" /\ wbuf \in Buffers
        /\ waitSync \in [Buffers -> {"none", "pending", "signalled"}]
        /\ ~Clients(wbuf)
    <3>1. wbuf \in Buffers /\ InHand = <<wbuf>>
      BY <1>2 DEF Inv, WorkerInv, Busy, InHand
    <3>2. ~Clients(wbuf)
      BY <3>1, Short DEF Inv, Ledger, Entry, Places, One
    <3> QED BY <1>2, <3>1, <3>2 DEF Waited, Inv, TypeOK
  <2>2. wbuf' = wbuf
    BY <1>2 DEF Next, Worker, Environment, Lifecycle, Dequeue, Enqueue, vars, workerVars,
       WorkerNotified, WorkerFence, WorkerFenceError, WorkerLook, WorkerAcquire,
       WorkerDrained, WorkerDrawDone,
       WorkerRelease, WorkerSignal, FenceSignals, ServerRelease, ServerFrame, DispatchElsewhere,
       CreateSwapchain, GetCall, GetTake, GetTaken, GetGive, DestroyCall, DestroyUnlist,
       DestroyRoundtrip, DestroyQueue, DequeueCall, DequeueLock, DequeueTake, DequeueFail,
       DequeueSleep, DequeueTimeout, EnqueueCall, EnqueueQueue, EnqueueNotify, EnqueueDispatch
  <2>3. \/ waitSync' = waitSync
        \/ \E t \in Threads : EnqueueQueue(t)
        \/ \E b \in Buffers : FenceSignals(b)
    BY <1>2 DEF Next, Worker, Environment, Lifecycle, Dequeue, Enqueue, vars, syncVars,
       WorkerNotified, WorkerFence, WorkerFenceError, WorkerLook, WorkerAcquire,
       WorkerDrained, WorkerDrawDone,
       WorkerRelease, WorkerSignal, ServerRelease, ServerFrame, DispatchElsewhere,
       CreateSwapchain, GetCall, GetTake, GetTaken, GetGive, DestroyCall, DestroyUnlist,
       DestroyRoundtrip, DestroyQueue, DequeueCall, DequeueLock, DequeueTake, DequeueFail,
       DequeueSleep, DequeueTimeout, EnqueueCall, EnqueueNotify, EnqueueDispatch
  <2>4. ASSUME NEW t \in Threads, EnqueueQueue(t) PROVE waitSync'[wbuf] = waitSync[wbuf]
    <3>1. pc[t] = "enqLock" /\ \E s : waitSync' = [waitSync EXCEPT ![buf[t]] = s]
      BY <2>4 DEF EnqueueQueue
    <3>2. buf[t] # wbuf
      BY <2>1, <3>1 DEF Clients
    <3> QED BY <2>1, <3>1, <3>2
  <2>5. ASSUME NEW b \in Buffers, FenceSignals(b) PROVE waitSync'[wbuf] # "pending"
    BY <2>1, <2>5 DEF FenceSignals
  <2> QED BY <2>1, <2>2, <2>3, <2>4, <2>5
<1> QED BY <1>1, <1>2 DEF Waited

\* Only the commit gives the compositor a buffer.
LEMMA CommitStep ==
    ASSUME Inv, Waited, "epoll" \notin Faults, [Next]_vars,
           NEW b \in Buffers, scanout'[b] > scanout[b]
    PROVE  waitSync[b] # "pending"
<1>1. scanout \in [Buffers -> Nat]
  BY DEF Inv, TypeOK
<1>2. scanout' # scanout /\ ~(\E c \in Buffers : ServerRelease(c))
  <2>1. scanout[b] \in Nat
    BY <1>1
  <2>2. ASSUME NEW c \in Buffers, ServerRelease(c) PROVE FALSE
    <3>1. scanout[c] \in Nat /\ scanout' = [scanout EXCEPT ![c] = @ - 1]
      BY <1>1, <2>2 DEF ServerRelease
    <3>2. scanout'[b] = scanout[b] \/ scanout'[b] = scanout[b] - 1
      BY <1>1, <3>1
    <3> QED BY <2>1, <3>2
  <2> QED BY <2>1, <2>2
<1>3. WorkerDrawDone
  BY <1>2 DEF Next, Worker, Environment, Lifecycle, Dequeue, Enqueue, vars, serverVars,
     Dispatch, WorkerNotified, WorkerFence, WorkerFenceError, WorkerLook, WorkerAcquire,
     WorkerDrained,
     WorkerRelease, WorkerSignal, FenceSignals, ServerFrame, DispatchElsewhere,
     CreateSwapchain, GetCall, GetTake, GetTaken, GetGive, DestroyCall, DestroyUnlist,
     DestroyRoundtrip, DestroyQueue, DequeueCall, DequeueLock, DequeueTake, DequeueFail,
     DequeueSleep, DequeueTimeout, EnqueueCall, EnqueueQueue, EnqueueNotify, EnqueueDispatch
<1>4. b = wbuf
  BY <1>1, <1>3 DEF WorkerDrawDone
<1> QED BY <1>3, <1>4 DEF Waited, WorkerDrawDone

\* A frame is committed only when its drawing is over, if epoll takes every
\* fence.
THEOREM CommitsDrawn == ASSUME Careful, "epoll" \notin Faults PROVE Spec => CommitsFinished
<1>1. Init => Inv /\ Waited
  BY InvInit DEF Init, Waited
<1>2. Inv /\ Waited /\ [Next]_vars => Inv' /\ Waited'
  BY Careful, InvStep, WaitedStep
<1>3. Inv /\ Waited /\ [Next]_vars
        => [\A b \in Buffers : scanout'[b] > scanout[b] => waitSync[b] # "pending"]_vars
  BY CommitStep
<1> QED
  BY <1>1, <1>2, <1>3, PTL DEF Spec, CommitsFinished

-----------------------------------------------------------------------------
(* The frames are shown in the order they were posted                      *)

\* The frame in hand and the queue behind it.
LEMMA LineType == Inv => InHand \in Seq(Buffers) /\ dirty \in Seq(Buffers)
<1> SUFFICES ASSUME Inv PROVE InHand \in Seq(Buffers) /\ dirty \in Seq(Buffers)
  OBVIOUS
<1>1. wpc = "drawDone" => wbuf \in Buffers
  BY DEF Inv, WorkerInv, Busy
<1>2. drawWait # NoBuffer => drawWait \in Buffers
  BY DEF Inv, TypeOK
<1> QED BY <1>1, <1>2 DEF InHand, Inv, TypeOK

\* What the images and the frames are after a step that is neither a dequeue nor
\* an enqueue nor a commit: the same.
LEMMA LineKept ==
    ASSUME Inv, Careful, [Next]_vars,
           ~WorkerDrawDone, \A t \in Threads : ~DequeueTake(t) /\ ~EnqueueQueue(t)
    PROVE  /\ InHand' \o dirty' = InHand \o dirty /\ shown' = shown
           /\ \A c \in Buffers : Clients(c)' <=> Clients(c)
<1>1. CASE /\ UNCHANGED <<shown, dirty, held, pc, buf>>
           /\ \/ UNCHANGED <<wpc, wbuf, drawWait>>
              \/ WorkerNotified \/ WorkerFence \/ WorkerFenceError \/ WorkerLook
              \/ WorkerDrained \/ WorkerRelease
  <2>1. InHand' = InHand
    BY <1>1, SwapchainAssumption DEF InHand, WorkerNotified, WorkerFence, WorkerFenceError,
       WorkerLook,
       WorkerDrained, WorkerRelease, Inv, WorkerInv
  <2> QED BY <1>1, <2>1 DEF Clients
<1>2. CASE /\ UNCHANGED <<shown, wpc, wbuf, drawWait, held>> /\ dirty' = dirty
           /\ \E t \in Threads : \E l :
                 /\ Goto(t, l) /\ pc[t] # "enqLock" /\ l # "enqLock"
                 /\ buf' = buf \/ buf' = [buf EXCEPT ![t] = NoBuffer]
  <2>1. InHand' = InHand
    BY <1>2 DEF InHand
  <2> QED BY <1>2, <2>1, ClientsKept DEF Inv
<1>3. CASE WorkerAcquire
  <2>1. /\ wpc = "acquire" /\ drawWait = NoBuffer /\ dirty # <<>> /\ dirty' = Tail(dirty)
        /\ \/ drawWait' = Head(dirty) /\ wpc' = "epoll"
           \/ wbuf' = Head(dirty) /\ wpc' = "drawDone"
        /\ UNCHANGED <<shown, held, pc, buf>>
    BY <1>3 DEF WorkerAcquire, serverVars, appVars, Inv, WorkerInv
  <2>2. dirty \in Seq(Buffers) /\ Head(dirty) \in Buffers
    BY <2>1, Taken DEF Inv, TypeOK
  <2>3. InHand = <<>> /\ InHand' = <<Head(dirty)>>
    BY <2>1, <2>2, SwapchainAssumption DEF InHand
  <2>4. <<Head(dirty)>> \o Tail(dirty) = <<>> \o dirty
    BY <2>1, <2>2
  <2> QED BY <2>1, <2>3, <2>4 DEF Clients
<1>4. CASE WorkerSignal
  <2>1. /\ wpc = "signal" /\ wpc' \in {"acquire", "look"} /\ UNCHANGED <<shown, dirty, held,
                                                                         buf>>
        /\ wpc' = "acquire" => scanning
        /\ drawWait' = IF scanning THEN drawWait ELSE NoBuffer
        /\ pc' = pc \/ \E t \in Threads : pc[t] = "asleep" /\ Goto(t, "deqTest")
    BY <1>4 DEF WorkerSignal, queueVars, serverVars
  <2>2. InHand = <<>> /\ InHand' = <<>>
    BY <2>1 DEF InHand, Inv, WorkerInv
  <2>3. \A c \in Buffers : Clients(c)' <=> Clients(c)
    <3>1. CASE pc' = pc
      BY <2>1, <3>1 DEF Clients
    <3>2. CASE pc' # pc
      BY <2>1, <3>2, ClientsKept DEF Inv
    <3> QED BY <3>1, <3>2
  <2> QED BY <2>1, <2>2, <2>3
<1>5. ASSUME NEW t \in Threads, CreateSwapchain(t) \/ DestroyQueue(t)
      PROVE  /\ InHand' = InHand /\ UNCHANGED <<dirty, shown>>
             /\ \A c \in Buffers : Clients(c)' <=> Clients(c)
  <2>1. dirty = <<>> /\ drawWait = NoBuffer
    BY <1>5 DEF CreateSwapchain, DestroyQueue, Inv, LifeInv, Destroying
  <2>2. /\ dirty' = <<>> /\ drawWait' = NoBuffer /\ UNCHANGED <<wpc, wbuf, held, shown>>
        /\ \/ UNCHANGED <<pc, buf>>
           \/ /\ pc[t] = "destroy" /\ Goto(t, "idle")
              /\ buf' = [buf EXCEPT ![t] = NoBuffer]
    BY <1>5, <2>1 DEF CreateSwapchain, DestroyQueue, Return, serverVars, appVars, workerVars
  <2>3. InHand' = InHand
    BY <2>1, <2>2 DEF InHand
  <2>4. \A c \in Buffers : Clients(c)' <=> Clients(c)
    <3>1. CASE UNCHANGED <<pc, buf>>
      BY <2>2, <3>1 DEF Clients
    <3>2. CASE ~(UNCHANGED <<pc, buf>>)
      BY <2>2, <3>2, ClientsKept DEF Inv
    <3> QED BY <3>1, <3>2
  <2> QED BY <2>1, <2>2, <2>3, <2>4
<1>6. ASSUME NEW t \in Threads, EnqueueCall(t)
      PROVE  /\ InHand' = InHand /\ UNCHANGED <<dirty, shown>>
             /\ \A c \in Buffers : Clients(c)' <=> Clients(c)
  <2>1. PICK b \in held : /\ held' = held \ {b} /\ buf' = [buf EXCEPT ![t] = b]
                          /\ Goto(t, "enqLock") /\ pc[t] = "idle"
                          /\ UNCHANGED <<dirty, shown, wpc, wbuf, drawWait>>
    BY <1>6 DEF EnqueueCall, queueVars, serverVars, workerVars
  <2>2. InHand' = InHand
    BY <2>1 DEF InHand
  <2>3. \A x \in Threads : /\ pc'[x] = IF x = t THEN "enqLock" ELSE pc[x]
                           /\ buf'[x] = IF x = t THEN b ELSE buf[x]
    BY <2>1 DEF Inv, TypeOK, Goto
  <2> QED BY <2>1, <2>2, <2>3 DEF Clients
<1>7. ASSUME NEW t \in Threads, Moves(t) \/ GetTake(t) \/ DequeueFail(t) \/ GetGive(t)
             \/ DestroyUnlist(t) \/ DestroyRoundtrip(t) \/ EnqueueDispatch(t)
      PROVE  \/ UNCHANGED <<shown, wpc, wbuf, drawWait, held, dirty, pc, buf>>
             \/ /\ UNCHANGED <<shown, wpc, wbuf, drawWait, held, dirty>>
                /\ \E l : /\ Goto(t, l) /\ pc[t] # "enqLock" /\ l # "enqLock"
                          /\ buf' = buf \/ buf' = [buf EXCEPT ![t] = NoBuffer]
  <2>1. /\ UNCHANGED <<shown, wpc, wbuf, drawWait, held, dirty>>
        /\ pc[t] # "enqLock"
        /\ buf' = buf \/ buf' = [buf EXCEPT ![t] = NoBuffer]
    BY <1>7 DEF Moves, GetCall, GetTaken, DestroyCall, DequeueCall, DequeueLock, DequeueSleep,
       DequeueTimeout, EnqueueNotify, GetTake, DequeueFail, GetGive, DestroyUnlist,
       DestroyRoundtrip, EnqueueDispatch, Dispatch, Return, queueVars, serverVars, workerVars
  <2>2. \/ UNCHANGED <<pc, buf>>
        \/ \E l \in {"idle", "deqLock", "getTake", "getGive", "unlist", "roundtrip", "destroy",
                     "deqTest", "asleep", "enqDispatch"} : Goto(t, l)
    BY <1>7 DEF Moves, GetCall, GetTaken, DestroyCall, DequeueCall, DequeueLock, DequeueSleep,
       DequeueTimeout, EnqueueNotify, GetTake, DequeueFail, GetGive, DestroyUnlist,
       DestroyRoundtrip, EnqueueDispatch, Return
  <2> QED BY <2>1, <2>2
<1>8. CASE Worker
  <2>1. CASE WorkerMoves \/ WorkerRelease
    <3>1. UNCHANGED <<shown, dirty, held, pc, buf>>
      BY <2>1 DEF WorkerMoves, WorkerNotified, WorkerFence, WorkerFenceError, WorkerLook,
         WorkerDrained,
         WorkerRelease, queueVars, serverVars, appVars
    <3> QED BY <1>1, <2>1, <3>1 DEF WorkerMoves
  <2> QED BY <1>3, <1>4, <1>8, <2>1 DEF Worker, WorkerMoves
<1>9. CASE Environment \/ UNCHANGED vars
  <2>1. UNCHANGED <<shown, dirty, held, pc, buf, wpc, wbuf, drawWait>>
    BY <1>9 DEF Environment, ServerFrame, DispatchElsewhere, FenceSignals, ServerRelease,
       Dispatch,
       queueVars, serverVars, appVars, workerVars, vars
  <2> QED BY <1>1, <2>1
<1>10. ASSUME NEW t \in Threads, Lifecycle(t) \/ Dequeue(t) \/ Enqueue(t)
       PROVE  \/ CreateSwapchain(t) \/ DestroyQueue(t) \/ EnqueueCall(t)
              \/ Moves(t) \/ GetTake(t) \/ DequeueFail(t) \/ GetGive(t)
              \/ DestroyUnlist(t) \/ DestroyRoundtrip(t) \/ EnqueueDispatch(t)
  BY <1>10 DEF Lifecycle, Dequeue, Enqueue, Moves
<1> QED BY <1>1, <1>2, <1>5, <1>6, <1>7, <1>8, <1>9, <1>10 DEF Next

\* Every step is one of FrameOrder's, or none to it.
LEMMA FrameStep ==
    ASSUME Careful, Inv, [Next]_vars
    PROVE  [Frames!Next]_(Frames!vars)
<1>1. \A b \in Buffers : Entry(b)
  BY DEF Inv, Ledger
<1>2. InHand \in Seq(Buffers) /\ dirty \in Seq(Buffers)
  BY LineType
<1>3. Range(InHand \o dirty) = Range(InHand) \cup Range(dirty)
  BY <1>2, ConcatRange
<1>4. CASE WorkerDrawDone
  <2>1. /\ wpc = "drawDone" /\ wpc' = "release" /\ shown' = wbuf
        /\ UNCHANGED <<dirty, wbuf, drawWait, held, pc, buf>>
    BY <1>4 DEF WorkerDrawDone, queueVars, appVars
  <2>2. InHand = <<wbuf>> /\ InHand' = <<>>
    BY <2>1 DEF InHand
  <2>3. /\ InHand \o dirty # <<>> /\ Head(InHand \o dirty) = wbuf
        /\ InHand' \o dirty' = Tail(InHand \o dirty)
    <3>1. wbuf \in Buffers
      BY <2>1 DEF Inv, WorkerInv, Busy
    <3> QED BY <1>2, <2>1, <2>2, <3>1
  <2>4. {b \in Buffers : Clients(b)}' = {b \in Buffers : Clients(b)}
    BY <2>1 DEF Clients
  <2>5. Frames!Present
    BY <2>1, <2>3, <2>4 DEF Frames!Present
  <2> QED BY <2>5 DEF Frames!Next
<1>5. ASSUME NEW t \in Threads, DequeueTake(t)
      PROVE  Frames!Next
  <2>1. PICK b \in Buffers : /\ QueueDequeue(b) /\ held' = held \cup {b}
    BY <1>5 DEF DequeueTake
  <2>2. /\ pc[t] = "deqTest" /\ Goto(t, "idle") /\ buf' = [buf EXCEPT ![t] = NoBuffer]
        /\ UNCHANGED <<dirty, shown, wpc, wbuf, drawWait>>
    BY <1>5 DEF DequeueTake, Return, serverVars, workerVars
  <2>3. InHand' = InHand
    BY <2>2 DEF InHand
  <2>4. ~Clients(b) /\ b \notin Range(dirty) /\ b \notin Range(InHand)
    BY <2>1, Dequeued
  <2>5. \A x \in Threads : /\ pc'[x] = "enqLock" <=> pc[x] = "enqLock"
                           /\ pc[x] = "enqLock" => buf'[x] = buf[x]
    BY <2>2 DEF Inv, TypeOK, Goto
  <2>6. {c \in Buffers : Clients(c)}' = {c \in Buffers : Clients(c)} \cup {b}
    BY <2>1, <2>5 DEF Clients
  <2>7. b \notin {c \in Buffers : Clients(c)} \cup Range(InHand \o dirty)
    BY <1>3, <2>4
  <2>8. UNCHANGED <<InHand \o dirty, shown>>
    BY <2>2, <2>3
  <2>9. Frames!Take(b)
    BY <2>6, <2>7, <2>8 DEF Frames!Take, Frames!Range, Range
  <2> QED BY <2>9 DEF Frames!Next
<1>6. ASSUME NEW t \in Threads, EnqueueQueue(t)
      PROVE  Frames!Next
  <2> PICK b : b = buf[t]
    OBVIOUS
  <2>1. /\ pc[t] = "enqLock" /\ Goto(t, "enqNotify") /\ dirty' = Append(dirty, b)
        /\ UNCHANGED <<held, buf, shown, wpc, wbuf, drawWait>>
    BY <1>6 DEF EnqueueQueue, serverVars, workerVars
  <2>2. b \in Buffers /\ b \notin held /\ Clients(b)
    BY <2>1 DEF Inv, ThreadInv, Clients
  <2>3. InHand' = InHand
    BY <2>1 DEF InHand
  <2>4. \A x \in Threads : x # t /\ pc[x] = "enqLock" => buf[x] # b
    BY <2>1 DEF Inv, ThreadInv
  <2>5. \A x \in Threads : pc'[x] = IF x = t THEN "enqNotify" ELSE pc[x]
    BY <2>1 DEF Inv, TypeOK, Goto
  <2>6. {c \in Buffers : Clients(c)}' = {c \in Buffers : Clients(c)} \ {b}
    BY <2>1, <2>2, <2>4, <2>5 DEF Clients
  <2>7. InHand' \o dirty' = Append(InHand \o dirty, b)
    BY <1>2, <2>1, <2>2, <2>3, ConcatAppend
  <2>8. Frames!Post(b)
    BY <2>1, <2>2, <2>6, <2>7 DEF Frames!Post
  <2> QED BY <2>2, <2>8 DEF Frames!Next
<1>7. CASE ~WorkerDrawDone /\ \A t \in Threads : ~DequeueTake(t) /\ ~EnqueueQueue(t)
  <2>1. /\ InHand' \o dirty' = InHand \o dirty /\ shown' = shown
        /\ \A c \in Buffers : Clients(c)' <=> Clients(c)
    BY <1>7, LineKept
  <2> QED BY <2>1 DEF Frames!vars
<1> QED BY <1>4, <1>5, <1>6, <1>7

\* The swapchain keeps the promise of FrameOrder: frames are shown in the order
\* they were posted, none is lost or shown twice, and an image is never the
\* application's while it is in line.
THEOREM FrameOrderImplemented == ASSUME Careful PROVE Spec => ImplementsFrameOrder
<1>1. Inv /\ [Next]_vars => Inv'
  BY Careful, InvStep
<1>2. Init => Frames!Init
  <2> SUFFICES ASSUME Init PROVE Frames!Init
    OBVIOUS
  <2>1. InHand = <<>> /\ dirty = <<>> /\ \A b : ~Clients(b)
    BY DEF Init, InHand, Clients
  <2>2. InHand \o dirty = <<>>
    BY <2>1
  <2> QED BY <2>1, <2>2 DEF Init, Frames!Init
<1>3. Inv /\ [Next]_vars => [Frames!Next]_(Frames!vars)
  BY Careful, FrameStep
<1> QED
  BY <1>1, <1>2, <1>3, InvInit, PTL DEF Spec, ImplementsFrameOrder, Frames!Spec
=============================================================================
