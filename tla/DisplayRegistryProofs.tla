----------------------- MODULE DisplayRegistryProofs -----------------------
(***************************************************************************)
(* Theorems about DisplayRegistry, for every set of threads, displays and  *)
(* handles, every number of backends, with and without failures.           *)
(*                                                                         *)
(* All of them follow from one inductive invariant, IInv.  Its parts need  *)
(* each other: that a display somebody looked up is alive needs the        *)
(* application's exclusion, what the registry lists and exact counts.      *)
(***************************************************************************)
EXTENDS DisplayRegistry, FiniteSetTheorems, WellFoundedInduction, TLAPS

-----------------------------------------------------------------------------
(* The inductive invariant                                                 *)

\* A thread inside a call on a display has one; a display in memory has a backend.
\* (The rule the theorems assume is a constant; every step of the proof needs it.)
TypeInv ==
    /\ OwnersOnly
    /\ TypeOK
    /\ \A t \in Threads : pc[t] \notin {"idle", "create"} => obj[t] \in Displays
    /\ \A d \in Displays : magic[d] # "none" => kind[d] \in Kinds

\* The references of d that are still to be given back if the claims are c, one by one.
Owed(c, d) == UNION {{t} \X (0 .. c[t][d] - 1) : t \in Threads}

\* The reference count is the number of references to be given back.
Counts ==
    \A d \in Displays : IsFiniteSet(Owed(claim, d)) /\ count[d] = Cardinality(Owed(claim, d))

\* A display with references is alive.
Alive == \A d \in Displays : count[d] > 0 => magic[d] = "valid"

\* What a thread knows of the display it works on.
Working ==
    \A t \in Threads :
        /\ pc[t] \in {"add", "dec", "refInc"} => claim[t][obj[t]] > 0
        /\ pc[t] \in Dying => magic[obj[t]] # "none" /\ count[obj[t]] = 0
        /\ \A u \in Threads : pc[t] \in Dying /\ pc[u] \in Dying /\ obj[t] = obj[u] => t = u

\* What a thread in create or get knows of it.
Served ==
    \A t \in Threads :
        /\ pc[t] = "add" /\ native[obj[t]] \in Guarded => req[t].handle = native[obj[t]]
        /\ pc[t] \in {"found", "foundInc"} =>
              /\ req[t].handle \in Guarded
              /\ native[obj[t]] = req[t].handle
              /\ count[obj[t]] > 0

\* The application's exclusion.
Exclusion ==
    \A h \in Guarded : \A t, u \in Threads : Busy(t, h) /\ Busy(u, h) => t = u

\* What is registered is alive or about to be removed; removal is effective.
Listed ==
    /\ ListedIsAlive
    /\ \A t \in Threads : pc[t] = "free" => registered[kind[obj[t]]][native[obj[t]]] # obj[t]

\* A display with references is registered, or new and with the thread that creates it.
Kept ==
    \A d \in Displays : native[d] \in Guarded /\ count[d] > 0 =>
        \/ registered[kind[d]][native[d]] = d
        \/ \E t \in Threads : pc[t] \in {"add", "dec"} /\ obj[t] = d /\ count[d] = 1

\* During a create or an unreference nothing else is registered under the key.
KeyFree ==
    \A t \in Threads :
        /\ pc[t] = "create" /\ req[t].handle \in Guarded /\ KindOf(t) \in Kinds =>
              registered[KindOf(t)][req[t].handle] = NoDisplay
        /\ pc[t] = "add" /\ native[obj[t]] \in Guarded =>
              registered[kind[obj[t]]][native[obj[t]]] = NoDisplay
        /\ pc[t] \in {"dec", "fini", "remove"} /\ native[obj[t]] \in Guarded =>
              registered[kind[obj[t]]][native[obj[t]]] \in {obj[t], NoDisplay}

IInv == TypeInv /\ Counts /\ Alive /\ Working /\ Served /\ Exclusion /\ Listed /\ Kept /\ KeyFree

-----------------------------------------------------------------------------
(* Look-ups and counts                                                     *)

\* What a look-up finds is registered; what it misses is not.
LEMMA FindResult ==
    ASSUME TypeOK, NEW k \in Kinds \cup {Unknown}, NEW h \in Handles
    PROVE  /\ Find(k, h) # NoDisplay =>
                 \E j \in Kinds : registered[j][h] = Find(k, h) /\ k \in {j, Unknown}
           /\ Find(k, h) = NoDisplay =>
                 \A j \in Kinds : k \in {j, Unknown} => registered[j][h] = NoDisplay
<1> DEFINE hits == {j \in Kinds : k \in {j, Unknown} /\ registered[j][h] # NoDisplay}
           least == CHOOSE j \in hits : \A i \in hits : j <= i
<1>1. CASE hits = {}
  BY <1>1 DEF Find
<1>2. CASE hits # {}
  <2>1. hits \subseteq Nat
    BY RegistryAssumption DEF Kinds
  <2> DEFINE below == OpToRel(<, Nat)
  <2>2. IsWellFoundedOn(below, Nat)
    BY NatLessThanWellFounded
  <2>3. \A i, j \in Nat : i < j => <<i, j>> \in below
    BY DEF OpToRel
  <2> HIDE DEF below, hits
  <2>4. \E j \in hits : \A i \in hits : ~ (<<i, j>> \in below)
    BY <1>2, <2>1, <2>2, WFMin
  <2>5. \E j \in hits : \A i \in hits : j <= i
    <3>1. PICK j \in hits : \A i \in hits : ~ (<<i, j>> \in below)
      BY <2>4
    <3>2. ASSUME NEW i \in hits PROVE j <= i
      <4>1. i \in Nat /\ j \in Nat
        BY <2>1
      <4>2. ~ (i < j)
        BY <2>3, <3>1, <4>1
      <4> QED
        BY <4>1, <4>2
    <3> QED
      BY <3>2
  <2> USE DEF hits
  <2>6. least \in hits
    BY <2>5
  <2>7. Find(k, h) = registered[least][h]
    BY <1>2 DEF Find
  <2> QED
    BY <2>6, <2>7
<1> QED
  BY <1>1, <1>2

\* An element of Owed is a claim with a number.
LEMMA OwedElement ==
    ASSUME NEW c \in [Threads -> [Displays -> Nat]], NEW d \in Displays
    PROVE  /\ Owed(c, d) \subseteq Threads \X Nat
           /\ \A t \in Threads, i \in Nat : <<t, i>> \in Owed(c, d) <=> i < c[t][d]
<1>1. \A t \in Threads : c[t][d] \in Nat
  OBVIOUS
<1>2. \A t \in Threads : \A i \in 0 .. c[t][d] - 1 : i \in Nat
  BY <1>1
<1>3. \A t \in Threads, i \in Nat : i \in 0 .. c[t][d] - 1 <=> i < c[t][d]
  BY <1>1
<1> QED
  BY <1>2, <1>3 DEF Owed

\* A claim is backed by a reference, two threads' claims by two.
LEMMA Claimed ==
    ASSUME TypeOK, Counts, NEW t \in Threads, NEW d \in Displays, claim[t][d] > 0
    PROVE  /\ count[d] > 0
           /\ \A u \in Threads : u # t /\ claim[u][d] > 0 => count[d] > 1
<1> DEFINE O == Owed(claim, d)
<1>1. claim \in [Threads -> [Displays -> Nat]] /\ count[d] \in Nat
  BY DEF TypeOK, ObjectTypes
<1>2. IsFiniteSet(O) /\ count[d] = Cardinality(O)
  BY DEF Counts
<1>3. <<t, 0>> \in O
  BY <1>1, OwedElement
<1>4. count[d] # 0
  BY <1>2, <1>3, FS_EmptySet
<1>5. ASSUME NEW u \in Threads, u # t, claim[u][d] > 0 PROVE count[d] > 1
  <2>1. <<u, 0>> \in O \ {<<t, 0>>}
    BY <1>1, <1>5, OwedElement
  <2>2. Cardinality(O \ {<<t, 0>>}) = count[d] - 1
    BY <1>2, <1>3, FS_RemoveElement
  <2>3. IsFiniteSet(O \ {<<t, 0>>})
    BY <1>2, FS_RemoveElement
  <2>4. count[d] - 1 # 0
    BY <2>1, <2>2, <2>3, FS_EmptySet
  <2> QED
    BY <1>1, <1>4, <2>4
<1> QED
  BY <1>1, <1>4, <1>5

\* The claims c with one claim of thread t on d more, and with one less.
Plus(c, t, d) == [c EXCEPT ![t][d] = @ + 1]
Minus(c, t, d) == [c EXCEPT ![t][d] = @ - 1]

\* The claim that is then added, or taken away.
Added(c, t, d) == <<t, c[t][d]>>
Taken(c, t, d) == <<t, c[t][d] - 1>>

\* One claim more is one element more in Owed.
LEMMA OneMore ==
    ASSUME NEW c \in [Threads -> [Displays -> Nat]], NEW t \in Threads, NEW d \in Displays
    PROVE  /\ Plus(c, t, d) \in [Threads -> [Displays -> Nat]]
           /\ Owed(Plus(c, t, d), d) = Owed(c, d) \cup {Added(c, t, d)}
           /\ Added(c, t, d) \notin Owed(c, d)
           /\ \A e \in Displays \ {d} : Owed(Plus(c, t, d), e) = Owed(c, e)
<1> DEFINE n == Plus(c, t, d)
<1>1. n \in [Threads -> [Displays -> Nat]]
  BY DEF Plus
<1>2. \A u \in Threads : n[u][d] = IF u = t THEN c[u][d] + 1 ELSE c[u][d]
  BY DEF Plus
<1>3. ASSUME NEW e \in Displays \ {d} PROVE Owed(n, e) = Owed(c, e)
  BY DEF Owed, Plus
<1> HIDE DEF n
<1>4. Added(c, t, d) \notin Owed(c, d)
  BY OwedElement DEF Added
<1>5. Owed(n, d) = Owed(c, d) \cup {Added(c, t, d)}
  <2>1. c[t][d] \in Nat /\ \A u \in Threads : c[u][d] \in Nat
    OBVIOUS
  <2>2. ASSUME NEW u \in Threads, NEW i \in Nat
        PROVE  <<u, i>> \in Owed(n, d) <=> <<u, i>> \in Owed(c, d) \cup {Added(c, t, d)}
    <3>1. <<u, i>> \in Owed(n, d) <=> i < n[u][d]
      BY <1>1, OwedElement
    <3>2. <<u, i>> \in Owed(c, d) <=> i < c[u][d]
      BY OwedElement
    <3>3. <<u, i>> = Added(c, t, d) <=> u = t /\ i = c[t][d]
      BY DEF Added
    <3> QED
      BY <1>2, <2>1, <3>1, <3>2, <3>3
  <2>3. Owed(n, d) \subseteq Threads \X Nat /\ Owed(c, d) \subseteq Threads \X Nat
    BY <1>1, OwedElement
  <2>4. Owed(c, d) \cup {Added(c, t, d)} \subseteq Threads \X Nat
    BY <2>1, <2>3 DEF Added
  <2> QED
    BY <2>2, <2>3, <2>4
<1> USE DEF n
<1> QED
  BY <1>1, <1>3, <1>4, <1>5

\* A thread gives up one claim: the set loses its last element.
LEMMA OneLess ==
    ASSUME NEW c \in [Threads -> [Displays -> Nat]], NEW t \in Threads, NEW d \in Displays,
           c[t][d] # 0
    PROVE  /\ Minus(c, t, d) \in [Threads -> [Displays -> Nat]]
           /\ Owed(Minus(c, t, d), d) = Owed(c, d) \ {Taken(c, t, d)}
           /\ Taken(c, t, d) \in Owed(c, d)
           /\ \A e \in Displays \ {d} : Owed(Minus(c, t, d), e) = Owed(c, e)
<1> DEFINE n == Minus(c, t, d)
<1>1. n \in [Threads -> [Displays -> Nat]]
  BY DEF Minus
<1>2. \A u \in Threads : n[u][d] = IF u = t THEN c[u][d] - 1 ELSE c[u][d]
  BY DEF Minus
<1>3. ASSUME NEW e \in Displays \ {d} PROVE Owed(n, e) = Owed(c, e)
  BY DEF Owed, Minus
<1> HIDE DEF n
<1>4. Taken(c, t, d) \in Owed(c, d)
  BY OwedElement DEF Taken
<1>5. Owed(n, d) = Owed(c, d) \ {Taken(c, t, d)}
  <2>1. c[t][d] \in Nat /\ \A u \in Threads : c[u][d] \in Nat
    OBVIOUS
  <2>2. ASSUME NEW u \in Threads, NEW i \in Nat
        PROVE  <<u, i>> \in Owed(n, d) <=> <<u, i>> \in Owed(c, d) \ {Taken(c, t, d)}
    <3>1. <<u, i>> \in Owed(n, d) <=> i < n[u][d]
      BY <1>1, OwedElement
    <3>2. <<u, i>> \in Owed(c, d) <=> i < c[u][d]
      BY OwedElement
    <3>3. <<u, i>> = Taken(c, t, d) <=> u = t /\ i = c[t][d] - 1
      BY DEF Taken
    <3>4. CASE u = t
      <4>1. n[u][d] = c[u][d] - 1 /\ c[u][d] \in Nat
        BY <1>2, <2>1, <3>4
      <4>2. i < c[u][d] - 1 <=> i < c[u][d] /\ i # c[u][d] - 1
        BY <4>1
      <4> QED
        BY <3>1, <3>2, <3>3, <3>4, <4>1, <4>2
    <3>5. CASE u # t
      BY <1>2, <3>1, <3>2, <3>3, <3>5
    <3> QED
      BY <3>4, <3>5
  <2>3. Owed(n, d) \subseteq Threads \X Nat /\ Owed(c, d) \subseteq Threads \X Nat
    BY <1>1, OwedElement
  <2>4. Owed(c, d) \ {Taken(c, t, d)} \subseteq Threads \X Nat
    BY <2>1, <2>3
  <2> QED
    BY <2>2, <2>3, <2>4
<1> USE DEF n
<1> QED
  BY <1>1, <1>3, <1>4, <1>5

\* Handing a claim over leaves the number of claims as it is.
LEMMA HandOverClaims ==
    ASSUME TypeOK, NEW t \in Threads, NEW u \in Threads, NEW d \in Displays, HandOver(t, u, d)
    PROVE  /\ claim' \in [Threads -> [Displays -> Nat]]
           /\ \A e \in Displays : IsFiniteSet(Owed(claim, e)) =>
                 /\ IsFiniteSet(Owed(claim', e))
                 /\ Cardinality(Owed(claim', e)) = Cardinality(Owed(claim, e))
<1> DEFINE less == Minus(claim, t, d)
<1>1. claim \in [Threads -> [Displays -> Nat]] /\ claim[t][d] > 0 /\ t # u
  BY DEF TypeOK, ObjectTypes, HandOver
<1> HIDE DEF less
<1>2. claim' = Plus(less, u, d)
  BY <1>1 DEF HandOver, Plus, Minus, less
<1>3. /\ less \in [Threads -> [Displays -> Nat]]
      /\ Owed(less, d) = Owed(claim, d) \ {Taken(claim, t, d)}
      /\ Taken(claim, t, d) \in Owed(claim, d)
      /\ \A e \in Displays \ {d} : Owed(less, e) = Owed(claim, e)
  <2>1. claim \in [Threads -> [Displays -> Nat]] /\ claim[t][d] # 0
    BY <1>1
  <2>2. less \in [Threads -> [Displays -> Nat]]
    BY <2>1, OneLess DEF less
  <2>3. /\ Owed(less, d) = Owed(claim, d) \ {Taken(claim, t, d)}
        /\ Taken(claim, t, d) \in Owed(claim, d)
    BY <2>1, OneLess DEF less
  <2>4. \A e \in Displays \ {d} : Owed(less, e) = Owed(claim, e)
    BY <2>1, OneLess DEF less
  <2> QED
    BY <2>2, <2>3, <2>4
<1>4. /\ claim' \in [Threads -> [Displays -> Nat]]
      /\ Owed(claim', d) = Owed(less, d) \cup {Added(less, u, d)}
      /\ Added(less, u, d) \notin Owed(less, d)
      /\ \A e \in Displays \ {d} : Owed(claim', e) = Owed(less, e)
  BY <1>2, <1>3, OneMore
<1>5. ASSUME NEW e \in Displays, IsFiniteSet(Owed(claim, e))
      PROVE  /\ IsFiniteSet(Owed(claim', e))
             /\ Cardinality(Owed(claim', e)) = Cardinality(Owed(claim, e))
  <2>1. CASE e # d
    BY <1>3, <1>4, <1>5, <2>1
  <2>2. CASE e = d
    <3> DEFINE O == Owed(claim, d)
               x == Taken(claim, t, d)
    <3>0. IsFiniteSet(O) /\ x \in O /\ Owed(less, d) = O \ {x}
      BY <1>3, <1>5, <2>2
    <3> HIDE DEF O, x
    <3>1. /\ IsFiniteSet(Owed(less, d))
          /\ Cardinality(Owed(less, d)) = Cardinality(O) - 1
      BY <3>0, FS_RemoveElement
    <3> USE DEF O
    <3>2. /\ IsFiniteSet(Owed(claim', d))
          /\ Cardinality(Owed(claim', d)) = Cardinality(Owed(less, d)) + 1
      BY <1>4, <3>1, FS_AddElement
    <3>3. Cardinality(Owed(claim, d)) \in Nat
      BY <1>5, <2>2, FS_CardinalityType
    <3> QED
      BY <2>2, <3>1, <3>2, <3>3
  <2> QED
    BY <2>1, <2>2
<1> QED
  BY <1>4, <1>5

-----------------------------------------------------------------------------
(* What a step does to the threads                                         *)

\* Only the thread t moves: it is at p, with display d, afterwards.
Moves(t, p, d) ==
    /\ pc'[t] = p /\ obj'[t] = d
    /\ \A u \in Threads \ {t} : pc'[u] = pc[u] /\ obj'[u] = obj[u] /\ req'[u] = req[u]

\* A thread that goes to a label, ...
LEMMA GotoMoves ==
    ASSUME ThreadTypes, NEW t \in Threads, NEW p \in PC, NEW d \in Displays \cup {NoDisplay},
           Goto(t, p, d)
    PROVE  ThreadTypes' /\ Moves(t, p, d) /\ req' = req
  BY DEF ThreadTypes, Goto, Moves

\* ... one that returns, ...
LEMMA ReturnMoves ==
    ASSUME ThreadTypes, NEW t \in Threads, Return(t)
    PROVE  ThreadTypes' /\ Moves(t, "idle", NoDisplay)
<1>1. NoRequest \in [kind : Kinds \cup {Unknown}, handle : Handles] /\ "idle" \in PC
  BY RegistryAssumption DEF NoRequest, PC
<1> QED
  BY <1>1 DEF ThreadTypes, Return, Moves

\* ... one whose look-up finds a display and may keep it, ...
LEMMA FoundMoves ==
    ASSUME OwnersOnly, TypeOK, NEW t \in Threads, NEW k \in Kinds \cup {Unknown},
           NEW h \in Handles, Find(k, h) # NoDisplay, Found(t, k, h)
    PROVE  /\ ThreadTypes'
           /\ \/ UNCHANGED threadVars
              \/ /\ h \in Guarded
                 /\ Moves(t, "found", Find(k, h))
                 /\ req'[t] = [kind |-> k, handle |-> h]
                 /\ Find(k, h) \in Displays
<1>1. Find(k, h) \in Displays
  <2>1. PICK j \in Kinds : registered[j][h] = Find(k, h)
    BY FindResult
  <2> QED
    BY <2>1 DEF TypeOK, RegistryTypes
<1>2. "found" \in PC
  BY DEF PC, Looking
<1> DEFINE takes == h \in Guarded /\ claim[t][Find(k, h)] < MaxClaims
<1>3. CASE takes
  <2>1. /\ pc' = [pc EXCEPT ![t] = "found"]
        /\ obj' = [obj EXCEPT ![t] = Find(k, h)]
        /\ req' = [req EXCEPT ![t] = [kind |-> k, handle |-> h]]
    BY <1>3 DEF Found
  <2> HIDE DEF takes
  <2>2. ThreadTypes'
    BY <1>1, <1>2, <2>1 DEF TypeOK, ThreadTypes
  <2>3. Moves(t, "found", Find(k, h)) /\ req'[t] = [kind |-> k, handle |-> h]
    BY <2>1 DEF TypeOK, ThreadTypes, Moves
  <2> QED
    BY <1>1, <1>3, <2>2, <2>3 DEF takes
<1>4. CASE ~takes
  BY <1>4 DEF Found, TypeOK, ThreadTypes, threadVars
<1> QED
  BY <1>3, <1>4

\* ... and one whose look-up finds none.
LEMMA MissedMoves ==
    ASSUME ThreadTypes, NEW t \in Threads, NEW k \in Kinds \cup {Unknown}, NEW h \in Handles,
           CreateMissed(t, k, h)
    PROVE  ThreadTypes' /\ Moves(t, "create", obj[t]) /\ req'[t] = [kind |-> k, handle |-> h]
<1>1. "create" \in PC
  BY DEF PC, Looking
<1> QED
  BY <1>1 DEF CreateMissed, ThreadTypes, Moves

-----------------------------------------------------------------------------
(* The steps keep the types                                                *)

\* Types.
LEMMA TypeStep == IInv /\ [Next]_vars => TypeInv'
<1> SUFFICES ASSUME IInv, [Next]_vars PROVE TypeInv'
  OBVIOUS
<1> USE RegistryAssumption DEF IInv, TypeInv, TypeOK, objectVars, displayVars, threadVars, vars
<1>1. ASSUME NEW t \in Threads, NEW k \in Kinds \cup {Unknown}, NEW h \in Handles, CreateFound(t, k, h) PROVE TypeInv'
  <2>6. Find(k, h) # NoDisplay /\ Found(t, k, h)
    BY <1>1 DEF CreateFound
  <2>1. ObjectTypes'
    BY <1>1 DEF CreateFound, ObjectTypes, Magic
  <2>2. RegistryTypes'
    BY <1>1 DEF CreateFound, RegistryTypes
  <2>3. ThreadTypes'
    BY <2>6, FoundMoves DEF ThreadTypes
  <2>4. \A x \in Threads : pc'[x] \notin {"idle", "create"} => obj'[x] \in Displays
    <3>1. CASE UNCHANGED threadVars
      BY <3>1 DEF ThreadTypes
    <3>2. CASE Moves(t, "found", Find(k, h)) /\ Find(k, h) \in Displays
      BY <3>2 DEF Moves
    <3> QED
      BY <2>6, <3>1, <3>2, FoundMoves
  <2>5. \A e \in Displays : magic'[e] # "none" => kind'[e] \in Kinds
    BY <1>1 DEF CreateFound
  <2> QED
    BY <2>1, <2>2, <2>3, <2>4, <2>5
<1>2. ASSUME NEW t \in Threads, NEW k \in Kinds \cup {Unknown}, NEW h \in Handles, CreateMissed(t, k, h) PROVE TypeInv'
  <2>1. ObjectTypes'
    BY <1>2 DEF CreateMissed, ObjectTypes, Magic
  <2>2. RegistryTypes'
    BY <1>2 DEF CreateMissed, RegistryTypes
  <2>3. ThreadTypes'
    BY <1>2, MissedMoves
  <2>4. \A x \in Threads : pc'[x] \notin {"idle", "create"} => obj'[x] \in Displays
    BY <1>2, MissedMoves DEF Moves
  <2>5. \A e \in Displays : magic'[e] # "none" => kind'[e] \in Kinds
    BY <1>2 DEF CreateMissed
  <2> QED
    BY <2>1, <2>2, <2>3, <2>4, <2>5
<1>3. ASSUME NEW t \in Threads, NEW h \in Handles, DisplayGet(t, h) PROVE TypeInv'
  <2>6. \/ UNCHANGED threadVars
        \/ Find(Unknown, h) # NoDisplay /\ Found(t, Unknown, h)
    BY <1>3 DEF DisplayGet
  <2>1. ObjectTypes'
    BY <1>3 DEF DisplayGet, ObjectTypes, Magic
  <2>2. RegistryTypes'
    BY <1>3 DEF DisplayGet, RegistryTypes
  <2>3. ThreadTypes'
    BY <2>6, FoundMoves DEF ThreadTypes
  <2>4. \A x \in Threads : pc'[x] \notin {"idle", "create"} => obj'[x] \in Displays
    <3>1. CASE UNCHANGED threadVars
      BY <3>1 DEF ThreadTypes
    <3>2. CASE Moves(t, "found", Find(Unknown, h)) /\ Find(Unknown, h) \in Displays
      BY <3>2 DEF Moves
    <3> QED
      BY <2>6, <3>1, <3>2, FoundMoves
  <2>5. \A e \in Displays : magic'[e] # "none" => kind'[e] \in Kinds
    BY <1>3 DEF DisplayGet
  <2> QED
    BY <2>1, <2>2, <2>3, <2>4, <2>5
<1>4. ASSUME NEW t \in Threads, CreateRefused(t) PROVE TypeInv'
  <2>1. ObjectTypes'
    BY <1>4 DEF CreateRefused, ObjectTypes, Magic
  <2>2. RegistryTypes'
    BY <1>4 DEF CreateRefused, RegistryTypes
  <2>3. ThreadTypes'
    BY <1>4, ReturnMoves DEF CreateRefused
  <2>4. \A x \in Threads : pc'[x] \notin {"idle", "create"} => obj'[x] \in Displays
    BY <1>4, ReturnMoves DEF Moves, CreateRefused
  <2>5. \A e \in Displays : magic'[e] # "none" => kind'[e] \in Kinds
    BY <1>4 DEF CreateRefused
  <2> QED
    BY <2>1, <2>2, <2>3, <2>4, <2>5
<1>5. ASSUME NEW t \in Threads, NewDisplay(t) PROVE TypeInv'
  <2> PICK d \in Displays : /\ NewObject(t, d)
                          /\ kind' = [kind EXCEPT ![d] = KindOf(t)]
                          /\ \/ /\ native' = [native EXCEPT ![d] = req[t].handle]
                                /\ Goto(t, "dec", d)
                             \/ /\ native' = [native EXCEPT ![d] = Replaced(KindOf(t), req[t].handle)]
                                /\ Goto(t, "add", d)
    BY <1>5 DEF NewDisplay
  <2>0. "add" \in PC /\ "dec" \in PC
    BY DEF PC, Looking, Unreferencing
  <2>6. KindOf(t) \in Kinds /\ req[t].handle \in Handles /\ UNCHANGED registered
    BY <1>5 DEF NewDisplay, KindOf, ThreadTypes
  <2>7. Replaced(KindOf(t), req[t].handle) \in Handles
    BY <2>6 DEF Replaced
  <2>1. ObjectTypes'
    BY DEF NewObject, ObjectTypes, Magic
  <2>2. RegistryTypes'
    BY <2>6, <2>7 DEF RegistryTypes
  <2>3. ThreadTypes'
    BY <2>0, GotoMoves
  <2>4. \A x \in Threads : pc'[x] \notin {"idle", "create"} => obj'[x] \in Displays
    BY <2>0, GotoMoves DEF Moves
  <2>5. \A e \in Displays : magic'[e] # "none" => kind'[e] \in Kinds
    BY <2>6 DEF NewObject, ObjectTypes, RegistryTypes
  <2> QED
    BY <2>1, <2>2, <2>3, <2>4, <2>5
<1>6. ASSUME NEW t \in Threads, AddDisplay(t) PROVE TypeInv'
  <2>1. ObjectTypes'
    BY <1>6 DEF AddDisplay, ObjectTypes, Magic
  <2>2. RegistryTypes'
    BY <1>6 DEF AddDisplay, RegistryTypes
  <2>3. ThreadTypes'
    BY <1>6, ReturnMoves DEF AddDisplay
  <2>4. \A x \in Threads : pc'[x] \notin {"idle", "create"} => obj'[x] \in Displays
    BY <1>6, ReturnMoves DEF Moves, AddDisplay
  <2>5. \A e \in Displays : magic'[e] # "none" => kind'[e] \in Kinds
    BY <1>6 DEF AddDisplay
  <2> QED
    BY <2>1, <2>2, <2>3, <2>4, <2>5
<1>7. ASSUME NEW t \in Threads, AddRefused(t) PROVE TypeInv'
  <2>0. Goto(t, "dec", obj[t]) /\ obj[t] \in Displays /\ "dec" \in PC
    BY <1>7 DEF AddRefused, PC, Looking, Unreferencing, Dying
  <2>1. ObjectTypes'
    BY <1>7 DEF AddRefused, ObjectTypes, Magic
  <2>2. RegistryTypes'
    BY <1>7 DEF AddRefused, RegistryTypes
  <2>3. ThreadTypes'
    BY <2>0, GotoMoves
  <2>4. \A x \in Threads : pc'[x] \notin {"idle", "create"} => obj'[x] \in Displays
    BY <2>0, GotoMoves DEF Moves
  <2>5. \A e \in Displays : magic'[e] # "none" => kind'[e] \in Kinds
    BY <1>7 DEF AddRefused
  <2> QED
    BY <2>1, <2>2, <2>3, <2>4, <2>5
<1>8. ASSUME NEW t \in Threads, NEW d \in Displays, ReferenceCall(t, d) PROVE TypeInv'
  <2>0. "refInc" \in PC /\ d \in Displays
    BY <1>8 DEF ReferenceCall, PC, Looking, Unreferencing, Dying
  <2>6. Goto(t, "refInc", d) \/ UNCHANGED threadVars
    BY <1>8 DEF ReferenceCall
  <2>1. ObjectTypes'
    BY <1>8 DEF ReferenceCall, ObjectTypes, Magic
  <2>2. RegistryTypes'
    BY <1>8 DEF ReferenceCall, RegistryTypes
  <2>3. ThreadTypes'
    BY <2>0, <2>6, GotoMoves, ReturnMoves DEF ThreadTypes
  <2>4. \A x \in Threads : pc'[x] \notin {"idle", "create"} => obj'[x] \in Displays
    BY <2>0, <2>6, GotoMoves, ReturnMoves DEF Moves
  <2>5. \A e \in Displays : magic'[e] # "none" => kind'[e] \in Kinds
    BY <1>8 DEF ReferenceCall
  <2> QED
    BY <2>1, <2>2, <2>3, <2>4, <2>5
<1>9. ASSUME NEW t \in Threads, NEW d \in Displays, UnreferenceCall(t, d) PROVE TypeInv'
  <2>0. "dec" \in PC /\ d \in Displays
    BY <1>9 DEF UnreferenceCall, PC, Looking, Unreferencing, Dying
  <2>6. Goto(t, "dec", d) \/ UNCHANGED threadVars
    BY <1>9 DEF UnreferenceCall
  <2>1. ObjectTypes'
    BY <1>9 DEF UnreferenceCall, ObjectTypes, Magic
  <2>2. RegistryTypes'
    BY <1>9 DEF UnreferenceCall, RegistryTypes
  <2>3. ThreadTypes'
    BY <2>0, <2>6, GotoMoves, ReturnMoves DEF ThreadTypes
  <2>4. \A x \in Threads : pc'[x] \notin {"idle", "create"} => obj'[x] \in Displays
    BY <2>0, <2>6, GotoMoves, ReturnMoves DEF Moves
  <2>5. \A e \in Displays : magic'[e] # "none" => kind'[e] \in Kinds
    BY <1>9 DEF UnreferenceCall
  <2> QED
    BY <2>1, <2>2, <2>3, <2>4, <2>5
<1>10. ASSUME NEW t \in Threads, ReferenceFound(t) PROVE TypeInv'
  <2>0. "foundInc" \in PC /\ obj[t] \in Displays
    BY <1>10 DEF ReferenceFound, PC, Looking, Unreferencing, Dying
  <2>6. Goto(t, "foundInc", obj[t]) \/ Return(t)
    BY <1>10 DEF ReferenceFound
  <2>1. ObjectTypes'
    BY <1>10 DEF ReferenceFound, ObjectTypes, Magic
  <2>2. RegistryTypes'
    BY <1>10 DEF ReferenceFound, RegistryTypes
  <2>3. ThreadTypes'
    BY <2>0, <2>6, GotoMoves, ReturnMoves DEF ThreadTypes
  <2>4. \A x \in Threads : pc'[x] \notin {"idle", "create"} => obj'[x] \in Displays
    BY <2>0, <2>6, GotoMoves, ReturnMoves DEF Moves
  <2>5. \A e \in Displays : magic'[e] # "none" => kind'[e] \in Kinds
    BY <1>10 DEF ReferenceFound
  <2> QED
    BY <2>1, <2>2, <2>3, <2>4, <2>5
<1>11. ASSUME NEW t \in Threads, ReferenceInc(t) PROVE TypeInv'
  <2>1. ObjectTypes'
    BY <1>11 DEF ReferenceInc, ObjectTypes, Magic
  <2>2. RegistryTypes'
    BY <1>11 DEF ReferenceInc, RegistryTypes
  <2>3. ThreadTypes'
    BY <1>11, ReturnMoves DEF ReferenceInc
  <2>4. \A x \in Threads : pc'[x] \notin {"idle", "create"} => obj'[x] \in Displays
    BY <1>11, ReturnMoves DEF Moves, ReferenceInc
  <2>5. \A e \in Displays : magic'[e] # "none" => kind'[e] \in Kinds
    BY <1>11 DEF ReferenceInc
  <2> QED
    BY <2>1, <2>2, <2>3, <2>4, <2>5
<1>12. ASSUME NEW t \in Threads, UnreferenceDec(t) PROVE TypeInv'
  <2>0. "fini" \in PC /\ obj[t] \in Displays
    BY <1>12 DEF UnreferenceDec, PC, Looking, Unreferencing, Dying
  <2>6. Goto(t, "fini", obj[t]) \/ Return(t)
    BY <1>12 DEF UnreferenceDec
  <2>7. count[obj[t]] > 0 /\ claim[t][obj[t]] > 0
    BY <1>12, <2>0, Claimed DEF UnreferenceDec, Working
  <2>1. ObjectTypes'
    BY <1>12, <2>0, <2>7 DEF UnreferenceDec, ObjectTypes, Magic
  <2>2. RegistryTypes'
    BY <1>12 DEF UnreferenceDec, RegistryTypes
  <2>3. ThreadTypes'
    BY <2>0, <2>6, GotoMoves, ReturnMoves DEF ThreadTypes
  <2>4. \A x \in Threads : pc'[x] \notin {"idle", "create"} => obj'[x] \in Displays
    BY <2>0, <2>6, GotoMoves, ReturnMoves DEF Moves
  <2>5. \A e \in Displays : magic'[e] # "none" => kind'[e] \in Kinds
    BY <1>12 DEF UnreferenceDec
  <2> QED
    BY <2>1, <2>2, <2>3, <2>4, <2>5
<1>13. ASSUME NEW t \in Threads, ObjectFini(t) PROVE TypeInv'
  <2>0. Goto(t, "remove", obj[t]) /\ obj[t] \in Displays /\ "remove" \in PC
    BY <1>13 DEF ObjectFini, PC, Looking, Unreferencing, Dying
  <2>1. ObjectTypes'
    BY <1>13 DEF ObjectFini, ObjectTypes, Magic
  <2>2. RegistryTypes'
    BY <1>13 DEF ObjectFini, RegistryTypes
  <2>3. ThreadTypes'
    BY <2>0, GotoMoves
  <2>4. \A x \in Threads : pc'[x] \notin {"idle", "create"} => obj'[x] \in Displays
    BY <2>0, GotoMoves DEF Moves
  <2>5. \A e \in Displays : magic'[e] # "none" => kind'[e] \in Kinds
    BY <1>13, <2>0 DEF ObjectFini, ObjectTypes, Working, Dying
  <2> QED
    BY <2>1, <2>2, <2>3, <2>4, <2>5
<1>14. ASSUME NEW t \in Threads, RemoveDisplay(t) PROVE TypeInv'
  <2>0. Goto(t, "free", obj[t]) /\ obj[t] \in Displays /\ "free" \in PC
    BY <1>14 DEF RemoveDisplay, PC, Looking, Unreferencing, Dying
  <2>1. ObjectTypes'
    BY <1>14 DEF RemoveDisplay, ObjectTypes, Magic
  <2>2. RegistryTypes'
    BY <1>14 DEF RemoveDisplay, RegistryTypes
  <2>3. ThreadTypes'
    BY <2>0, GotoMoves
  <2>4. \A x \in Threads : pc'[x] \notin {"idle", "create"} => obj'[x] \in Displays
    BY <2>0, GotoMoves DEF Moves
  <2>5. \A e \in Displays : magic'[e] # "none" => kind'[e] \in Kinds
    BY <1>14 DEF RemoveDisplay
  <2> QED
    BY <2>1, <2>2, <2>3, <2>4, <2>5
<1>15. ASSUME NEW t \in Threads, FreeDisplay(t) PROVE TypeInv'
  <2>1. ObjectTypes'
    BY <1>15 DEF FreeDisplay, ObjectTypes, Magic
  <2>2. RegistryTypes'
    BY <1>15 DEF FreeDisplay, RegistryTypes
  <2>3. ThreadTypes'
    BY <1>15, ReturnMoves DEF FreeDisplay
  <2>4. \A x \in Threads : pc'[x] \notin {"idle", "create"} => obj'[x] \in Displays
    BY <1>15, ReturnMoves DEF Moves, FreeDisplay
  <2>5. \A e \in Displays : magic'[e] # "none" => kind'[e] \in Kinds
    BY <1>15 DEF FreeDisplay, ObjectTypes, RegistryTypes
  <2> QED
    BY <2>1, <2>2, <2>3, <2>4, <2>5
<1>16. ASSUME NEW t \in Threads, NEW u \in Threads, NEW d \in Displays, HandOver(t, u, d) PROVE TypeInv'
  <2>1. ObjectTypes'
    BY <1>16, HandOverClaims DEF HandOver, ObjectTypes
  <2>2. RegistryTypes'
    BY <1>16 DEF HandOver, RegistryTypes
  <2>3. ThreadTypes'
    BY <1>16 DEF HandOver, ThreadTypes
  <2>4. \A x \in Threads : pc'[x] \notin {"idle", "create"} => obj'[x] \in Displays
    BY <1>16 DEF HandOver, ThreadTypes
  <2>5. \A e \in Displays : magic'[e] # "none" => kind'[e] \in Kinds
    BY <1>16 DEF HandOver
  <2> QED
    BY <2>1, <2>2, <2>3, <2>4, <2>5
<1>17. CASE UNCHANGED vars
  <2>1. ObjectTypes'
    BY <1>17 DEF ObjectTypes, Magic
  <2>2. RegistryTypes'
    BY <1>17 DEF RegistryTypes
  <2>3. ThreadTypes'
    BY <1>17 DEF ThreadTypes
  <2>4. \A x \in Threads : pc'[x] \notin {"idle", "create"} => obj'[x] \in Displays
    BY <1>17 DEF ThreadTypes
  <2>5. \A e \in Displays : magic'[e] # "none" => kind'[e] \in Kinds
    BY <1>17
  <2> QED
    BY <2>1, <2>2, <2>3, <2>4, <2>5

<1> QED
  BY <1>1, <1>2, <1>3, <1>4, <1>5, <1>6, <1>7, <1>8, <1>9,
     <1>10, <1>11, <1>12, <1>13, <1>14, <1>15, <1>16, <1>17 DEF Next, Creating, Referencing, Destroying

-----------------------------------------------------------------------------
(* What each action does, point by point                                   *)

\* A look-up that finds a display changes nothing but what its thread knows.
LEMMA LookUpEffect ==
    ASSUME TypeInv, NEW t \in Threads, NEW k \in Kinds \cup {Unknown}, NEW h \in Handles,
           CreateFound(t, k, h) \/ (k = Unknown /\ DisplayGet(t, h))
    PROVE  /\ pc[t] = "idle"
           /\ UNCHANGED <<magic, count, kind, native, registered, claim>>
           /\ \/ UNCHANGED <<pc, obj, req>>
              \/ \E d \in Displays :
                   /\ h \in Guarded /\ Allowed(t, h)
                   /\ \E j \in Kinds : registered[j][h] = d
                   /\ Moves(t, "found", d) /\ req'[t].handle = h
<1>0. OwnersOnly /\ TypeOK
  BY DEF TypeInv
<1>1. UNCHANGED <<magic, count, kind, native, registered, claim>>
  BY DEF CreateFound, DisplayGet, objectVars, displayVars
<1>2. /\ pc[t] = "idle" /\ Allowed(t, h)
      /\ UNCHANGED threadVars \/ (Find(k, h) # NoDisplay /\ Found(t, k, h))
  BY DEF CreateFound, DisplayGet
<1>3. CASE UNCHANGED threadVars
  BY <1>1, <1>2, <1>3 DEF threadVars
<1>4. CASE Find(k, h) # NoDisplay /\ Found(t, k, h) /\ ~ UNCHANGED threadVars
  <2>1. /\ h \in Guarded
        /\ Moves(t, "found", Find(k, h))
        /\ req'[t] = [kind |-> k, handle |-> h]
        /\ Find(k, h) \in Displays
    BY <1>0, <1>4, FoundMoves
  <2>2. \E j \in Kinds : registered[j][h] = Find(k, h)
    BY <1>0, <1>4, FindResult
  <2>3. req'[t].handle = h
    BY <2>1
  <2> QED
    BY <1>1, <1>2, <2>1, <2>2, <2>3
<1> QED
  BY <1>2, <1>3, <1>4

\* A new display is valid, counted once and not registered.
LEMMA NewDisplayEffect ==
    ASSUME TypeInv, Counts, NEW t \in Threads, NewDisplay(t)
    PROVE  /\ pc[t] = "create" /\ KindOf(t) \in Kinds /\ UNCHANGED <<registered, req>>
           /\ \E d \in Displays :
                /\ magic[d] = "none" /\ magic'[d] = "valid" /\ count'[d] = 1
                /\ kind'[d] = KindOf(t)
                /\ native'[d] \in Guarded => native'[d] = req[t].handle
                /\ \A e \in Displays \ {d} : /\ magic'[e] = magic[e] /\ count'[e] = count[e]
                                             /\ kind'[e] = kind[e] /\ native'[e] = native[e]
                /\ claim' = [claim EXCEPT ![t][d] = 1]
                /\ Moves(t, "add", d) \/ Moves(t, "dec", d)
<1> USE DEF TypeInv, TypeOK
<1>1. PICK d \in Displays :
        /\ NewObject(t, d)
        /\ kind' = [kind EXCEPT ![d] = KindOf(t)]
        /\ \/ /\ native' = [native EXCEPT ![d] = req[t].handle]
              /\ Goto(t, "dec", d)
           \/ /\ native' = [native EXCEPT ![d] = Replaced(KindOf(t), req[t].handle)]
              /\ Goto(t, "add", d)
  BY DEF NewDisplay
<1>2. pc[t] = "create" /\ KindOf(t) \in Kinds /\ UNCHANGED registered
  BY RegistryAssumption DEF NewDisplay, KindOf, ThreadTypes
<1>3. "add" \in PC /\ "dec" \in PC
  BY DEF PC, Looking, Unreferencing
<1>4. (Moves(t, "add", d) \/ Moves(t, "dec", d)) /\ req' = req
  BY <1>1, <1>3, GotoMoves
<1>5. magic[d] = "none" /\ magic'[d] = "valid" /\ count'[d] = 1 /\ kind'[d] = KindOf(t)
  BY <1>1 DEF NewObject, ObjectTypes, RegistryTypes
<1>6. native'[d] \in {req[t].handle, Bufmgr}
  BY <1>1 DEF RegistryTypes, Replaced
<1>7. \A e \in Displays \ {d} : /\ magic'[e] = magic[e] /\ count'[e] = count[e]
                                /\ kind'[e] = kind[e] /\ native'[e] = native[e]
  BY <1>1 DEF NewObject, ObjectTypes, RegistryTypes
<1>8. claim' = [claim EXCEPT ![t][d] = 1]
  BY <1>1 DEF NewObject
<1>9. native'[d] \in Guarded => native'[d] = req[t].handle
  BY <1>6, RegistryAssumption
<1> QED
  BY <1>2, <1>4, <1>5, <1>7, <1>8, <1>9

\* Adding registers the new display where nothing was, ...
LEMMA AddDisplayEffect ==
    ASSUME TypeInv, NEW t \in Threads, AddDisplay(t)
    PROVE  /\ pc[t] = "add" /\ obj[t] \in Displays
           /\ UNCHANGED <<magic, count, kind, native, claim>>
           /\ registered[kind[obj[t]]][native[obj[t]]] = NoDisplay
           /\ \A k \in Kinds, h \in Handles : registered'[k][h] =
                 IF k = kind[obj[t]] /\ h = native[obj[t]] THEN obj[t] ELSE registered[k][h]
           /\ Moves(t, "idle", NoDisplay)
<1>1. Moves(t, "idle", NoDisplay)
  BY ReturnMoves DEF AddDisplay, TypeInv, TypeOK
<1> QED
  BY <1>1 DEF AddDisplay, TypeInv, TypeOK, RegistryTypes, objectVars, displayVars

\* ... or is refused, and the display is to be unreferenced.
LEMMA AddRefusedEffect ==
    ASSUME TypeInv, NEW t \in Threads, AddRefused(t)
    PROVE  /\ pc[t] = "add" /\ obj[t] \in Displays
           /\ UNCHANGED <<magic, count, kind, native, registered, claim, req>>
           /\ Moves(t, "dec", obj[t])
<1>1. Goto(t, "dec", obj[t]) /\ obj[t] \in Displays /\ "dec" \in PC /\ pc[t] = "add"
  BY DEF AddRefused, TypeInv, PC, Unreferencing
<1> QED
  BY <1>1, GotoMoves DEF AddRefused, TypeInv, TypeOK, objectVars, displayVars

\* tpl_object_reference and ...
LEMMA ReferenceCallEffect ==
    ASSUME TypeInv, NEW t \in Threads, NEW d \in Displays, ReferenceCall(t, d)
    PROVE  /\ pc[t] = "idle" /\ claim[t][d] > 0
           /\ UNCHANGED <<magic, count, kind, native, registered, claim, req>>
           /\ UNCHANGED <<pc, obj>> \/ Moves(t, "refInc", d)
<1>1. claim[t][d] > 0
  BY DEF ReferenceCall, TypeInv, TypeOK, ObjectTypes
<1>2. UNCHANGED threadVars \/ (Goto(t, "refInc", d) /\ "refInc" \in PC)
  BY DEF ReferenceCall, PC
<1> QED
  BY <1>1, <1>2, GotoMoves DEF ReferenceCall, TypeInv, TypeOK, objectVars, displayVars, threadVars

\* ... tpl_object_unreference begin with the check of the object, ...
LEMMA UnreferenceCallEffect ==
    ASSUME TypeInv, NEW t \in Threads, NEW d \in Displays, UnreferenceCall(t, d)
    PROVE  /\ pc[t] = "idle" /\ claim[t][d] > 0 /\ Allowed(t, native[d])
           /\ UNCHANGED <<magic, count, kind, native, registered, claim, req>>
           /\ UNCHANGED <<pc, obj>> \/ Moves(t, "dec", d)
<1>1. UNCHANGED threadVars \/ (Goto(t, "dec", d) /\ "dec" \in PC)
  BY DEF UnreferenceCall, PC, Unreferencing
<1> QED
  BY <1>1, GotoMoves DEF UnreferenceCall, TypeInv, TypeOK, objectVars, displayVars, threadVars

\* ... as does the reference on a display that was looked up.
LEMMA ReferenceFoundEffect ==
    ASSUME TypeInv, NEW t \in Threads, ReferenceFound(t)
    PROVE  /\ pc[t] = "found"
           /\ UNCHANGED <<magic, count, kind, native, registered, claim>>
           /\ (Moves(t, "foundInc", obj[t]) /\ req' = req) \/ Moves(t, "idle", NoDisplay)
<1>1. (Goto(t, "foundInc", obj[t]) /\ "foundInc" \in PC /\ obj[t] \in Displays) \/ Return(t)
  BY DEF ReferenceFound, TypeInv, PC, Looking
<1> QED
  BY <1>1, GotoMoves, ReturnMoves DEF ReferenceFound, TypeInv, TypeOK, objectVars, displayVars

\* The count goes up by one, and so do the claims of the thread.
LEMMA ReferenceIncEffect ==
    ASSUME TypeInv, NEW t \in Threads, ReferenceInc(t)
    PROVE  /\ pc[t] \in {"refInc", "foundInc"} /\ obj[t] \in Displays
           /\ UNCHANGED <<magic, kind, native, registered>>
           /\ count'[obj[t]] = count[obj[t]] + 1
           /\ \A e \in Displays \ {obj[t]} : count'[e] = count[e]
           /\ claim' = Plus(claim, t, obj[t])
           /\ Moves(t, "idle", NoDisplay)
<1>1. Moves(t, "idle", NoDisplay)
  BY ReturnMoves DEF ReferenceInc, TypeInv, TypeOK
<1> QED
  BY <1>1 DEF ReferenceInc, TypeInv, TypeOK, ObjectTypes, displayVars, Plus

\* The count goes down by one; at zero the thread destroys the display.
LEMMA UnreferenceDecEffect ==
    ASSUME TypeInv, NEW t \in Threads, UnreferenceDec(t)
    PROVE  /\ pc[t] = "dec" /\ obj[t] \in Displays
           /\ UNCHANGED <<magic, kind, native, registered>>
           /\ count'[obj[t]] = count[obj[t]] - 1
           /\ \A e \in Displays \ {obj[t]} : count'[e] = count[e]
           /\ claim' = Minus(claim, t, obj[t])
           /\ \/ count[obj[t]] = 1 /\ Moves(t, "fini", obj[t]) /\ req' = req
              \/ count[obj[t]] # 1 /\ Moves(t, "idle", NoDisplay)
<1>1. obj[t] \in Displays /\ "fini" \in PC
  BY DEF UnreferenceDec, TypeInv, PC, Unreferencing, Dying
<1>2. \/ count[obj[t]] = 1 /\ Goto(t, "fini", obj[t])
      \/ count[obj[t]] # 1 /\ Return(t)
  BY DEF UnreferenceDec
<1>3. \/ count[obj[t]] = 1 /\ Moves(t, "fini", obj[t]) /\ req' = req
      \/ count[obj[t]] # 1 /\ Moves(t, "idle", NoDisplay)
  BY <1>1, <1>2, GotoMoves, ReturnMoves DEF TypeInv, TypeOK
<1> QED
  BY <1>1, <1>3 DEF UnreferenceDec, TypeInv, TypeOK, ObjectTypes, displayVars, Minus

\* The display loses its magic, ...
LEMMA ObjectFiniEffect ==
    ASSUME TypeInv, NEW t \in Threads, ObjectFini(t)
    PROVE  /\ pc[t] = "fini" /\ obj[t] \in Displays
           /\ UNCHANGED <<count, kind, native, registered, claim, req>>
           /\ magic'[obj[t]] = "freed"
           /\ \A e \in Displays \ {obj[t]} : magic'[e] = magic[e]
           /\ Moves(t, "remove", obj[t])
<1>1. Goto(t, "remove", obj[t]) /\ obj[t] \in Displays /\ "remove" \in PC
  BY DEF ObjectFini, TypeInv, PC, Unreferencing, Dying
<1>2. Moves(t, "remove", obj[t]) /\ req' = req
  BY <1>1, GotoMoves DEF TypeInv, TypeOK
<1> QED
  BY <1>1, <1>2 DEF ObjectFini, TypeInv, TypeOK, ObjectTypes, displayVars

\* ... the registry what it has under its key, ...
LEMMA RemoveDisplayEffect ==
    ASSUME TypeInv, NEW t \in Threads, RemoveDisplay(t)
    PROVE  /\ pc[t] = "remove" /\ obj[t] \in Displays
           /\ UNCHANGED <<magic, count, kind, native, claim, req>>
           /\ \A k \in Kinds, h \in Handles : registered'[k][h] =
                 IF k = kind[obj[t]] /\ h = native[obj[t]] THEN NoDisplay ELSE registered[k][h]
           /\ Moves(t, "free", obj[t])
<1>1. Goto(t, "free", obj[t]) /\ obj[t] \in Displays /\ "free" \in PC
  BY DEF RemoveDisplay, TypeInv, PC, Unreferencing, Dying
<1>2. Moves(t, "free", obj[t]) /\ req' = req
  BY <1>1, GotoMoves DEF TypeInv, TypeOK
<1> QED
  BY <1>1, <1>2 DEF RemoveDisplay, TypeInv, TypeOK, RegistryTypes, objectVars, displayVars

\* ... and the memory is free.
LEMMA FreeDisplayEffect ==
    ASSUME TypeInv, NEW t \in Threads, FreeDisplay(t)
    PROVE  /\ pc[t] = "free" /\ obj[t] \in Displays
           /\ UNCHANGED <<count, registered, claim>>
           /\ magic'[obj[t]] = "none" /\ native'[obj[t]] = Default
           /\ \A e \in Displays \ {obj[t]} : /\ magic'[e] = magic[e] /\ kind'[e] = kind[e]
                                             /\ native'[e] = native[e]
           /\ Moves(t, "idle", NoDisplay)
<1>1. Moves(t, "idle", NoDisplay)
  BY ReturnMoves DEF FreeDisplay, TypeInv, TypeOK
<1>2. pc[t] = "free" /\ obj[t] \in Displays
  BY DEF FreeDisplay, TypeInv
<1> QED
  BY <1>1, <1>2 DEF FreeDisplay, TypeInv, TypeOK, ObjectTypes, RegistryTypes

\* One thread gives a claim to another.
LEMMA HandOverEffect ==
    ASSUME TypeInv, NEW t \in Threads, NEW u \in Threads, NEW d \in Displays, HandOver(t, u, d)
    PROVE  /\ pc[t] = "idle"
           /\ UNCHANGED <<magic, count, kind, native, registered, pc, obj, req>>
           /\ \A x \in Threads \ {t}, e \in Displays : claim[x][e] > 0 => claim'[x][e] > 0
  BY DEF HandOver, TypeInv, TypeOK, ObjectTypes, objectVars, displayVars, threadVars

\* A look-up that misses leaves the thread with its request.
LEMMA CreateMissedEffect ==
    ASSUME TypeInv, NEW t \in Threads, NEW k \in Kinds \cup {Unknown}, NEW h \in Handles,
           CreateMissed(t, k, h)
    PROVE  /\ pc[t] = "idle" /\ Allowed(t, h)
           /\ UNCHANGED <<magic, count, kind, native, registered, claim>>
           /\ Moves(t, "create", obj[t]) /\ req'[t].kind = k /\ req'[t].handle = h
           /\ \A j \in Kinds : k \in {j, Unknown} => registered[j][h] = NoDisplay
<1>1. Find(k, h) = NoDisplay /\ TypeOK
  BY DEF CreateMissed, TypeInv
<1>2. \A j \in Kinds : k \in {j, Unknown} => registered[j][h] = NoDisplay
  BY <1>1, FindResult
<1>3. req'[t] = [kind |-> k, handle |-> h] /\ Moves(t, "create", obj[t])
  BY <1>1, MissedMoves DEF TypeOK
<1> QED
  BY <1>2, <1>3 DEF CreateMissed, TypeInv, TypeOK, objectVars, displayVars

\* A creation that fails leaves nothing behind.
LEMMA CreateRefusedEffect ==
    ASSUME TypeInv, NEW t \in Threads, CreateRefused(t)
    PROVE  /\ pc[t] = "create"
           /\ UNCHANGED <<magic, count, kind, native, registered, claim>>
           /\ Moves(t, "idle", NoDisplay)
  BY ReturnMoves DEF CreateRefused, TypeInv, TypeOK, objectVars, displayVars

-----------------------------------------------------------------------------
(* The other parts of the invariant                                      *)

\* What has a claim has a reference and is alive.
LEMMA ClaimedAlive ==
    ASSUME TypeInv, Counts, Alive
    PROVE  /\ \A e \in Displays : count[e] \in Nat
           /\ \A x \in Threads, e \in Displays : claim[x][e] \in Nat
           /\ \A x \in Threads, e \in Displays :
                claim[x][e] > 0 => count[e] > 0 /\ magic[e] = "valid"
<1>1. TypeOK
  BY DEF TypeInv
<1>2. ASSUME NEW x \in Threads, NEW e \in Displays, claim[x][e] > 0
      PROVE  count[e] > 0
  BY <1>1, <1>2, Claimed
<1> QED
  BY <1>1, <1>2 DEF TypeOK, ObjectTypes, Alive

\* Counts.
LEMMA CountsStep == IInv /\ [Next]_vars => Counts'
<1> SUFFICES ASSUME IInv, [Next]_vars PROVE Counts'
  OBVIOUS
<1> USE DEF IInv
<1>1. ASSUME NEW t \in Threads, NEW k \in Kinds \cup {Unknown}, NEW h \in Handles, CreateFound(t, k, h) PROVE Counts'
  BY <1>1, LookUpEffect DEF Moves, Counts
<1>2. ASSUME NEW t \in Threads, NEW k \in Kinds \cup {Unknown}, NEW h \in Handles, CreateMissed(t, k, h) PROVE Counts'
  BY <1>2, CreateMissedEffect DEF Moves, Counts
<1>3. ASSUME NEW t \in Threads, NEW h \in Handles, DisplayGet(t, h) PROVE Counts'
  BY <1>3, LookUpEffect DEF Moves, Counts
<1>4. ASSUME NEW t \in Threads, CreateRefused(t) PROVE Counts'
  BY <1>4, CreateRefusedEffect DEF Moves, Counts
<1>5. ASSUME NEW t \in Threads, NewDisplay(t) PROVE Counts'
  <2>1. PICK d \in Displays :
           /\ magic[d] = "none" /\ count'[d] = 1
           /\ \A e \in Displays \ {d} : count'[e] = count[e]
           /\ claim' = [claim EXCEPT ![t][d] = 1]
    BY <1>5, NewDisplayEffect
  <2>2. count[d] = 0 /\ claim[t][d] = 0 /\ claim \in [Threads -> [Displays -> Nat]]
    BY <2>1, ClaimedAlive DEF Alive, TypeInv, TypeOK, ObjectTypes
  <2>3. claim' = Plus(claim, t, d)
    BY <2>1, <2>2 DEF Plus
  <2>4. /\ Owed(claim', d) = Owed(claim, d) \cup {Added(claim, t, d)}
        /\ Added(claim, t, d) \notin Owed(claim, d)
        /\ \A e \in Displays \ {d} : Owed(claim', e) = Owed(claim, e)
    BY <2>2, <2>3, OneMore
  <2>5. IsFiniteSet(Owed(claim, d)) /\ Cardinality(Owed(claim, d)) = 0
    BY <2>2 DEF Counts
  <2>6. IsFiniteSet(Owed(claim', d)) /\ Cardinality(Owed(claim', d)) = 1
    BY <2>4, <2>5, FS_AddElement
  <2> QED
    BY <2>1, <2>4, <2>6 DEF Counts
<1>6. ASSUME NEW t \in Threads, AddDisplay(t) PROVE Counts'
  BY <1>6, AddDisplayEffect DEF Moves, Counts
<1>7. ASSUME NEW t \in Threads, AddRefused(t) PROVE Counts'
  BY <1>7, AddRefusedEffect DEF Moves, Counts
<1>8. ASSUME NEW t \in Threads, NEW d \in Displays, ReferenceCall(t, d) PROVE Counts'
  BY <1>8, ReferenceCallEffect DEF Moves, Counts
<1>9. ASSUME NEW t \in Threads, NEW d \in Displays, UnreferenceCall(t, d) PROVE Counts'
  BY <1>9, UnreferenceCallEffect DEF Moves, Counts
<1>10. ASSUME NEW t \in Threads, ReferenceFound(t) PROVE Counts'
  BY <1>10, ReferenceFoundEffect DEF Moves, Counts
<1>11. ASSUME NEW t \in Threads, ReferenceInc(t) PROVE Counts'
  <2> DEFINE d == obj[t]
  <2>1. /\ d \in Displays /\ count'[d] = count[d] + 1
        /\ \A e \in Displays \ {d} : count'[e] = count[e]
        /\ claim' = Plus(claim, t, d)
        /\ claim \in [Threads -> [Displays -> Nat]]
    BY <1>11, ReferenceIncEffect DEF TypeInv, TypeOK, ObjectTypes
  <2> HIDE DEF d
  <2>2. /\ Owed(claim', d) = Owed(claim, d) \cup {Added(claim, t, d)}
        /\ Added(claim, t, d) \notin Owed(claim, d)
        /\ \A e \in Displays \ {d} : Owed(claim', e) = Owed(claim, e)
    BY <2>1, OneMore
  <2>3. IsFiniteSet(Owed(claim, d)) /\ Cardinality(Owed(claim, d)) = count[d]
    BY <2>1 DEF Counts
  <2>4. IsFiniteSet(Owed(claim', d)) /\ Cardinality(Owed(claim', d)) = count[d] + 1
    BY <2>2, <2>3, FS_AddElement
  <2> QED
    BY <2>1, <2>2, <2>4 DEF Counts
<1>12. ASSUME NEW t \in Threads, UnreferenceDec(t) PROVE Counts'
  <2> DEFINE d == obj[t]
  <2>1. /\ d \in Displays /\ count'[d] = count[d] - 1
        /\ \A e \in Displays \ {d} : count'[e] = count[e]
        /\ claim' = Minus(claim, t, d)
        /\ claim \in [Threads -> [Displays -> Nat]]
        /\ claim[t][d] # 0
    BY <1>12, UnreferenceDecEffect DEF TypeInv, TypeOK, ObjectTypes, Working
  <2> HIDE DEF d
  <2>2. /\ Owed(claim', d) = Owed(claim, d) \ {Taken(claim, t, d)}
        /\ Taken(claim, t, d) \in Owed(claim, d)
        /\ \A e \in Displays \ {d} : Owed(claim', e) = Owed(claim, e)
    BY <2>1, OneLess
  <2>3. IsFiniteSet(Owed(claim, d)) /\ Cardinality(Owed(claim, d)) = count[d]
    BY <2>1 DEF Counts
  <2>4. IsFiniteSet(Owed(claim', d)) /\ Cardinality(Owed(claim', d)) = count[d] - 1
    BY <2>2, <2>3, FS_RemoveElement
  <2> QED
    BY <2>1, <2>2, <2>4 DEF Counts
<1>13. ASSUME NEW t \in Threads, ObjectFini(t) PROVE Counts'
  BY <1>13, ObjectFiniEffect DEF Moves, Counts
<1>14. ASSUME NEW t \in Threads, RemoveDisplay(t) PROVE Counts'
  BY <1>14, RemoveDisplayEffect DEF Moves, Counts
<1>15. ASSUME NEW t \in Threads, FreeDisplay(t) PROVE Counts'
  BY <1>15, FreeDisplayEffect DEF Moves, Counts
<1>16. ASSUME NEW t \in Threads, NEW u \in Threads, NEW d \in Displays, HandOver(t, u, d) PROVE Counts'
  <2>1. UNCHANGED count /\ TypeOK
    BY <1>16 DEF HandOver, objectVars, TypeInv
  <2>2. \A e \in Displays : IsFiniteSet(Owed(claim, e)) =>
          IsFiniteSet(Owed(claim', e)) /\ Cardinality(Owed(claim', e)) = Cardinality(Owed(claim, e))
    BY <1>16, <2>1, HandOverClaims
  <2> QED
    BY <2>1, <2>2 DEF Counts
<1>17. CASE UNCHANGED vars
  BY <1>17 DEF Counts, vars, objectVars, displayVars, threadVars
<1> QED
  BY <1>1, <1>2, <1>3, <1>4, <1>5, <1>6, <1>7, <1>8, <1>9,
     <1>10, <1>11, <1>12, <1>13, <1>14, <1>15, <1>16, <1>17 DEF Next, Creating, Referencing, Destroying

\* A display with references is alive.
LEMMA AliveStep == IInv /\ [Next]_vars => Alive'
<1> SUFFICES ASSUME IInv, [Next]_vars PROVE Alive'
  OBVIOUS
<1> USE DEF IInv
<1>1. ASSUME NEW t \in Threads, NEW k \in Kinds \cup {Unknown}, NEW h \in Handles, CreateFound(t, k, h) PROVE Alive'
  BY <1>1, LookUpEffect, ClaimedAlive DEF Moves, Alive, Working, Served, Dying
<1>2. ASSUME NEW t \in Threads, NEW k \in Kinds \cup {Unknown}, NEW h \in Handles, CreateMissed(t, k, h) PROVE Alive'
  BY <1>2, CreateMissedEffect, ClaimedAlive DEF Moves, Alive, Working, Served, Dying
<1>3. ASSUME NEW t \in Threads, NEW h \in Handles, DisplayGet(t, h) PROVE Alive'
  BY <1>3, LookUpEffect, ClaimedAlive DEF Moves, Alive, Working, Served, Dying
<1>4. ASSUME NEW t \in Threads, CreateRefused(t) PROVE Alive'
  BY <1>4, CreateRefusedEffect, ClaimedAlive DEF Moves, Alive, Working, Served, Dying
<1>5. ASSUME NEW t \in Threads, NewDisplay(t) PROVE Alive'
  BY <1>5, NewDisplayEffect, ClaimedAlive DEF Moves, Alive, Working, Served, Dying
<1>6. ASSUME NEW t \in Threads, AddDisplay(t) PROVE Alive'
  BY <1>6, AddDisplayEffect, ClaimedAlive DEF Moves, Alive, Working, Served, Dying
<1>7. ASSUME NEW t \in Threads, AddRefused(t) PROVE Alive'
  BY <1>7, AddRefusedEffect, ClaimedAlive DEF Moves, Alive, Working, Served, Dying
<1>8. ASSUME NEW t \in Threads, NEW d \in Displays, ReferenceCall(t, d) PROVE Alive'
  BY <1>8, ReferenceCallEffect, ClaimedAlive DEF Moves, Alive, Working, Served, Dying
<1>9. ASSUME NEW t \in Threads, NEW d \in Displays, UnreferenceCall(t, d) PROVE Alive'
  BY <1>9, UnreferenceCallEffect, ClaimedAlive DEF Moves, Alive, Working, Served, Dying
<1>10. ASSUME NEW t \in Threads, ReferenceFound(t) PROVE Alive'
  BY <1>10, ReferenceFoundEffect, ClaimedAlive DEF Moves, Alive, Working, Served, Dying
<1>11. ASSUME NEW t \in Threads, ReferenceInc(t) PROVE Alive'
  BY <1>11, ReferenceIncEffect, ClaimedAlive DEF Moves, Alive, Working, Served, Dying
<1>12. ASSUME NEW t \in Threads, UnreferenceDec(t) PROVE Alive'
  BY <1>12, UnreferenceDecEffect, ClaimedAlive DEF Moves, Alive, Working, Served, Dying
<1>13. ASSUME NEW t \in Threads, ObjectFini(t) PROVE Alive'
  BY <1>13, ObjectFiniEffect, ClaimedAlive DEF Moves, Alive, Working, Served, Dying
<1>14. ASSUME NEW t \in Threads, RemoveDisplay(t) PROVE Alive'
  BY <1>14, RemoveDisplayEffect, ClaimedAlive DEF Moves, Alive, Working, Served, Dying
<1>15. ASSUME NEW t \in Threads, FreeDisplay(t) PROVE Alive'
  BY <1>15, FreeDisplayEffect, ClaimedAlive DEF Moves, Alive, Working, Served, Dying
<1>16. ASSUME NEW t \in Threads, NEW u \in Threads, NEW d \in Displays, HandOver(t, u, d) PROVE Alive'
  BY <1>16, HandOverEffect, ClaimedAlive DEF Moves, Alive, Working, Served, Dying
<1>17. CASE UNCHANGED vars
  BY <1>17 DEF Alive, Working, Served, Dying, vars, objectVars, displayVars, threadVars
<1> QED
  BY <1>1, <1>2, <1>3, <1>4, <1>5, <1>6, <1>7, <1>8, <1>9,
     <1>10, <1>11, <1>12, <1>13, <1>14, <1>15, <1>16, <1>17 DEF Next, Creating, Referencing, Destroying

\* What a thread knows of the display it works on.
LEMMA WorkingStep == IInv /\ [Next]_vars => Working'
<1> SUFFICES ASSUME IInv, [Next]_vars PROVE Working'
  OBVIOUS
<1> USE DEF IInv
<1>1. ASSUME NEW t \in Threads, NEW k \in Kinds \cup {Unknown}, NEW h \in Handles, CreateFound(t, k, h) PROVE Working'
  BY <1>1, LookUpEffect, ClaimedAlive DEF Moves, Working, Served, Dying
<1>2. ASSUME NEW t \in Threads, NEW k \in Kinds \cup {Unknown}, NEW h \in Handles, CreateMissed(t, k, h) PROVE Working'
  BY <1>2, CreateMissedEffect, ClaimedAlive DEF Moves, Working, Served, Dying
<1>3. ASSUME NEW t \in Threads, NEW h \in Handles, DisplayGet(t, h) PROVE Working'
  BY <1>3, LookUpEffect, ClaimedAlive DEF Moves, Working, Served, Dying
<1>4. ASSUME NEW t \in Threads, CreateRefused(t) PROVE Working'
  BY <1>4, CreateRefusedEffect, ClaimedAlive DEF Moves, Working, Served, Dying
<1>5. ASSUME NEW t \in Threads, NewDisplay(t) PROVE Working'
  <2>1. ASSUME NEW x \in Threads, pc'[x] \in {"add", "dec", "refInc"}
        PROVE  claim'[x][obj'[x]] > 0
    BY <1>5, <2>1, NewDisplayEffect, ClaimedAlive DEF Moves, Working, TypeInv, TypeOK, ObjectTypes
  <2>2. ASSUME NEW x \in Threads, pc'[x] \in Dying
        PROVE  magic'[obj'[x]] # "none" /\ count'[obj'[x]] = 0
    BY <1>5, <2>2, NewDisplayEffect, ClaimedAlive DEF Moves, Working, TypeInv, Dying
  <2>3. ASSUME NEW x \in Threads, NEW y \in Threads,
               pc'[x] \in Dying, pc'[y] \in Dying, obj'[x] = obj'[y]
        PROVE  x = y
    BY <1>5, <2>3, NewDisplayEffect, ClaimedAlive DEF Moves, Working, Dying
  <2> QED
    BY <2>1, <2>2, <2>3 DEF Working, Dying
<1>6. ASSUME NEW t \in Threads, AddDisplay(t) PROVE Working'
  BY <1>6, AddDisplayEffect, ClaimedAlive DEF Moves, Working, Served, Dying
<1>7. ASSUME NEW t \in Threads, AddRefused(t) PROVE Working'
  BY <1>7, AddRefusedEffect, ClaimedAlive DEF Moves, Working, Served, Dying
<1>8. ASSUME NEW t \in Threads, NEW d \in Displays, ReferenceCall(t, d) PROVE Working'
  BY <1>8, ReferenceCallEffect, ClaimedAlive DEF Moves, Working, Served, Dying
<1>9. ASSUME NEW t \in Threads, NEW d \in Displays, UnreferenceCall(t, d) PROVE Working'
  BY <1>9, UnreferenceCallEffect, ClaimedAlive DEF Moves, Working, Served, Dying
<1>10. ASSUME NEW t \in Threads, ReferenceFound(t) PROVE Working'
  BY <1>10, ReferenceFoundEffect, ClaimedAlive DEF Moves, Working, Served, Dying
<1>11. ASSUME NEW t \in Threads, ReferenceInc(t) PROVE Working'
  <2>1. ASSUME NEW x \in Threads, pc'[x] \in {"add", "dec", "refInc"}
        PROVE  claim'[x][obj'[x]] > 0
    BY <1>11, <2>1, ReferenceIncEffect, ClaimedAlive DEF Moves, Working, Plus, TypeInv, TypeOK, ObjectTypes
  <2>2. ASSUME NEW x \in Threads, pc'[x] \in Dying
        PROVE  magic'[obj'[x]] # "none" /\ count'[obj'[x]] = 0
    BY <1>11, <2>2, ReferenceIncEffect, ClaimedAlive DEF Moves, Working, TypeInv, Dying, Served
  <2>3. ASSUME NEW x \in Threads, NEW y \in Threads,
               pc'[x] \in Dying, pc'[y] \in Dying, obj'[x] = obj'[y]
        PROVE  x = y
    BY <1>11, <2>3, ReferenceIncEffect, ClaimedAlive DEF Moves, Working, Dying
  <2> QED
    BY <2>1, <2>2, <2>3 DEF Working, Dying
<1>12. ASSUME NEW t \in Threads, UnreferenceDec(t) PROVE Working'
  <2>1. ASSUME NEW x \in Threads, pc'[x] \in {"add", "dec", "refInc"}
        PROVE  claim'[x][obj'[x]] > 0
    BY <1>12, <2>1, UnreferenceDecEffect, ClaimedAlive DEF Moves, Working, Minus, TypeInv, TypeOK, ObjectTypes
  <2>2. ASSUME NEW x \in Threads, pc'[x] \in Dying
        PROVE  magic'[obj'[x]] # "none" /\ count'[obj'[x]] = 0
    BY <1>12, <2>2, UnreferenceDecEffect, ClaimedAlive DEF Moves, Working, TypeInv, Dying
  <2>3. ASSUME NEW x \in Threads, NEW y \in Threads,
               pc'[x] \in Dying, pc'[y] \in Dying, obj'[x] = obj'[y]
        PROVE  x = y
    BY <1>12, <2>3, UnreferenceDecEffect, ClaimedAlive DEF Moves, Working, Dying
  <2> QED
    BY <2>1, <2>2, <2>3 DEF Working, Dying
<1>13. ASSUME NEW t \in Threads, ObjectFini(t) PROVE Working'
  <2>1. ASSUME NEW x \in Threads, pc'[x] \in {"add", "dec", "refInc"}
        PROVE  claim'[x][obj'[x]] > 0
    BY <1>13, <2>1, ObjectFiniEffect, ClaimedAlive DEF Moves, Working
  <2>2. ASSUME NEW x \in Threads, pc'[x] \in Dying
        PROVE  magic'[obj'[x]] # "none" /\ count'[obj'[x]] = 0
    BY <1>13, <2>2, ObjectFiniEffect, ClaimedAlive DEF Moves, Working, TypeInv, Dying
  <2>3. ASSUME NEW x \in Threads, NEW y \in Threads,
               pc'[x] \in Dying, pc'[y] \in Dying, obj'[x] = obj'[y]
        PROVE  x = y
    BY <1>13, <2>3, ObjectFiniEffect, ClaimedAlive DEF Moves, Working, Dying
  <2> QED
    BY <2>1, <2>2, <2>3 DEF Working, Dying
<1>14. ASSUME NEW t \in Threads, RemoveDisplay(t) PROVE Working'
  BY <1>14, RemoveDisplayEffect, ClaimedAlive DEF Moves, Working, Served, Dying
<1>15. ASSUME NEW t \in Threads, FreeDisplay(t) PROVE Working'
  <2>1. ASSUME NEW x \in Threads, pc'[x] \in {"add", "dec", "refInc"}
        PROVE  claim'[x][obj'[x]] > 0
    BY <1>15, <2>1, FreeDisplayEffect, ClaimedAlive DEF Moves, Working
  <2>2. ASSUME NEW x \in Threads, pc'[x] \in Dying
        PROVE  magic'[obj'[x]] # "none" /\ count'[obj'[x]] = 0
    BY <1>15, <2>2, FreeDisplayEffect, ClaimedAlive DEF Moves, Working, TypeInv, Dying
  <2>3. ASSUME NEW x \in Threads, NEW y \in Threads,
               pc'[x] \in Dying, pc'[y] \in Dying, obj'[x] = obj'[y]
        PROVE  x = y
    BY <1>15, <2>3, FreeDisplayEffect, ClaimedAlive DEF Moves, Working, Dying
  <2> QED
    BY <2>1, <2>2, <2>3 DEF Working, Dying
<1>16. ASSUME NEW t \in Threads, NEW u \in Threads, NEW d \in Displays, HandOver(t, u, d) PROVE Working'
  <2>1. ASSUME NEW x \in Threads, pc'[x] \in {"add", "dec", "refInc"}
        PROVE  claim'[x][obj'[x]] > 0
    <3>1. UNCHANGED <<pc, obj>> /\ x # t
      BY <1>16, <2>1, HandOverEffect
    <3>2. obj[x] \in Displays /\ claim[x][obj[x]] > 0
      BY <2>1, <3>1 DEF TypeInv, Working
    <3> QED
      BY <1>16, <3>1, <3>2, HandOverEffect
  <2>2. ASSUME NEW x \in Threads, pc'[x] \in Dying
        PROVE  magic'[obj'[x]] # "none" /\ count'[obj'[x]] = 0
    BY <1>16, <2>2, HandOverEffect, ClaimedAlive DEF Moves, Working, Dying
  <2>3. ASSUME NEW x \in Threads, NEW y \in Threads,
               pc'[x] \in Dying, pc'[y] \in Dying, obj'[x] = obj'[y]
        PROVE  x = y
    BY <1>16, <2>3, HandOverEffect, ClaimedAlive DEF Moves, Working, Dying
  <2> QED
    BY <2>1, <2>2, <2>3 DEF Working, Dying
<1>17. CASE UNCHANGED vars
  BY <1>17 DEF Working, Served, Dying, vars, objectVars, displayVars, threadVars
<1> QED
  BY <1>1, <1>2, <1>3, <1>4, <1>5, <1>6, <1>7, <1>8, <1>9,
     <1>10, <1>11, <1>12, <1>13, <1>14, <1>15, <1>16, <1>17 DEF Next, Creating, Referencing, Destroying

\* What a thread in create or get knows of it.
LEMMA ServedStep == IInv /\ [Next]_vars => Served'
<1> SUFFICES ASSUME IInv, [Next]_vars PROVE Served'
  OBVIOUS
<1> USE DEF IInv
<1>1. ASSUME NEW t \in Threads, NEW k \in Kinds \cup {Unknown}, NEW h \in Handles, CreateFound(t, k, h) PROVE Served'
  <2>1. CASE UNCHANGED <<pc, obj, req>>
    BY <1>1, <2>1, LookUpEffect DEF Served
  <2>2. ASSUME NEW d \in Displays, pc[t] = "idle", h \in Guarded, Allowed(t, h),
               \E j \in Kinds : registered[j][h] = d,
               Moves(t, "found", d), req'[t].handle = h
        PROVE  Served'
    <3>1. native[d] = h
          /\ (count[d] > 0 \/ \E u \in Threads : pc[u] \in {"fini", "remove"} /\ obj[u] = d)
      BY <2>2, ClaimedAlive, RegistryAssumption DEF Listed, ListedIsAlive, IsValid
    <3>2. \A u \in Threads : pc[u] \in {"fini", "remove"} => obj[u] # d
      BY <2>2, <3>1 DEF Allowed, Busy, Unreferencing, Dying
    <3> QED
      BY <1>1, <2>2, <3>1, <3>2, LookUpEffect DEF Moves, Served
  <2> QED
    BY <1>1, <2>1, <2>2, LookUpEffect
<1>2. ASSUME NEW t \in Threads, NEW k \in Kinds \cup {Unknown}, NEW h \in Handles, CreateMissed(t, k, h) PROVE Served'
  BY <1>2, CreateMissedEffect, ClaimedAlive DEF Moves, Served
<1>3. ASSUME NEW t \in Threads, NEW h \in Handles, DisplayGet(t, h) PROVE Served'
  <2>1. CASE UNCHANGED <<pc, obj, req>>
    BY <1>3, <2>1, LookUpEffect DEF Served
  <2>2. ASSUME NEW d \in Displays, pc[t] = "idle", h \in Guarded, Allowed(t, h),
               \E j \in Kinds : registered[j][h] = d,
               Moves(t, "found", d), req'[t].handle = h
        PROVE  Served'
    <3>1. native[d] = h
          /\ (count[d] > 0 \/ \E u \in Threads : pc[u] \in {"fini", "remove"} /\ obj[u] = d)
      BY <2>2, ClaimedAlive, RegistryAssumption DEF Listed, ListedIsAlive, IsValid
    <3>2. \A u \in Threads : pc[u] \in {"fini", "remove"} => obj[u] # d
      BY <2>2, <3>1 DEF Allowed, Busy, Unreferencing, Dying
    <3> QED
      BY <1>3, <2>2, <3>1, <3>2, LookUpEffect DEF Moves, Served
  <2> QED
    BY <1>3, <2>1, <2>2, LookUpEffect
<1>4. ASSUME NEW t \in Threads, CreateRefused(t) PROVE Served'
  BY <1>4, CreateRefusedEffect, ClaimedAlive DEF Moves, Served
<1>5. ASSUME NEW t \in Threads, NewDisplay(t) PROVE Served'
  <2>1. PICK d \in Displays :
           /\ magic[d] = "none"
           /\ native'[d] \in Guarded => native'[d] = req[t].handle
           /\ \A e \in Displays \ {d} : count'[e] = count[e] /\ native'[e] = native[e]
           /\ Moves(t, "add", d) \/ Moves(t, "dec", d)
           /\ req' = req
    BY <1>5, NewDisplayEffect
  <2>2. ASSUME NEW x \in Threads \ {t}, pc[x] \in {"add", "found", "foundInc"}
        PROVE  obj[x] \in Displays \ {d}
    BY <2>1, <2>2, ClaimedAlive DEF TypeInv, Working, Served, Alive
  <2> QED
    BY <2>1, <2>2 DEF Moves, Served
<1>6. ASSUME NEW t \in Threads, AddDisplay(t) PROVE Served'
  BY <1>6, AddDisplayEffect, ClaimedAlive DEF Moves, Served
<1>7. ASSUME NEW t \in Threads, AddRefused(t) PROVE Served'
  BY <1>7, AddRefusedEffect, ClaimedAlive DEF Moves, Served
<1>8. ASSUME NEW t \in Threads, NEW d \in Displays, ReferenceCall(t, d) PROVE Served'
  BY <1>8, ReferenceCallEffect, ClaimedAlive DEF Moves, Served
<1>9. ASSUME NEW t \in Threads, NEW d \in Displays, UnreferenceCall(t, d) PROVE Served'
  BY <1>9, UnreferenceCallEffect, ClaimedAlive DEF Moves, Served
<1>10. ASSUME NEW t \in Threads, ReferenceFound(t) PROVE Served'
  BY <1>10, ReferenceFoundEffect, ClaimedAlive DEF Moves, Served
<1>11. ASSUME NEW t \in Threads, ReferenceInc(t) PROVE Served'
  <2>1. \A e \in Displays : count[e] > 0 => count'[e] > 0
    BY <1>11, ReferenceIncEffect, ClaimedAlive
  <2> QED
    BY <1>11, <2>1, ReferenceIncEffect DEF Moves, Served, TypeInv
<1>12. ASSUME NEW t \in Threads, UnreferenceDec(t) PROVE Served'
  <2>1. ASSUME NEW x \in Threads \ {t}, pc[x] \in {"found", "foundInc"}
        PROVE  obj[x] # obj[t]
    <3>1. pc[t] = "dec"
      BY <1>12, UnreferenceDecEffect
    <3> QED
      BY <2>1, <3>1 DEF Served, Exclusion, Busy, Looking, Unreferencing
  <2> QED
    BY <1>12, <2>1, UnreferenceDecEffect DEF Moves, Served, TypeInv
<1>13. ASSUME NEW t \in Threads, ObjectFini(t) PROVE Served'
  BY <1>13, ObjectFiniEffect, ClaimedAlive DEF Moves, Served
<1>14. ASSUME NEW t \in Threads, RemoveDisplay(t) PROVE Served'
  BY <1>14, RemoveDisplayEffect, ClaimedAlive DEF Moves, Served
<1>15. ASSUME NEW t \in Threads, FreeDisplay(t) PROVE Served'
  <2>1. ASSUME NEW x \in Threads \ {t}, pc[x] \in {"add", "found", "foundInc"}
        PROVE  obj[x] \in Displays \ {obj[t]}
    BY <1>15, <2>1, FreeDisplayEffect, ClaimedAlive DEF TypeInv, Working, Served, Dying
  <2> QED
    BY <1>15, <2>1, FreeDisplayEffect DEF Moves, Served
<1>16. ASSUME NEW t \in Threads, NEW u \in Threads, NEW d \in Displays, HandOver(t, u, d) PROVE Served'
  BY <1>16, HandOverEffect, ClaimedAlive DEF Moves, Served
<1>17. CASE UNCHANGED vars
  BY <1>17 DEF Served, vars, objectVars, displayVars, threadVars
<1> QED
  BY <1>1, <1>2, <1>3, <1>4, <1>5, <1>6, <1>7, <1>8, <1>9,
     <1>10, <1>11, <1>12, <1>13, <1>14, <1>15, <1>16, <1>17 DEF Next, Creating, Referencing, Destroying

\* The application's exclusion.
LEMMA ExclusionStep == IInv /\ [Next]_vars => Exclusion'
<1> SUFFICES ASSUME IInv, [Next]_vars PROVE Exclusion'
  OBVIOUS
<1> USE DEF IInv
<1>1. ASSUME NEW t \in Threads, NEW k \in Kinds \cup {Unknown}, NEW h \in Handles, CreateFound(t, k, h) PROVE Exclusion'
  BY <1>1, LookUpEffect, ClaimedAlive, RegistryAssumption DEF Moves, Exclusion, Busy, Allowed, Looking, Unreferencing, Dying
<1>2. ASSUME NEW t \in Threads, NEW k \in Kinds \cup {Unknown}, NEW h \in Handles, CreateMissed(t, k, h) PROVE Exclusion'
  BY <1>2, CreateMissedEffect, ClaimedAlive, RegistryAssumption DEF Moves, Exclusion, Busy, Allowed, Looking, Unreferencing, Dying
<1>3. ASSUME NEW t \in Threads, NEW h \in Handles, DisplayGet(t, h) PROVE Exclusion'
  BY <1>3, LookUpEffect, ClaimedAlive, RegistryAssumption DEF Moves, Exclusion, Busy, Allowed, Looking, Unreferencing, Dying
<1>4. ASSUME NEW t \in Threads, CreateRefused(t) PROVE Exclusion'
  BY <1>4, CreateRefusedEffect, ClaimedAlive, RegistryAssumption DEF Moves, Exclusion, Busy, Allowed, Looking, Unreferencing, Dying
<1>5. ASSUME NEW t \in Threads, NewDisplay(t) PROVE Exclusion'
  <2>1. PICK d \in Displays :
           /\ magic[d] = "none"
           /\ native'[d] \in Guarded => native'[d] = req[t].handle
           /\ \A e \in Displays \ {d} : native'[e] = native[e]
           /\ Moves(t, "add", d) \/ Moves(t, "dec", d)
           /\ pc[t] = "create" /\ req' = req
    BY <1>5, NewDisplayEffect
  <2>2. ASSUME NEW x \in Threads \ {t}, pc[x] \in Unreferencing
        PROVE  obj[x] \in Displays \ {d}
    BY <2>1, <2>2, ClaimedAlive DEF TypeInv, Working, Unreferencing, Dying
  <2>3. ASSUME NEW g \in Guarded, NEW x \in Threads, Busy(x, g)' PROVE Busy(x, g)
    <3>1. CASE x = t
      BY <2>1, <2>3, <3>1 DEF Moves, Busy, Looking, Unreferencing, Dying
    <3>2. CASE x # t
      BY <2>1, <2>2, <2>3, <3>2 DEF Moves, Busy
    <3> QED
      BY <3>1, <3>2
  <2> QED
    BY <2>3 DEF Exclusion
<1>6. ASSUME NEW t \in Threads, AddDisplay(t) PROVE Exclusion'
  BY <1>6, AddDisplayEffect, ClaimedAlive, RegistryAssumption DEF Moves, Exclusion, Busy, Allowed, Looking, Unreferencing, Dying
<1>7. ASSUME NEW t \in Threads, AddRefused(t) PROVE Exclusion'
  <2>1. ASSUME NEW g \in Guarded, NEW x \in Threads, Busy(x, g)' PROVE Busy(x, g)
    BY <1>7, <2>1, AddRefusedEffect DEF Moves, Busy, Served, Looking, Unreferencing, Dying
  <2> QED
    BY <2>1 DEF Exclusion
<1>8. ASSUME NEW t \in Threads, NEW d \in Displays, ReferenceCall(t, d) PROVE Exclusion'
  BY <1>8, ReferenceCallEffect, ClaimedAlive, RegistryAssumption DEF Moves, Exclusion, Busy, Allowed, Looking, Unreferencing, Dying
<1>9. ASSUME NEW t \in Threads, NEW d \in Displays, UnreferenceCall(t, d) PROVE Exclusion'
  BY <1>9, UnreferenceCallEffect, ClaimedAlive, RegistryAssumption DEF Moves, Exclusion, Busy, Allowed, Looking, Unreferencing, Dying
<1>10. ASSUME NEW t \in Threads, ReferenceFound(t) PROVE Exclusion'
  BY <1>10, ReferenceFoundEffect, ClaimedAlive, RegistryAssumption DEF Moves, Exclusion, Busy, Allowed, Looking, Unreferencing, Dying
<1>11. ASSUME NEW t \in Threads, ReferenceInc(t) PROVE Exclusion'
  BY <1>11, ReferenceIncEffect, ClaimedAlive, RegistryAssumption DEF Moves, Exclusion, Busy, Allowed, Looking, Unreferencing, Dying
<1>12. ASSUME NEW t \in Threads, UnreferenceDec(t) PROVE Exclusion'
  BY <1>12, UnreferenceDecEffect, ClaimedAlive, RegistryAssumption DEF Moves, Exclusion, Busy, Allowed, Looking, Unreferencing, Dying
<1>13. ASSUME NEW t \in Threads, ObjectFini(t) PROVE Exclusion'
  BY <1>13, ObjectFiniEffect, ClaimedAlive, RegistryAssumption DEF Moves, Exclusion, Busy, Allowed, Looking, Unreferencing, Dying
<1>14. ASSUME NEW t \in Threads, RemoveDisplay(t) PROVE Exclusion'
  BY <1>14, RemoveDisplayEffect, ClaimedAlive, RegistryAssumption DEF Moves, Exclusion, Busy, Allowed, Looking, Unreferencing, Dying
<1>15. ASSUME NEW t \in Threads, FreeDisplay(t) PROVE Exclusion'
  <2>1. ASSUME NEW g \in Guarded, NEW x \in Threads, Busy(x, g)' PROVE Busy(x, g)
    <3>1. native'[obj[t]] # g
      BY <1>15, FreeDisplayEffect, RegistryAssumption
    <3> QED
      BY <1>15, <2>1, <3>1, FreeDisplayEffect DEF Moves, Busy, TypeInv, Looking, Unreferencing, Dying
  <2> QED
    BY <2>1 DEF Exclusion
<1>16. ASSUME NEW t \in Threads, NEW u \in Threads, NEW d \in Displays, HandOver(t, u, d) PROVE Exclusion'
  BY <1>16, HandOverEffect, ClaimedAlive, RegistryAssumption DEF Moves, Exclusion, Busy, Allowed, Looking, Unreferencing, Dying
<1>17. CASE UNCHANGED vars
  BY <1>17 DEF Exclusion, Busy, Allowed, Looking, Unreferencing, Dying, vars, objectVars, displayVars, threadVars
<1> QED
  BY <1>1, <1>2, <1>3, <1>4, <1>5, <1>6, <1>7, <1>8, <1>9,
     <1>10, <1>11, <1>12, <1>13, <1>14, <1>15, <1>16, <1>17 DEF Next, Creating, Referencing, Destroying

\* What is registered.
LEMMA ListedStep == IInv /\ [Next]_vars => Listed'
<1> SUFFICES ASSUME IInv, [Next]_vars PROVE Listed'
  OBVIOUS
<1> USE DEF IInv
<1>a. /\ \A l \in Kinds, g \in Handles : registered[l][g] # NoDisplay =>
              /\ registered[l][g] \in Displays
              /\ kind[registered[l][g]] = l /\ native[registered[l][g]] = g
              /\ \/ magic[registered[l][g]] = "valid" /\ count[registered[l][g]] # 0
                 \/ \E x \in Threads : pc[x] \in {"fini", "remove"} /\ obj[x] = registered[l][g]
      /\ \A x \in Threads : pc[x] = "free" =>
              registered[kind[obj[x]]][native[obj[x]]] # obj[x]
  BY DEF Listed, ListedIsAlive, IsValid, TypeInv, TypeOK, RegistryTypes
<1>b. /\ \A x \in Threads : pc[x] \notin {"idle", "create"} =>
              obj[x] \in Displays /\ native[obj[x]] \in Handles
      /\ \A e \in Displays : magic[e] # "none" => kind[e] \in Kinds
  BY DEF TypeInv, TypeOK, RegistryTypes
<1>d. ASSUME NEW x \in Threads, pc[x] \in {"fini", "remove", "free"}
      PROVE  magic[obj[x]] # "none" /\ count[obj[x]] = 0
  BY <1>d DEF Working, Dying
<1>f. ASSUME NEW x \in Threads, NEW y \in Threads, obj[x] = obj[y],
             pc[x] \in {"fini", "remove", "free"}, pc[y] \in {"fini", "remove", "free"}
      PROVE  x = y
  BY <1>f DEF Working, Dying
<1>e. \A e \in Displays : count[e] \in Nat /\ (count[e] > 0 => magic[e] = "valid")
  BY DEF TypeInv, TypeOK, ObjectTypes, Alive
<1>c. \A x \in Threads : pc[x] \in {"add", "dec", "refInc"} => count[obj[x]] > 0
  BY <1>b, ClaimedAlive DEF Working
<1>1. ASSUME NEW t \in Threads, NEW k \in Kinds \cup {Unknown}, NEW h \in Handles, CreateFound(t, k, h) PROVE Listed'
  <2>1. pc'[t] \notin {"fini", "remove", "free"} /\ pc[t] \notin {"fini", "remove", "free"}
        /\ UNCHANGED <<magic, count, kind, native, registered>>
        /\ \A x \in Threads \ {t} : pc'[x] = pc[x] /\ obj'[x] = obj[x]
    BY <1>1, LookUpEffect DEF Moves
  <2> QED
    BY <2>1 DEF Listed, ListedIsAlive, IsValid
<1>2. ASSUME NEW t \in Threads, NEW k \in Kinds \cup {Unknown}, NEW h \in Handles, CreateMissed(t, k, h) PROVE Listed'
  <2>1. pc'[t] \notin {"fini", "remove", "free"} /\ pc[t] \notin {"fini", "remove", "free"}
        /\ UNCHANGED <<magic, count, kind, native, registered>>
        /\ \A x \in Threads \ {t} : pc'[x] = pc[x] /\ obj'[x] = obj[x]
    BY <1>2, CreateMissedEffect DEF Moves
  <2> QED
    BY <2>1 DEF Listed, ListedIsAlive, IsValid
<1>3. ASSUME NEW t \in Threads, NEW h \in Handles, DisplayGet(t, h) PROVE Listed'
  <2>1. pc'[t] \notin {"fini", "remove", "free"} /\ pc[t] \notin {"fini", "remove", "free"}
        /\ UNCHANGED <<magic, count, kind, native, registered>>
        /\ \A x \in Threads \ {t} : pc'[x] = pc[x] /\ obj'[x] = obj[x]
    BY <1>3, LookUpEffect DEF Moves
  <2> QED
    BY <2>1 DEF Listed, ListedIsAlive, IsValid
<1>4. ASSUME NEW t \in Threads, CreateRefused(t) PROVE Listed'
  BY <1>4, CreateRefusedEffect, ClaimedAlive, RegistryAssumption DEF Moves, Listed, ListedIsAlive, IsValid
<1>5. ASSUME NEW t \in Threads, NewDisplay(t) PROVE Listed'
  <2>1. ASSUME NEW l \in Kinds, NEW g \in Handles, registered'[l][g] # NoDisplay
        PROVE  /\ kind'[registered'[l][g]] = l /\ native'[registered'[l][g]] = g
               /\ \/ magic'[registered'[l][g]] = "valid" /\ count'[registered'[l][g]] # 0
                  \/ \E x \in Threads : pc'[x] \in {"fini", "remove"} /\ obj'[x] = registered'[l][g]
    BY <1>5, <2>1, <1>a, <1>b, <1>c, <1>d, <1>f, <1>e, NewDisplayEffect DEF Moves
  <2>2. ASSUME NEW x \in Threads, pc'[x] = "free"
        PROVE  registered'[kind'[obj'[x]]][native'[obj'[x]]] # obj'[x]
    BY <1>5, <2>2, <1>a, <1>b, <1>c, <1>d, <1>f, <1>e, RegistryAssumption, NewDisplayEffect DEF Moves
  <2> QED
    BY <2>1, <2>2 DEF Listed, ListedIsAlive, IsValid
<1>6. ASSUME NEW t \in Threads, AddDisplay(t) PROVE Listed'
  <2>1. ASSUME NEW l \in Kinds, NEW g \in Handles, registered'[l][g] # NoDisplay
        PROVE  /\ kind'[registered'[l][g]] = l /\ native'[registered'[l][g]] = g
               /\ \/ magic'[registered'[l][g]] = "valid" /\ count'[registered'[l][g]] # 0
                  \/ \E x \in Threads : pc'[x] \in {"fini", "remove"} /\ obj'[x] = registered'[l][g]
    BY <1>6, <2>1, <1>a, <1>b, <1>c, <1>d, <1>f, <1>e, AddDisplayEffect DEF Moves
  <2>2. ASSUME NEW x \in Threads, pc'[x] = "free"
        PROVE  registered'[kind'[obj'[x]]][native'[obj'[x]]] # obj'[x]
    BY <1>6, <2>2, <1>a, <1>b, <1>c, <1>d, <1>f, <1>e, RegistryAssumption, AddDisplayEffect DEF Moves
  <2> QED
    BY <2>1, <2>2 DEF Listed, ListedIsAlive, IsValid
<1>7. ASSUME NEW t \in Threads, AddRefused(t) PROVE Listed'
  BY <1>7, AddRefusedEffect, ClaimedAlive, RegistryAssumption DEF Moves, Listed, ListedIsAlive, IsValid
<1>8. ASSUME NEW t \in Threads, NEW d \in Displays, ReferenceCall(t, d) PROVE Listed'
  BY <1>8, ReferenceCallEffect, ClaimedAlive, RegistryAssumption DEF Moves, Listed, ListedIsAlive, IsValid
<1>9. ASSUME NEW t \in Threads, NEW d \in Displays, UnreferenceCall(t, d) PROVE Listed'
  BY <1>9, UnreferenceCallEffect, ClaimedAlive, RegistryAssumption DEF Moves, Listed, ListedIsAlive, IsValid
<1>10. ASSUME NEW t \in Threads, ReferenceFound(t) PROVE Listed'
  BY <1>10, ReferenceFoundEffect, ClaimedAlive, RegistryAssumption DEF Moves, Listed, ListedIsAlive, IsValid
<1>11. ASSUME NEW t \in Threads, ReferenceInc(t) PROVE Listed'
  <2>1. ASSUME NEW l \in Kinds, NEW g \in Handles, registered'[l][g] # NoDisplay
        PROVE  /\ kind'[registered'[l][g]] = l /\ native'[registered'[l][g]] = g
               /\ \/ magic'[registered'[l][g]] = "valid" /\ count'[registered'[l][g]] # 0
                  \/ \E x \in Threads : pc'[x] \in {"fini", "remove"} /\ obj'[x] = registered'[l][g]
    BY <1>11, <2>1, <1>a, <1>b, <1>c, <1>d, <1>f, <1>e, ReferenceIncEffect DEF Moves
  <2>2. ASSUME NEW x \in Threads, pc'[x] = "free"
        PROVE  registered'[kind'[obj'[x]]][native'[obj'[x]]] # obj'[x]
    BY <1>11, <2>2, <1>a, <1>b, <1>c, <1>d, <1>f, <1>e, RegistryAssumption, ReferenceIncEffect DEF Moves
  <2> QED
    BY <2>1, <2>2 DEF Listed, ListedIsAlive, IsValid
<1>12. ASSUME NEW t \in Threads, UnreferenceDec(t) PROVE Listed'
  <2>1. ASSUME NEW l \in Kinds, NEW g \in Handles, registered'[l][g] # NoDisplay
        PROVE  /\ kind'[registered'[l][g]] = l /\ native'[registered'[l][g]] = g
               /\ \/ magic'[registered'[l][g]] = "valid" /\ count'[registered'[l][g]] # 0
                  \/ \E x \in Threads : pc'[x] \in {"fini", "remove"} /\ obj'[x] = registered'[l][g]
    BY <1>12, <2>1, <1>a, <1>b, <1>c, <1>d, <1>f, <1>e, UnreferenceDecEffect DEF Moves
  <2>2. ASSUME NEW x \in Threads, pc'[x] = "free"
        PROVE  registered'[kind'[obj'[x]]][native'[obj'[x]]] # obj'[x]
    BY <1>12, <2>2, <1>a, <1>b, <1>c, <1>d, <1>f, <1>e, RegistryAssumption, UnreferenceDecEffect DEF Moves
  <2> QED
    BY <2>1, <2>2 DEF Listed, ListedIsAlive, IsValid
<1>13. ASSUME NEW t \in Threads, ObjectFini(t) PROVE Listed'
  <2>1. ASSUME NEW l \in Kinds, NEW g \in Handles, registered'[l][g] # NoDisplay
        PROVE  /\ kind'[registered'[l][g]] = l /\ native'[registered'[l][g]] = g
               /\ \/ magic'[registered'[l][g]] = "valid" /\ count'[registered'[l][g]] # 0
                  \/ \E x \in Threads : pc'[x] \in {"fini", "remove"} /\ obj'[x] = registered'[l][g]
    BY <1>13, <2>1, <1>a, <1>b, <1>c, <1>d, <1>f, <1>e, ObjectFiniEffect DEF Moves
  <2>2. ASSUME NEW x \in Threads, pc'[x] = "free"
        PROVE  registered'[kind'[obj'[x]]][native'[obj'[x]]] # obj'[x]
    BY <1>13, <2>2, <1>a, <1>b, <1>c, <1>d, <1>f, <1>e, RegistryAssumption, ObjectFiniEffect DEF Moves
  <2> QED
    BY <2>1, <2>2 DEF Listed, ListedIsAlive, IsValid
<1>14. ASSUME NEW t \in Threads, RemoveDisplay(t) PROVE Listed'
  <2>1. ASSUME NEW l \in Kinds, NEW g \in Handles, registered'[l][g] # NoDisplay
        PROVE  /\ kind'[registered'[l][g]] = l /\ native'[registered'[l][g]] = g
               /\ \/ magic'[registered'[l][g]] = "valid" /\ count'[registered'[l][g]] # 0
                  \/ \E x \in Threads : pc'[x] \in {"fini", "remove"} /\ obj'[x] = registered'[l][g]
    BY <1>14, <2>1, <1>a, <1>b, <1>c, <1>d, <1>f, <1>e, RemoveDisplayEffect DEF Moves
  <2>2. ASSUME NEW x \in Threads, pc'[x] = "free"
        PROVE  registered'[kind'[obj'[x]]][native'[obj'[x]]] # obj'[x]
    BY <1>14, <2>2, <1>a, <1>b, <1>c, <1>d, <1>f, <1>e, RegistryAssumption, RemoveDisplayEffect DEF Moves
  <2> QED
    BY <2>1, <2>2 DEF Listed, ListedIsAlive, IsValid
<1>15. ASSUME NEW t \in Threads, FreeDisplay(t) PROVE Listed'
  <2>1. ASSUME NEW l \in Kinds, NEW g \in Handles, registered'[l][g] # NoDisplay
        PROVE  /\ kind'[registered'[l][g]] = l /\ native'[registered'[l][g]] = g
               /\ \/ magic'[registered'[l][g]] = "valid" /\ count'[registered'[l][g]] # 0
                  \/ \E x \in Threads : pc'[x] \in {"fini", "remove"} /\ obj'[x] = registered'[l][g]
    BY <1>15, <2>1, <1>a, <1>b, <1>c, <1>d, <1>f, <1>e, FreeDisplayEffect DEF Moves
  <2>2. ASSUME NEW x \in Threads, pc'[x] = "free"
        PROVE  registered'[kind'[obj'[x]]][native'[obj'[x]]] # obj'[x]
    BY <1>15, <2>2, <1>a, <1>b, <1>c, <1>d, <1>f, <1>e, RegistryAssumption, FreeDisplayEffect DEF Moves
  <2> QED
    BY <2>1, <2>2 DEF Listed, ListedIsAlive, IsValid
<1>16. ASSUME NEW t \in Threads, NEW u \in Threads, NEW d \in Displays, HandOver(t, u, d) PROVE Listed'
  BY <1>16, HandOverEffect, ClaimedAlive, RegistryAssumption DEF Moves, Listed, ListedIsAlive, IsValid
<1>17. CASE UNCHANGED vars
  BY <1>17 DEF Listed, ListedIsAlive, IsValid, vars, objectVars, displayVars, threadVars
<1> QED
  BY <1>1, <1>2, <1>3, <1>4, <1>5, <1>6, <1>7, <1>8, <1>9,
     <1>10, <1>11, <1>12, <1>13, <1>14, <1>15, <1>16, <1>17 DEF Next, Creating, Referencing, Destroying

\* A display with references is registered.
LEMMA KeptStep == IInv /\ [Next]_vars => Kept'
<1> SUFFICES ASSUME IInv, [Next]_vars PROVE Kept'
  OBVIOUS
<1> USE DEF IInv
<1>1. ASSUME NEW t \in Threads, NEW k \in Kinds \cup {Unknown}, NEW h \in Handles, CreateFound(t, k, h) PROVE Kept'
  <2>1. /\ UNCHANGED <<count, kind, native, registered>>
        /\ pc[t] = "idle"
        /\ \A x \in Threads \ {t} : pc'[x] = pc[x] /\ obj'[x] = obj[x]
    BY <1>1, LookUpEffect DEF Moves
  <2> QED
    BY <2>1 DEF Kept
<1>2. ASSUME NEW t \in Threads, NEW k \in Kinds \cup {Unknown}, NEW h \in Handles, CreateMissed(t, k, h) PROVE Kept'
  BY <1>2, CreateMissedEffect, ClaimedAlive, RegistryAssumption DEF Moves, Kept
<1>3. ASSUME NEW t \in Threads, NEW h \in Handles, DisplayGet(t, h) PROVE Kept'
  BY <1>3, LookUpEffect, ClaimedAlive, RegistryAssumption DEF Moves, Kept
<1>4. ASSUME NEW t \in Threads, CreateRefused(t) PROVE Kept'
  BY <1>4, CreateRefusedEffect, ClaimedAlive, RegistryAssumption DEF Moves, Kept
<1>5. ASSUME NEW t \in Threads, NewDisplay(t) PROVE Kept'
  BY <1>5, NewDisplayEffect, ClaimedAlive, RegistryAssumption DEF Moves, Kept
<1>6. ASSUME NEW t \in Threads, AddDisplay(t) PROVE Kept'
  <2> SUFFICES ASSUME NEW e \in Displays, native'[e] \in Guarded, count'[e] > 0
               PROVE  \/ registered'[kind'[e]][native'[e]] = e
                      \/ \E x \in Threads : pc'[x] \in {"add", "dec"} /\ obj'[x] = e /\ count'[e] = 1
    BY DEF Kept
  <2>1. /\ native[e] \in Guarded /\ count[e] > 0 /\ count' = count
        /\ kind' = kind /\ native' = native
        /\ kind[e] \in Kinds /\ native[e] \in Handles
    BY <1>6, AddDisplayEffect DEF Alive, TypeInv, TypeOK, RegistryTypes
  <2>2. CASE e = obj[t]
    BY <1>6, <2>1, <2>2, AddDisplayEffect
  <2>3. CASE e # obj[t] /\ registered[kind[e]][native[e]] = e
    BY <1>6, <2>1, <2>3, RegistryAssumption, AddDisplayEffect
  <2>4. CASE e # obj[t] /\ \E x \in Threads : pc[x] \in {"add", "dec"} /\ obj[x] = e /\ count[e] = 1
    BY <1>6, <2>1, <2>4, AddDisplayEffect DEF Moves
  <2> QED
    BY <2>1, <2>2, <2>3, <2>4 DEF Kept
<1>7. ASSUME NEW t \in Threads, AddRefused(t) PROVE Kept'
  BY <1>7, AddRefusedEffect, ClaimedAlive, RegistryAssumption DEF Moves, Kept
<1>8. ASSUME NEW t \in Threads, NEW d \in Displays, ReferenceCall(t, d) PROVE Kept'
  BY <1>8, ReferenceCallEffect, ClaimedAlive, RegistryAssumption DEF Moves, Kept
<1>9. ASSUME NEW t \in Threads, NEW d \in Displays, UnreferenceCall(t, d) PROVE Kept'
  BY <1>9, UnreferenceCallEffect, ClaimedAlive, RegistryAssumption DEF Moves, Kept
<1>10. ASSUME NEW t \in Threads, ReferenceFound(t) PROVE Kept'
  BY <1>10, ReferenceFoundEffect, ClaimedAlive, RegistryAssumption DEF Moves, Kept
<1>11. ASSUME NEW t \in Threads, ReferenceInc(t) PROVE Kept'
  <2> SUFFICES ASSUME NEW e \in Displays, native'[e] \in Guarded, count'[e] > 0
               PROVE  \/ registered'[kind'[e]][native'[e]] = e
                      \/ \E x \in Threads : pc'[x] \in {"add", "dec"} /\ obj'[x] = e /\ count'[e] = 1
    BY DEF Kept
  <2>1. /\ native[e] \in Guarded /\ UNCHANGED <<kind, native, registered>>
        /\ pc[t] \in {"refInc", "foundInc"}
        /\ e # obj[t] => count'[e] = count[e]
        /\ \A x \in Threads \ {t} : pc'[x] = pc[x] /\ obj'[x] = obj[x]
    BY <1>11, ReferenceIncEffect DEF Moves
  <2>2. CASE e # obj[t]
    BY <2>1, <2>2 DEF Kept
  <2>3. CASE e = obj[t]
    <3>1. count[e] > 0
      BY <2>1, <2>3, ClaimedAlive DEF Working, Served
    <3>2. ASSUME NEW x \in Threads, pc[x] \in {"add", "dec"}, obj[x] = e, count[e] = 1
          PROVE  FALSE
      <4>1. x # t /\ claim[x][e] > 0
        BY <2>1, <3>2 DEF Working
      <4>2. CASE pc[t] = "refInc"
        <5>1. claim[t][e] > 0 /\ TypeOK
          BY <2>3, <4>2 DEF Working, TypeInv
        <5>2. count[e] > 1
          BY <4>1, <5>1, Claimed
        <5> QED
          BY <3>2, <5>2
      <4>3. CASE pc[t] = "foundInc"
        <5>1. Busy(t, native[e])
          BY <2>1, <2>3, <4>3 DEF Busy, Served, Looking
        <5>2. Busy(x, native[e])
          BY <2>1, <3>2 DEF Busy, Served, Looking, Unreferencing
        <5> QED
          BY <2>1, <4>1, <5>1, <5>2 DEF Exclusion
      <4> QED
        BY <2>1, <4>2, <4>3
    <3> QED
      BY <2>1, <3>1, <3>2 DEF Kept
  <2> QED
    BY <2>2, <2>3
<1>12. ASSUME NEW t \in Threads, UnreferenceDec(t) PROVE Kept'
  BY <1>12, UnreferenceDecEffect, ClaimedAlive, RegistryAssumption DEF Moves, Kept
<1>13. ASSUME NEW t \in Threads, ObjectFini(t) PROVE Kept'
  BY <1>13, ObjectFiniEffect, ClaimedAlive, RegistryAssumption DEF Moves, Kept
<1>14. ASSUME NEW t \in Threads, RemoveDisplay(t) PROVE Kept'
  <2> SUFFICES ASSUME NEW e \in Displays, native'[e] \in Guarded, count'[e] > 0
               PROVE  \/ registered'[kind'[e]][native'[e]] = e
                      \/ \E x \in Threads : pc'[x] \in {"add", "dec"} /\ obj'[x] = e /\ count'[e] = 1
    BY DEF Kept
  <2>1. /\ native[e] \in Guarded /\ count[e] > 0 /\ count' = count
        /\ kind' = kind /\ native' = native /\ pc[t] = "remove" /\ obj[t] \in Displays
        /\ kind[e] \in Kinds /\ native[e] \in Handles
    BY <1>14, RemoveDisplayEffect DEF Alive, TypeInv, TypeOK, RegistryTypes
  <2>2. e # obj[t]
    BY <2>1 DEF Working, Dying
  <2>3. CASE registered[kind[e]][native[e]] = e
    <3>1. ~ (kind[e] = kind[obj[t]] /\ native[e] = native[obj[t]])
      BY <2>1, <2>2, <2>3, RegistryAssumption DEF KeyFree
    <3> QED
      BY <1>14, <2>1, <2>3, <3>1, RemoveDisplayEffect
  <2>4. CASE \E x \in Threads : pc[x] \in {"add", "dec"} /\ obj[x] = e /\ count[e] = 1
    BY <1>14, <2>1, <2>4, RemoveDisplayEffect DEF Moves
  <2> QED
    BY <2>1, <2>3, <2>4 DEF Kept
<1>15. ASSUME NEW t \in Threads, FreeDisplay(t) PROVE Kept'
  BY <1>15, FreeDisplayEffect, ClaimedAlive, RegistryAssumption DEF Moves, Kept
<1>16. ASSUME NEW t \in Threads, NEW u \in Threads, NEW d \in Displays, HandOver(t, u, d) PROVE Kept'
  BY <1>16, HandOverEffect, ClaimedAlive, RegistryAssumption DEF Moves, Kept
<1>17. CASE UNCHANGED vars
  BY <1>17 DEF Kept, vars, objectVars, displayVars, threadVars
<1> QED
  BY <1>1, <1>2, <1>3, <1>4, <1>5, <1>6, <1>7, <1>8, <1>9,
     <1>10, <1>11, <1>12, <1>13, <1>14, <1>15, <1>16, <1>17 DEF Next, Creating, Referencing, Destroying

\* Nothing else is registered under the key.
LEMMA KeyFreeStep == IInv /\ [Next]_vars => KeyFree'
<1> SUFFICES ASSUME IInv, [Next]_vars PROVE KeyFree'
  OBVIOUS
<1> USE DEF IInv
<1>a. \A x \in Threads : pc[x] = "create" /\ req[x].handle \in Guarded /\ KindOf(x) \in Kinds =>
          registered[KindOf(x)][req[x].handle] = NoDisplay
  BY DEF KeyFree
<1>b. \A x \in Threads :
        /\ pc[x] = "add" /\ native[obj[x]] \in Guarded =>
              registered[kind[obj[x]]][native[obj[x]]] = NoDisplay
        /\ pc[x] \in {"dec", "fini", "remove"} /\ native[obj[x]] \in Guarded =>
              registered[kind[obj[x]]][native[obj[x]]] \in {obj[x], NoDisplay}
  BY DEF KeyFree
<1>c. \A x \in Threads : req'[x] = req[x] => KindOf(x)' = KindOf(x)
  BY DEF KindOf
<1>d. \A x \in Threads : pc[x] \in {"add", "dec", "fini", "remove"} =>
        obj[x] \in Displays /\ kind[obj[x]] \in Kinds /\ native[obj[x]] \in Handles
        /\ magic[obj[x]] # "none"
  BY ClaimedAlive DEF TypeInv, TypeOK, RegistryTypes, Working, Dying
<1>1. ASSUME NEW t \in Threads, NEW k \in Kinds \cup {Unknown}, NEW h \in Handles, CreateFound(t, k, h) PROVE KeyFree'
  <2>1. ASSUME NEW x \in Threads,
               pc'[x] = "create", req'[x].handle \in Guarded, KindOf(x)' \in Kinds
        PROVE  registered'[KindOf(x)'][req'[x].handle] = NoDisplay
    BY <1>1, <2>1, <1>a, <1>c, LookUpEffect DEF Moves
  <2>2. ASSUME NEW x \in Threads, pc'[x] = "add", native'[obj'[x]] \in Guarded
        PROVE  registered'[kind'[obj'[x]]][native'[obj'[x]]] = NoDisplay
    BY <1>1, <2>2, <1>b, <1>d, LookUpEffect DEF Moves
  <2>3. ASSUME NEW x \in Threads, pc'[x] \in {"dec", "fini", "remove"}, native'[obj'[x]] \in Guarded
        PROVE  registered'[kind'[obj'[x]]][native'[obj'[x]]] \in {obj'[x], NoDisplay}
    BY <1>1, <2>3, <1>b, <1>d, LookUpEffect DEF Moves
  <2> QED
    BY <2>1, <2>2, <2>3 DEF KeyFree
<1>2. ASSUME NEW t \in Threads, NEW k \in Kinds \cup {Unknown}, NEW h \in Handles, CreateMissed(t, k, h) PROVE KeyFree'
  <2>1. ASSUME NEW x \in Threads,
               pc'[x] = "create", req'[x].handle \in Guarded, KindOf(x)' \in Kinds
        PROVE  registered'[KindOf(x)'][req'[x].handle] = NoDisplay
    <3>1. CASE x = t
      <4>1. /\ req'[t].kind = k /\ req'[t].handle = h /\ registered' = registered
            /\ \A j \in Kinds : k \in {j, Unknown} => registered[j][h] = NoDisplay
        BY <1>2, CreateMissedEffect
      <4>2. k \in {KindOf(t)', Unknown}
        BY <4>1 DEF KindOf
      <4> QED
        BY <2>1, <3>1, <4>1, <4>2
    <3>2. CASE x # t
      BY <1>2, <2>1, <3>2, <1>a, <1>c, CreateMissedEffect DEF Moves
    <3> QED
      BY <3>1, <3>2
  <2>2. ASSUME NEW x \in Threads, pc'[x] = "add", native'[obj'[x]] \in Guarded
        PROVE  registered'[kind'[obj'[x]]][native'[obj'[x]]] = NoDisplay
    BY <1>2, <2>2, <1>b, <1>d, CreateMissedEffect DEF Moves
  <2>3. ASSUME NEW x \in Threads, pc'[x] \in {"dec", "fini", "remove"}, native'[obj'[x]] \in Guarded
        PROVE  registered'[kind'[obj'[x]]][native'[obj'[x]]] \in {obj'[x], NoDisplay}
    BY <1>2, <2>3, <1>b, <1>d, CreateMissedEffect DEF Moves
  <2> QED
    BY <2>1, <2>2, <2>3 DEF KeyFree
<1>3. ASSUME NEW t \in Threads, NEW h \in Handles, DisplayGet(t, h) PROVE KeyFree'
  <2>1. ASSUME NEW x \in Threads,
               pc'[x] = "create", req'[x].handle \in Guarded, KindOf(x)' \in Kinds
        PROVE  registered'[KindOf(x)'][req'[x].handle] = NoDisplay
    BY <1>3, <2>1, <1>a, <1>c, LookUpEffect DEF Moves
  <2>2. ASSUME NEW x \in Threads, pc'[x] = "add", native'[obj'[x]] \in Guarded
        PROVE  registered'[kind'[obj'[x]]][native'[obj'[x]]] = NoDisplay
    BY <1>3, <2>2, <1>b, <1>d, LookUpEffect DEF Moves
  <2>3. ASSUME NEW x \in Threads, pc'[x] \in {"dec", "fini", "remove"}, native'[obj'[x]] \in Guarded
        PROVE  registered'[kind'[obj'[x]]][native'[obj'[x]]] \in {obj'[x], NoDisplay}
    BY <1>3, <2>3, <1>b, <1>d, LookUpEffect DEF Moves
  <2> QED
    BY <2>1, <2>2, <2>3 DEF KeyFree
<1>4. ASSUME NEW t \in Threads, CreateRefused(t) PROVE KeyFree'
  <2>1. ASSUME NEW x \in Threads,
               pc'[x] = "create", req'[x].handle \in Guarded, KindOf(x)' \in Kinds
        PROVE  registered'[KindOf(x)'][req'[x].handle] = NoDisplay
    BY <1>4, <2>1, <1>a, <1>c, CreateRefusedEffect DEF Moves
  <2>2. ASSUME NEW x \in Threads, pc'[x] = "add", native'[obj'[x]] \in Guarded
        PROVE  registered'[kind'[obj'[x]]][native'[obj'[x]]] = NoDisplay
    BY <1>4, <2>2, <1>b, <1>d, CreateRefusedEffect DEF Moves
  <2>3. ASSUME NEW x \in Threads, pc'[x] \in {"dec", "fini", "remove"}, native'[obj'[x]] \in Guarded
        PROVE  registered'[kind'[obj'[x]]][native'[obj'[x]]] \in {obj'[x], NoDisplay}
    BY <1>4, <2>3, <1>b, <1>d, CreateRefusedEffect DEF Moves
  <2> QED
    BY <2>1, <2>2, <2>3 DEF KeyFree
<1>5. ASSUME NEW t \in Threads, NewDisplay(t) PROVE KeyFree'
  <2>a. PICK d \in Displays :
           /\ magic[d] = "none" /\ kind'[d] = KindOf(t)
           /\ native'[d] \in Guarded => native'[d] = req[t].handle
           /\ \A e \in Displays \ {d} : kind'[e] = kind[e] /\ native'[e] = native[e]
           /\ Moves(t, "add", d) \/ Moves(t, "dec", d)
    BY <1>5, NewDisplayEffect
  <2>b. pc[t] = "create" /\ KindOf(t) \in Kinds /\ UNCHANGED <<registered, req>>
    BY <1>5, NewDisplayEffect
  <2>1. ASSUME NEW x \in Threads,
               pc'[x] = "create", req'[x].handle \in Guarded, KindOf(x)' \in Kinds
        PROVE  registered'[KindOf(x)'][req'[x].handle] = NoDisplay
    BY <2>1, <1>a, <1>c, <2>a, <2>b DEF Moves
  <2>2. ASSUME NEW x \in Threads, pc'[x] = "add", native'[obj'[x]] \in Guarded
        PROVE  registered'[kind'[obj'[x]]][native'[obj'[x]]] = NoDisplay
    BY <2>2, <1>a, <1>b, <1>d, <2>a, <2>b DEF Moves
  <2>3. ASSUME NEW x \in Threads, pc'[x] \in {"dec", "fini", "remove"}, native'[obj'[x]] \in Guarded
        PROVE  registered'[kind'[obj'[x]]][native'[obj'[x]]] \in {obj'[x], NoDisplay}
    BY <2>3, <1>a, <1>b, <1>d, <2>a, <2>b DEF Moves
  <2> QED
    BY <2>1, <2>2, <2>3 DEF KeyFree
<1>6. ASSUME NEW t \in Threads, AddDisplay(t) PROVE KeyFree'
  <2>a. /\ pc[t] = "add" /\ UNCHANGED <<kind, native>> /\ pc'[t] = "idle"
        /\ \A l \in Kinds, g \in Handles : g # native[obj[t]] => registered'[l][g] = registered[l][g]
        /\ \A x \in Threads \ {t} : pc'[x] = pc[x] /\ obj'[x] = obj[x] /\ req'[x] = req[x]
    BY <1>6, AddDisplayEffect DEF Moves
  <2>b. ASSUME NEW x \in Threads \ {t}, NEW g \in Guarded, Busy(x, g)
        PROVE  g \in Handles /\ g # native[obj[t]]
    BY <2>a, <2>b, RegistryAssumption DEF Exclusion, Busy, Served, Looking
  <2>1. ASSUME NEW x \in Threads,
               pc'[x] = "create", req'[x].handle \in Guarded, KindOf(x)' \in Kinds
        PROVE  registered'[KindOf(x)'][req'[x].handle] = NoDisplay
    <3>1. Busy(x, req[x].handle) /\ x # t
      BY <2>1, <2>a DEF Busy, Looking
    <3> QED
      BY <2>1, <1>a, <1>c, <2>a, <2>b, <3>1
  <2>2. ASSUME NEW x \in Threads, pc'[x] = "add", native'[obj'[x]] \in Guarded
        PROVE  registered'[kind'[obj'[x]]][native'[obj'[x]]] = NoDisplay
    <3>1. Busy(x, native[obj[x]]) /\ x # t
      BY <2>2, <2>a DEF Busy, Served, Looking
    <3> QED
      BY <2>2, <1>b, <1>d, <2>a, <2>b, <3>1
  <2>3. ASSUME NEW x \in Threads, pc'[x] \in {"dec", "fini", "remove"}, native'[obj'[x]] \in Guarded
        PROVE  registered'[kind'[obj'[x]]][native'[obj'[x]]] \in {obj'[x], NoDisplay}
    <3>1. Busy(x, native[obj[x]]) /\ x # t
      BY <2>3, <2>a DEF Busy, Unreferencing, Dying
    <3> QED
      BY <2>3, <1>b, <1>d, <2>a, <2>b, <3>1
  <2> QED
    BY <2>1, <2>2, <2>3 DEF KeyFree
<1>7. ASSUME NEW t \in Threads, AddRefused(t) PROVE KeyFree'
  <2>1. ASSUME NEW x \in Threads,
               pc'[x] = "create", req'[x].handle \in Guarded, KindOf(x)' \in Kinds
        PROVE  registered'[KindOf(x)'][req'[x].handle] = NoDisplay
    BY <1>7, <2>1, <1>a, <1>c, AddRefusedEffect DEF Moves
  <2>2. ASSUME NEW x \in Threads, pc'[x] = "add", native'[obj'[x]] \in Guarded
        PROVE  registered'[kind'[obj'[x]]][native'[obj'[x]]] = NoDisplay
    BY <1>7, <2>2, <1>b, <1>d, AddRefusedEffect DEF Moves
  <2>3. ASSUME NEW x \in Threads, pc'[x] \in {"dec", "fini", "remove"}, native'[obj'[x]] \in Guarded
        PROVE  registered'[kind'[obj'[x]]][native'[obj'[x]]] \in {obj'[x], NoDisplay}
    BY <1>7, <2>3, <1>b, <1>d, AddRefusedEffect DEF Moves
  <2> QED
    BY <2>1, <2>2, <2>3 DEF KeyFree
<1>8. ASSUME NEW t \in Threads, NEW d \in Displays, ReferenceCall(t, d) PROVE KeyFree'
  <2>1. ASSUME NEW x \in Threads,
               pc'[x] = "create", req'[x].handle \in Guarded, KindOf(x)' \in Kinds
        PROVE  registered'[KindOf(x)'][req'[x].handle] = NoDisplay
    BY <1>8, <2>1, <1>a, <1>c, ReferenceCallEffect DEF Moves
  <2>2. ASSUME NEW x \in Threads, pc'[x] = "add", native'[obj'[x]] \in Guarded
        PROVE  registered'[kind'[obj'[x]]][native'[obj'[x]]] = NoDisplay
    BY <1>8, <2>2, <1>b, <1>d, ReferenceCallEffect DEF Moves
  <2>3. ASSUME NEW x \in Threads, pc'[x] \in {"dec", "fini", "remove"}, native'[obj'[x]] \in Guarded
        PROVE  registered'[kind'[obj'[x]]][native'[obj'[x]]] \in {obj'[x], NoDisplay}
    BY <1>8, <2>3, <1>b, <1>d, ReferenceCallEffect DEF Moves
  <2> QED
    BY <2>1, <2>2, <2>3 DEF KeyFree
<1>9. ASSUME NEW t \in Threads, NEW d \in Displays, UnreferenceCall(t, d) PROVE KeyFree'
  <2>1. ASSUME NEW x \in Threads,
               pc'[x] = "create", req'[x].handle \in Guarded, KindOf(x)' \in Kinds
        PROVE  registered'[KindOf(x)'][req'[x].handle] = NoDisplay
    BY <1>9, <2>1, <1>a, <1>c, UnreferenceCallEffect DEF Moves
  <2>2. ASSUME NEW x \in Threads, pc'[x] = "add", native'[obj'[x]] \in Guarded
        PROVE  registered'[kind'[obj'[x]]][native'[obj'[x]]] = NoDisplay
    BY <1>9, <2>2, <1>b, <1>d, UnreferenceCallEffect DEF Moves
  <2>3. ASSUME NEW x \in Threads, pc'[x] \in {"dec", "fini", "remove"}, native'[obj'[x]] \in Guarded
        PROVE  registered'[kind'[obj'[x]]][native'[obj'[x]]] \in {obj'[x], NoDisplay}
    <3>1. CASE x # t
      BY <1>9, <2>3, <3>1, <1>b, UnreferenceCallEffect DEF Moves
    <3>2. CASE x = t /\ ~ UNCHANGED <<pc, obj>>
      <4>1. /\ pc[t] = "idle" /\ claim[t][d] > 0 /\ Allowed(t, native[d])
            /\ UNCHANGED <<count, kind, native, registered>> /\ obj'[t] = d
        BY <1>9, <3>2, UnreferenceCallEffect DEF Moves
      <4>2. native[d] \in Guarded /\ count[d] > 0
        BY <2>3, <3>2, <4>1, ClaimedAlive
      <4>3. ASSUME NEW y \in Threads, pc[y] \in {"add", "dec"}, obj[y] = d
            PROVE  FALSE
        <5>1. Busy(y, native[d]) /\ y # t
          BY <4>1, <4>2, <4>3 DEF Busy, Served, Looking, Unreferencing
        <5> QED
          BY <4>1, <4>2, <5>1 DEF Allowed
      <4> QED
        BY <3>2, <4>1, <4>2, <4>3 DEF Kept
    <3>3. CASE UNCHANGED <<pc, obj>>
      BY <1>9, <2>3, <3>3, <1>b, UnreferenceCallEffect
    <3> QED
      BY <3>1, <3>2, <3>3
  <2> QED
    BY <2>1, <2>2, <2>3 DEF KeyFree
<1>10. ASSUME NEW t \in Threads, ReferenceFound(t) PROVE KeyFree'
  <2>1. ASSUME NEW x \in Threads,
               pc'[x] = "create", req'[x].handle \in Guarded, KindOf(x)' \in Kinds
        PROVE  registered'[KindOf(x)'][req'[x].handle] = NoDisplay
    BY <1>10, <2>1, <1>a, <1>c, ReferenceFoundEffect DEF Moves
  <2>2. ASSUME NEW x \in Threads, pc'[x] = "add", native'[obj'[x]] \in Guarded
        PROVE  registered'[kind'[obj'[x]]][native'[obj'[x]]] = NoDisplay
    BY <1>10, <2>2, <1>b, <1>d, ReferenceFoundEffect DEF Moves
  <2>3. ASSUME NEW x \in Threads, pc'[x] \in {"dec", "fini", "remove"}, native'[obj'[x]] \in Guarded
        PROVE  registered'[kind'[obj'[x]]][native'[obj'[x]]] \in {obj'[x], NoDisplay}
    BY <1>10, <2>3, <1>b, <1>d, ReferenceFoundEffect DEF Moves
  <2> QED
    BY <2>1, <2>2, <2>3 DEF KeyFree
<1>11. ASSUME NEW t \in Threads, ReferenceInc(t) PROVE KeyFree'
  <2>1. ASSUME NEW x \in Threads,
               pc'[x] = "create", req'[x].handle \in Guarded, KindOf(x)' \in Kinds
        PROVE  registered'[KindOf(x)'][req'[x].handle] = NoDisplay
    BY <1>11, <2>1, <1>a, <1>c, ReferenceIncEffect DEF Moves
  <2>2. ASSUME NEW x \in Threads, pc'[x] = "add", native'[obj'[x]] \in Guarded
        PROVE  registered'[kind'[obj'[x]]][native'[obj'[x]]] = NoDisplay
    BY <1>11, <2>2, <1>b, <1>d, ReferenceIncEffect DEF Moves
  <2>3. ASSUME NEW x \in Threads, pc'[x] \in {"dec", "fini", "remove"}, native'[obj'[x]] \in Guarded
        PROVE  registered'[kind'[obj'[x]]][native'[obj'[x]]] \in {obj'[x], NoDisplay}
    BY <1>11, <2>3, <1>b, <1>d, ReferenceIncEffect DEF Moves
  <2> QED
    BY <2>1, <2>2, <2>3 DEF KeyFree
<1>12. ASSUME NEW t \in Threads, UnreferenceDec(t) PROVE KeyFree'
  <2>1. ASSUME NEW x \in Threads,
               pc'[x] = "create", req'[x].handle \in Guarded, KindOf(x)' \in Kinds
        PROVE  registered'[KindOf(x)'][req'[x].handle] = NoDisplay
    BY <1>12, <2>1, <1>a, <1>c, UnreferenceDecEffect DEF Moves
  <2>2. ASSUME NEW x \in Threads, pc'[x] = "add", native'[obj'[x]] \in Guarded
        PROVE  registered'[kind'[obj'[x]]][native'[obj'[x]]] = NoDisplay
    BY <1>12, <2>2, <1>b, <1>d, UnreferenceDecEffect DEF Moves
  <2>3. ASSUME NEW x \in Threads, pc'[x] \in {"dec", "fini", "remove"}, native'[obj'[x]] \in Guarded
        PROVE  registered'[kind'[obj'[x]]][native'[obj'[x]]] \in {obj'[x], NoDisplay}
    BY <1>12, <2>3, <1>b, <1>d, UnreferenceDecEffect DEF Moves
  <2> QED
    BY <2>1, <2>2, <2>3 DEF KeyFree
<1>13. ASSUME NEW t \in Threads, ObjectFini(t) PROVE KeyFree'
  <2>1. ASSUME NEW x \in Threads,
               pc'[x] = "create", req'[x].handle \in Guarded, KindOf(x)' \in Kinds
        PROVE  registered'[KindOf(x)'][req'[x].handle] = NoDisplay
    BY <1>13, <2>1, <1>a, <1>c, ObjectFiniEffect DEF Moves
  <2>2. ASSUME NEW x \in Threads, pc'[x] = "add", native'[obj'[x]] \in Guarded
        PROVE  registered'[kind'[obj'[x]]][native'[obj'[x]]] = NoDisplay
    BY <1>13, <2>2, <1>b, <1>d, ObjectFiniEffect DEF Moves
  <2>3. ASSUME NEW x \in Threads, pc'[x] \in {"dec", "fini", "remove"}, native'[obj'[x]] \in Guarded
        PROVE  registered'[kind'[obj'[x]]][native'[obj'[x]]] \in {obj'[x], NoDisplay}
    BY <1>13, <2>3, <1>b, <1>d, ObjectFiniEffect DEF Moves
  <2> QED
    BY <2>1, <2>2, <2>3 DEF KeyFree
<1>14. ASSUME NEW t \in Threads, RemoveDisplay(t) PROVE KeyFree'
  <2>a. /\ UNCHANGED <<kind, native>> /\ pc'[t] = "free"
        /\ \A l \in Kinds, g \in Handles : registered'[l][g] \in {registered[l][g], NoDisplay}
        /\ \A x \in Threads \ {t} : pc'[x] = pc[x] /\ obj'[x] = obj[x] /\ req'[x] = req[x]
    BY <1>14, RemoveDisplayEffect DEF Moves
  <2>1. ASSUME NEW x \in Threads,
               pc'[x] = "create", req'[x].handle \in Guarded, KindOf(x)' \in Kinds
        PROVE  registered'[KindOf(x)'][req'[x].handle] = NoDisplay
    BY <2>1, <1>a, <1>c, <2>a, RegistryAssumption
  <2>2. ASSUME NEW x \in Threads, pc'[x] = "add", native'[obj'[x]] \in Guarded
        PROVE  registered'[kind'[obj'[x]]][native'[obj'[x]]] = NoDisplay
    BY <2>2, <1>b, <1>d, <2>a
  <2>3. ASSUME NEW x \in Threads, pc'[x] \in {"dec", "fini", "remove"}, native'[obj'[x]] \in Guarded
        PROVE  registered'[kind'[obj'[x]]][native'[obj'[x]]] \in {obj'[x], NoDisplay}
    BY <2>3, <1>b, <1>d, <2>a
  <2> QED
    BY <2>1, <2>2, <2>3 DEF KeyFree
<1>15. ASSUME NEW t \in Threads, FreeDisplay(t) PROVE KeyFree'
  <2>a. /\ registered' = registered /\ native'[obj[t]] \notin Guarded /\ pc'[t] = "idle"
        /\ \A e \in Displays \ {obj[t]} : kind'[e] = kind[e] /\ native'[e] = native[e]
        /\ \A x \in Threads \ {t} : pc'[x] = pc[x] /\ obj'[x] = obj[x] /\ req'[x] = req[x]
    BY <1>15, RegistryAssumption, FreeDisplayEffect DEF Moves
  <2>1. ASSUME NEW x \in Threads,
               pc'[x] = "create", req'[x].handle \in Guarded, KindOf(x)' \in Kinds
        PROVE  registered'[KindOf(x)'][req'[x].handle] = NoDisplay
    BY <2>1, <1>a, <1>c, <2>a
  <2>2. ASSUME NEW x \in Threads, pc'[x] = "add", native'[obj'[x]] \in Guarded
        PROVE  registered'[kind'[obj'[x]]][native'[obj'[x]]] = NoDisplay
    BY <2>2, <1>b, <1>d, <2>a
  <2>3. ASSUME NEW x \in Threads, pc'[x] \in {"dec", "fini", "remove"}, native'[obj'[x]] \in Guarded
        PROVE  registered'[kind'[obj'[x]]][native'[obj'[x]]] \in {obj'[x], NoDisplay}
    BY <2>3, <1>b, <1>d, <2>a
  <2> QED
    BY <2>1, <2>2, <2>3 DEF KeyFree
<1>16. ASSUME NEW t \in Threads, NEW u \in Threads, NEW d \in Displays, HandOver(t, u, d) PROVE KeyFree'
  <2>1. ASSUME NEW x \in Threads,
               pc'[x] = "create", req'[x].handle \in Guarded, KindOf(x)' \in Kinds
        PROVE  registered'[KindOf(x)'][req'[x].handle] = NoDisplay
    BY <1>16, <2>1, <1>a, <1>c, HandOverEffect DEF Moves
  <2>2. ASSUME NEW x \in Threads, pc'[x] = "add", native'[obj'[x]] \in Guarded
        PROVE  registered'[kind'[obj'[x]]][native'[obj'[x]]] = NoDisplay
    BY <1>16, <2>2, <1>b, <1>d, HandOverEffect DEF Moves
  <2>3. ASSUME NEW x \in Threads, pc'[x] \in {"dec", "fini", "remove"}, native'[obj'[x]] \in Guarded
        PROVE  registered'[kind'[obj'[x]]][native'[obj'[x]]] \in {obj'[x], NoDisplay}
    BY <1>16, <2>3, <1>b, <1>d, HandOverEffect DEF Moves
  <2> QED
    BY <2>1, <2>2, <2>3 DEF KeyFree
<1>17. CASE UNCHANGED vars
  BY <1>17 DEF KeyFree, KindOf, vars, objectVars, displayVars, threadVars

<1> QED
  BY <1>1, <1>2, <1>3, <1>4, <1>5, <1>6, <1>7, <1>8, <1>9,
     <1>10, <1>11, <1>12, <1>13, <1>14, <1>15, <1>16, <1>17 DEF Next, Creating, Referencing, Destroying

-----------------------------------------------------------------------------
(* The theorems                                                            *)

\* The invariant holds in the beginning.
LEMMA InitIInv == ASSUME OwnersOnly PROVE Init => IInv
<1> SUFFICES ASSUME Init PROVE IInv
  OBVIOUS
<1>1. TypeInv
  <2>1. NoRequest \in [kind : Kinds \cup {Unknown}, handle : Handles]
    BY RegistryAssumption DEF NoRequest
  <2> QED
    BY <2>1, RegistryAssumption DEF Init, TypeInv, TypeOK, ObjectTypes, RegistryTypes,
       ThreadTypes, Magic, PC, Looking, Unreferencing, Dying
<1>2. Counts
  <2>1. ASSUME NEW d \in Displays PROVE Owed(claim, d) = {}
    BY DEF Init, Owed
  <2> QED
    BY <2>1, FS_EmptySet DEF Counts, Init
<1>3. /\ \A t \in Threads : pc[t] = "idle"
      /\ \A d \in Displays : count[d] = 0
      /\ \A k \in Kinds, h \in Handles : registered[k][h] = NoDisplay
  BY DEF Init
<1>4. Alive /\ Working /\ Served
  BY <1>3 DEF Alive, Working, Served, Dying
<1>5. Exclusion /\ Listed /\ Kept /\ KeyFree
  BY <1>3 DEF Exclusion, Busy, Looking, Unreferencing, Dying, Listed, ListedIsAlive, Kept, KeyFree
<1> QED
  BY <1>1, <1>2, <1>4, <1>5 DEF IInv

\* The strengthened invariant, of which the others are parts or consequences.
THEOREM IInvHolds == ASSUME OwnersOnly PROVE Spec => []IInv
<1>1. IInv /\ [Next]_vars => IInv'
  BY TypeStep, CountsStep, AliveStep, WorkingStep, ServedStep, ExclusionStep,
     ListedStep, KeptStep, KeyFreeStep DEF IInv
<1> QED
  BY <1>1, InitIInv, PTL DEF Spec

\* If a display is referenced only by those who own it or look it up under the
\* application's lock, every variable keeps its type, in particular no reference
\* count wraps below zero (tpl_object_unreference).
THEOREM RegistryTypeCorrect == ASSUME OwnersOnly PROVE Spec => []TypeOK
<1>1. IInv => TypeOK
  BY DEF IInv, TypeInv
<1> QED
  BY <1>1, IInvHolds, PTL

\* That rule is enough for the unlocked count and the unlocked steps of
\* destruction: if it is kept, no call of tpl_object.c or tpl_display.c works on
\* a freed display and none is destroyed twice.  The library does not enforce
\* the rule, and without it a thread may reference what another one has freed.
THEOREM NoneUsedFreed == ASSUME OwnersOnly PROVE Spec => []NoUseAfterFree
<1>1. ASSUME IInv PROVE NoUseAfterFree
  <2> USE DEF IInv
  <2>1. ASSUME NEW t \in Threads,
               pc[t] \in {"add", "found", "foundInc", "refInc"} \cup Unreferencing
        PROVE  magic[obj[t]] # "none"
    <3>1. obj[t] \in Displays
      BY <2>1, <1>1 DEF TypeInv, Unreferencing, Dying
    <3> QED
      BY <1>1, <2>1, <3>1, ClaimedAlive DEF Working, Served, Alive, Unreferencing
  <2>2. ASSUME NEW t \in Threads, NEW d \in Displays, claim[t][d] > 0
        PROVE  IsValid(d)
    BY <1>1, <2>2, ClaimedAlive DEF IsValid
  <2>3. ASSUME NEW t \in Threads, NEW u \in Threads,
               pc[t] \in Dying, pc[u] \in Unreferencing, obj[t] = obj[u]
        PROVE  t = u
    <3>1. CASE pc[u] \in Dying
      BY <1>1, <2>3, <3>1 DEF Working
    <3>2. CASE pc[u] = "dec"
      <4>1. obj[u] \in Displays
        BY <1>1, <3>2 DEF TypeInv
      <4>2. count[obj[u]] = 0 /\ claim[u][obj[u]] > 0
        BY <1>1, <2>3, <3>2 DEF Working
      <4> QED
        BY <1>1, <4>1, <4>2, ClaimedAlive
    <3> QED
      BY <2>3, <3>1, <3>2 DEF Unreferencing
  <2> QED
    BY <2>1, <2>2, <2>3 DEF NoUseAfterFree
<1> QED
  BY <1>1, IInvHolds, PTL

\* Under the same rule the runtime's lists hold no pointer to a freed display, so
\* that a look-up under the runtime's mutex never returns one.
THEOREM ListedAlive == ASSUME OwnersOnly PROVE Spec => []ListedIsAlive
<1>1. IInv => ListedIsAlive
  BY DEF IInv, Listed
<1> QED
  BY <1>1, IInvHolds, PTL

\* Under the same rule, as long as somebody has a reference of it,
\* tpl_display_create and tpl_display_get find the display of a guarded handle.
THEOREM KeptListed == ASSUME OwnersOnly PROVE Spec => []KeptRegistered
<1>1. ASSUME IInv PROVE KeptRegistered
  <2> USE DEF IInv
  <2> SUFFICES ASSUME NEW d \in Displays, native[d] \in Guarded,
                      NEW t \in Threads, claim[t][d] > 0,
                      \A x \in Threads : obj[x] = d => pc[x] \notin {"add", "dec"}
               PROVE  registered[kind[d]][native[d]] = d
    BY DEF KeptRegistered
  <2>1. count[d] > 0
    BY <1>1, ClaimedAlive
  <2> QED
    BY <1>1, <2>1 DEF Kept
<1> QED
  BY <1>1, IInvHolds, PTL

\* A display in memory whose count is zero.
StaysDead == \A d \in Displays : magic[d] # "none" /\ count[d] = 0 => count'[d] = 0

\* Only a display that is alive gets a reference.
LEMMA StaysDeadStep == IInv /\ [Next]_vars => StaysDead
<1> SUFFICES ASSUME IInv, [Next]_vars PROVE StaysDead
  OBVIOUS
<1> USE DEF IInv
<1>1. ASSUME NEW t \in Threads, NEW k \in Kinds \cup {Unknown}, NEW h \in Handles, CreateFound(t, k, h) PROVE StaysDead
  BY <1>1, LookUpEffect DEF Moves, StaysDead
<1>2. ASSUME NEW t \in Threads, NEW k \in Kinds \cup {Unknown}, NEW h \in Handles, CreateMissed(t, k, h) PROVE StaysDead
  BY <1>2, CreateMissedEffect DEF Moves, StaysDead
<1>3. ASSUME NEW t \in Threads, NEW h \in Handles, DisplayGet(t, h) PROVE StaysDead
  BY <1>3, LookUpEffect DEF Moves, StaysDead
<1>4. ASSUME NEW t \in Threads, CreateRefused(t) PROVE StaysDead
  BY <1>4, CreateRefusedEffect DEF Moves, StaysDead
<1>5. ASSUME NEW t \in Threads, NewDisplay(t) PROVE StaysDead
  BY <1>5, NewDisplayEffect DEF Moves, StaysDead
<1>6. ASSUME NEW t \in Threads, AddDisplay(t) PROVE StaysDead
  BY <1>6, AddDisplayEffect DEF Moves, StaysDead
<1>7. ASSUME NEW t \in Threads, AddRefused(t) PROVE StaysDead
  BY <1>7, AddRefusedEffect DEF Moves, StaysDead
<1>8. ASSUME NEW t \in Threads, NEW d \in Displays, ReferenceCall(t, d) PROVE StaysDead
  BY <1>8, ReferenceCallEffect DEF Moves, StaysDead
<1>9. ASSUME NEW t \in Threads, NEW d \in Displays, UnreferenceCall(t, d) PROVE StaysDead
  BY <1>9, UnreferenceCallEffect DEF Moves, StaysDead
<1>10. ASSUME NEW t \in Threads, ReferenceFound(t) PROVE StaysDead
  BY <1>10, ReferenceFoundEffect DEF Moves, StaysDead
<1>11. ASSUME NEW t \in Threads, ReferenceInc(t) PROVE StaysDead
  <2>1. obj[t] \in Displays /\ \A e \in Displays \ {obj[t]} : count'[e] = count[e]
    BY <1>11, ReferenceIncEffect
  <2>2. count[obj[t]] > 0
    BY <1>11, <2>1, ReferenceIncEffect, ClaimedAlive DEF Working, Served
  <2> QED
    BY <2>1, <2>2 DEF StaysDead
<1>12. ASSUME NEW t \in Threads, UnreferenceDec(t) PROVE StaysDead
  <2>1. obj[t] \in Displays /\ \A e \in Displays \ {obj[t]} : count'[e] = count[e]
    BY <1>12, UnreferenceDecEffect
  <2>2. count[obj[t]] > 0
    BY <1>12, <2>1, UnreferenceDecEffect, ClaimedAlive DEF Working
  <2> QED
    BY <2>1, <2>2 DEF StaysDead
<1>13. ASSUME NEW t \in Threads, ObjectFini(t) PROVE StaysDead
  BY <1>13, ObjectFiniEffect DEF Moves, StaysDead
<1>14. ASSUME NEW t \in Threads, RemoveDisplay(t) PROVE StaysDead
  BY <1>14, RemoveDisplayEffect DEF Moves, StaysDead
<1>15. ASSUME NEW t \in Threads, FreeDisplay(t) PROVE StaysDead
  BY <1>15, FreeDisplayEffect DEF Moves, StaysDead
<1>16. ASSUME NEW t \in Threads, NEW u \in Threads, NEW d \in Displays, HandOver(t, u, d) PROVE StaysDead
  BY <1>16, HandOverEffect DEF Moves, StaysDead
<1>17. CASE UNCHANGED vars
  BY <1>17 DEF StaysDead, vars, objectVars, displayVars, threadVars
<1> QED
  BY <1>1, <1>2, <1>3, <1>4, <1>5, <1>6, <1>7, <1>8, <1>9,
     <1>10, <1>11, <1>12, <1>13, <1>14, <1>15, <1>16, <1>17 DEF Next, Creating, Referencing, Destroying

\* If a display is referenced only by those who own it or look it up under the
\* application's lock, its last decrement never falls between the validity check
\* and the increment of tpl_object_reference, and a display whose last reference
\* is gone stays dead.  For any other caller the code leaves that gap open.
THEOREM NoneResurrected == ASSUME OwnersOnly PROVE Spec => NoResurrection
<1>1. IInv /\ [Next]_vars => [StaysDead]_vars
  BY StaysDeadStep
<1>2. Spec => [][StaysDead]_vars
  BY <1>1, IInvHolds, PTL DEF Spec
<1> QED
  BY <1>2 DEF NoResurrection, StaysDead
=============================================================================
