-------------------------- MODULE DisplayRegistry --------------------------
(***************************************************************************)
(* Display objects and the runtime's registry of them (tpl_object.c,       *)
(* tpl_display.c, tpl.c): creation, look-up, reference counting and        *)
(* destruction by several threads.                                         *)
(*                                                                         *)
(* The registry is one hash list per backend from native handle to         *)
(* display; the runtime's mutex covers each look-up, insertion and removal *)
(* but not the call they are part of.  The hash list itself is a function  *)
(* here: insertion refuses a key that is there, removal is by key.         *)
(*                                                                         *)
(* "claim" is the application's side: how many of a display's references   *)
(* are each thread's to give back.  For the handles in Guarded the         *)
(* application excludes create, get and unreference of one thread from     *)
(* those of the others, and references what it looked up before it lets go.*)
(* For the other handles it does not, and a display it looked up there may *)
(* be dying or freed: OwnersOnly says that it takes no reference of such a *)
(* display.                                                                *)
(***************************************************************************)
EXTENDS Integers, FiniteSets

CONSTANTS
    Threads,
    Displays,       \* addresses a tpl_display_t can have
    Handles,        \* native displays
    Default,        \* the NULL handle
    Bufmgr,         \* the tbm_bufmgr, TBM's stand-in for the NULL handle
    BackendCount,   \* TPL_BACKEND_COUNT
    TbmKinds,       \* the backends of tpl_tbm.c
    Chosen,         \* what __tpl_display_choose_backend finds for a handle
    Guarded,        \* handles whose calls the application serialises
    OwnersOnly,     \* displays of other handles are referenced by owners only
    MaxClaims,      \* references a thread holds of one display
    MayFail,        \* allocations and connections may fail
    NoDisplay

Kinds == 0 .. BackendCount - 1
Unknown == -1       \* TPL_BACKEND_UNKNOWN
NoRequest == [kind |-> Unknown, handle |-> Bufmgr]

ASSUME RegistryAssumption ==
    /\ BackendCount \in Nat \ {0}
    /\ TbmKinds \subseteq Kinds
    /\ {Default, Bufmgr} \subseteq Handles
    /\ Default # Bufmgr
    /\ Chosen \in [Handles -> Kinds \cup {Unknown}]
    /\ Guarded \subseteq Handles \ {Default, Bufmgr}
    /\ OwnersOnly \in BOOLEAN
    /\ MaxClaims \in Nat
    /\ MayFail \in BOOLEAN
    /\ NoDisplay \notin Displays

VARIABLES
    magic, count,   \* of each tpl_object_t; magic is "none" without memory
    kind, native,   \* backend.type and native_handle of each display
    registered,     \* runtime->displays
    pc, obj,        \* where each thread is, and the display it works on
    req,            \* arguments of the create or get each thread is in
    claim           \* references that are the thread's to give back

objectVars == <<magic, count>>
displayVars == <<kind, native>>
threadVars == <<pc, obj, req>>
vars == <<objectVars, displayVars, registered, threadVars, claim>>

Magic == {"none", "valid", "freed"}
Looking == {"create", "add", "found", "foundInc"}
Dying == {"fini", "remove", "free"}
Unreferencing == {"dec"} \cup Dying
PC == {"idle", "refInc"} \cup Looking \cup Unreferencing

-----------------------------------------------------------------------------
IsValid(d) == magic[d] = "valid" /\ count[d] # 0

\* The display registered for h with backend k; with any backend, the first
\* in the order of tpl_backend_type_t, if k is unknown.
Find(k, h) ==
    LET hits == {j \in Kinds : k \in {j, Unknown} /\ registered[j][h] # NoDisplay}
    IN  IF hits = {} THEN NoDisplay
        ELSE registered[CHOOSE j \in hits : \A i \in hits : j <= i][h]

\* Thread u is inside a create, get or unreference for the handle h.
Busy(u, h) ==
    \/ pc[u] \in Looking /\ req[u].handle = h
    \/ pc[u] \in Unreferencing /\ native[obj[u]] = h

\* The application's own lock around such calls.
Allowed(t, h) == h \in Guarded => \A u \in Threads \ {t} : ~Busy(u, h)

Init ==
    /\ magic = [d \in Displays |-> "none"]
    /\ count = [d \in Displays |-> 0]
    /\ kind = [d \in Displays |-> Unknown]
    /\ native = [d \in Displays |-> Default]
    /\ registered = [k \in Kinds |-> [h \in Handles |-> NoDisplay]]
    /\ pc = [t \in Threads |-> "idle"]
    /\ obj = [t \in Threads |-> NoDisplay]
    /\ req = [t \in Threads |-> NoRequest]
    /\ claim = [t \in Threads |-> [d \in Displays |-> 0]]

\* Thread t goes on in its call, which works on the display d, or ends it.
Goto(t, there, d) ==
    /\ pc' = [pc EXCEPT ![t] = there]
    /\ obj' = [obj EXCEPT ![t] = d]
    /\ UNCHANGED req

Return(t) ==
    /\ pc' = [pc EXCEPT ![t] = "idle"]
    /\ obj' = [obj EXCEPT ![t] = NoDisplay]
    /\ req' = [req EXCEPT ![t] = NoRequest]

-----------------------------------------------------------------------------
(* tpl_display_create and tpl_display_get                                  *)

\* What a look-up does when its thread returns the display it found.  The
\* library takes no reference for the caller; an application that holds its
\* own lock, or knows no better, takes one next.
Found(t, k, h) ==
    LET d == Find(k, h)
    IN  IF (OwnersOnly => h \in Guarded) /\ claim[t][d] < MaxClaims
        THEN /\ pc' = [pc EXCEPT ![t] = "found"]
             /\ obj' = [obj EXCEPT ![t] = d]
             /\ req' = [req EXCEPT ![t] = [kind |-> k, handle |-> h]]
        ELSE UNCHANGED threadVars

\* The unlocked test of runtime == NULL can only miss what the look-up would
\* miss at that moment, so the two are one step.
CreateFound(t, k, h) ==
    /\ pc[t] = "idle"
    /\ Allowed(t, h)
    /\ Find(k, h) # NoDisplay
    /\ Found(t, k, h)
    /\ UNCHANGED <<objectVars, displayVars, registered, claim>>

CreateMissed(t, k, h) ==
    /\ pc[t] = "idle"
    /\ Allowed(t, h)
    /\ Find(k, h) = NoDisplay
    /\ pc' = [pc EXCEPT ![t] = "create"]
    /\ req' = [req EXCEPT ![t] = [kind |-> k, handle |-> h]]
    /\ UNCHANGED <<objectVars, displayVars, registered, obj, claim>>

DisplayGet(t, h) ==
    /\ pc[t] = "idle"
    /\ Allowed(t, h)
    /\ IF Find(Unknown, h) = NoDisplay THEN UNCHANGED threadVars ELSE Found(t, Unknown, h)
    /\ UNCHANGED <<objectVars, displayVars, registered, claim>>

KindOf(t) == IF req[t].kind = Unknown THEN Chosen[req[t].handle] ELSE req[t].kind

\* Mutant: the object starts without a reference.
NewObject_NoReference(t, d) ==
    /\ magic[d] = "none"
    /\ magic' = [magic EXCEPT ![d] = "valid"]
    /\ claim' = [claim EXCEPT ![t][d] = 1]
    /\ UNCHANGED count

\* __tpl_object_init: a new object has one reference, the creator's.
NewObject(t, d) ==
    /\ magic[d] = "none"
    /\ magic' = [magic EXCEPT ![d] = "valid"]
    /\ count' = [count EXCEPT ![d] = 1]
    /\ claim' = [claim EXCEPT ![t][d] = 1]

\* The backends' init: TBM puts its buffer manager in the place of the NULL
\* handle, the others refuse it.
Refuses(k, h) == h = Default /\ k \notin TbmKinds
Replaced(k, h) == IF h = Default /\ k \in TbmKinds THEN Bufmgr ELSE h

\* No backend fits, or there is no memory for the display.
CreateRefused(t) ==
    /\ pc[t] = "create"
    /\ \/ KindOf(t) = Unknown
       \/ MayFail
       \/ \A d \in Displays : magic[d] # "none"
    /\ Return(t)
    /\ UNCHANGED <<objectVars, displayVars, registered, claim>>

\* Allocation, initialisation of the object and of the backend: only this
\* thread knows the display.  One whose backend is not initialised is
\* unreferenced.
NewDisplay(t) ==
    LET k == KindOf(t)
        h == req[t].handle
    IN  /\ pc[t] = "create"
        /\ k # Unknown
        /\ \E d \in Displays :
            /\ NewObject(t, d)
            /\ kind' = [kind EXCEPT ![d] = k]
            /\ \/ /\ MayFail \/ Refuses(k, h)
                  /\ native' = [native EXCEPT ![d] = h]
                  /\ Goto(t, "dec", d)
               \/ /\ ~Refuses(k, h)
                  /\ native' = [native EXCEPT ![d] = Replaced(k, h)]
                  /\ Goto(t, "add", d)
        /\ UNCHANGED registered

\* __tpl_runtime_add_display inserts the display and create returns it.
AddDisplay(t) ==
    LET d == obj[t]
    IN  /\ pc[t] = "add"
        /\ registered[kind[d]][native[d]] = NoDisplay
        /\ registered' = [registered EXCEPT ![kind[d]][native[d]] = d]
        /\ Return(t)
        /\ UNCHANGED <<objectVars, displayVars, claim>>

\* The key exists or a node cannot be allocated: the display is unreferenced.
AddRefused(t) ==
    LET d == obj[t]
    IN  /\ pc[t] = "add"
        /\ registered[kind[d]][native[d]] # NoDisplay \/ MayFail
        /\ Goto(t, "dec", d)
        /\ UNCHANGED <<objectVars, displayVars, registered, claim>>

-----------------------------------------------------------------------------
(* tpl_object_reference and tpl_object_unreference: the validity check and *)
(* the atomic update of the count are two steps.                           *)

ReferenceCall(t, d) ==
    /\ pc[t] = "idle"
    /\ claim[t][d] \in 1 .. MaxClaims - 1
    /\ IF IsValid(d) THEN Goto(t, "refInc", d) ELSE UNCHANGED threadVars
    /\ UNCHANGED <<objectVars, displayVars, registered, claim>>

ReferenceFound(t) ==
    /\ pc[t] = "found"
    /\ IF IsValid(obj[t]) THEN Goto(t, "foundInc", obj[t]) ELSE Return(t)
    /\ UNCHANGED <<objectVars, displayVars, registered, claim>>

ReferenceInc(t) ==
    /\ pc[t] \in {"refInc", "foundInc"}
    /\ count' = [count EXCEPT ![obj[t]] = @ + 1]
    /\ claim' = [claim EXCEPT ![t][obj[t]] = @ + 1]
    /\ Return(t)
    /\ UNCHANGED <<magic, displayVars, registered>>

UnreferenceCall(t, d) ==
    /\ pc[t] = "idle"
    /\ claim[t][d] > 0
    /\ Allowed(t, native[d])
    /\ IF IsValid(d) THEN Goto(t, "dec", d) ELSE UNCHANGED threadVars
    /\ UNCHANGED <<objectVars, displayVars, registered, claim>>

\* Mutant: the remaining count is compared with 1.
UnreferenceDec_Early(t) ==
    LET d == obj[t]
    IN  /\ pc[t] = "dec"
        /\ count' = [count EXCEPT ![d] = @ - 1]
        /\ claim' = [claim EXCEPT ![t][d] = @ - 1]
        /\ IF count[d] - 1 <= 1 THEN Goto(t, "fini", d) ELSE Return(t)
        /\ UNCHANGED <<magic, displayVars, registered>>

UnreferenceDec(t) ==
    LET d == obj[t]
    IN  /\ pc[t] = "dec"
        /\ count' = [count EXCEPT ![d] = @ - 1]
        /\ claim' = [claim EXCEPT ![t][d] = @ - 1]
        /\ IF count[d] = 1 THEN Goto(t, "fini", d) ELSE Return(t)
        /\ UNCHANGED <<magic, displayVars, registered>>

\* __tpl_object_fini, then the backend's fini.
ObjectFini(t) ==
    /\ pc[t] = "fini"
    /\ magic' = [magic EXCEPT ![obj[t]] = "freed"]
    /\ Goto(t, "remove", obj[t])
    /\ UNCHANGED <<count, displayVars, registered, claim>>

\* Mutant: a dying display stays in the registry.
RemoveDisplay_Not(t) ==
    /\ pc[t] = "remove"
    /\ Goto(t, "free", obj[t])
    /\ UNCHANGED <<objectVars, displayVars, registered, claim>>

\* Mutant: the handle is removed from every backend's list, as find searches
\* all of them.
RemoveDisplay_Everywhere(t) ==
    LET h == native[obj[t]]
    IN  /\ pc[t] = "remove"
        /\ registered' = [k \in Kinds |-> [registered[k] EXCEPT ![h] = NoDisplay]]
        /\ Goto(t, "free", obj[t])
        /\ UNCHANGED <<objectVars, displayVars, claim>>

\* Whatever is registered under the display's key goes, be it another display.
RemoveDisplay(t) ==
    LET d == obj[t]
    IN  /\ pc[t] = "remove"
        /\ registered' = [registered EXCEPT ![kind[d]][native[d]] = NoDisplay]
        /\ Goto(t, "free", d)
        /\ UNCHANGED <<objectVars, displayVars, claim>>

\* The memory may serve the next display; its contents mean nothing.
FreeDisplay(t) ==
    LET d == obj[t]
    IN  /\ pc[t] = "free"
        /\ magic' = [magic EXCEPT ![d] = "none"]
        /\ kind' = [kind EXCEPT ![d] = Unknown]
        /\ native' = [native EXCEPT ![d] = Default]
        /\ Return(t)
        /\ UNCHANGED <<count, registered, claim>>

\* The application gives one of its references to another thread.
HandOver(t, u, d) ==
    /\ pc[t] = "idle"
    /\ t # u
    /\ claim[t][d] > 0
    /\ claim[u][d] < MaxClaims
    /\ claim' = [claim EXCEPT ![t][d] = @ - 1, ![u][d] = @ + 1]
    /\ UNCHANGED <<objectVars, displayVars, registered, threadVars>>

-----------------------------------------------------------------------------
Creating(t) ==
    \/ \E k \in Kinds \cup {Unknown}, h \in Handles :
          CreateFound(t, k, h) \/ CreateMissed(t, k, h)
    \/ \E h \in Handles : DisplayGet(t, h)
    \/ CreateRefused(t) \/ NewDisplay(t) \/ AddDisplay(t) \/ AddRefused(t)

Referencing(t) ==
    \/ \E d \in Displays : ReferenceCall(t, d) \/ UnreferenceCall(t, d)
    \/ ReferenceFound(t) \/ ReferenceInc(t) \/ UnreferenceDec(t)

Destroying(t) == ObjectFini(t) \/ RemoveDisplay(t) \/ FreeDisplay(t)

Next ==
    \E t \in Threads :
        \/ Creating(t) \/ Referencing(t) \/ Destroying(t)
        \/ \E u \in Threads, d \in Displays : HandOver(t, u, d)

Spec == Init /\ [][Next]_vars

-----------------------------------------------------------------------------
ObjectTypes ==
    /\ magic \in [Displays -> Magic]
    /\ count \in [Displays -> Nat]
    /\ claim \in [Threads -> [Displays -> Nat]]

RegistryTypes ==
    /\ kind \in [Displays -> Kinds \cup {Unknown}]
    /\ native \in [Displays -> Handles]
    /\ registered \in [Kinds -> [Handles -> Displays \cup {NoDisplay}]]

ThreadTypes ==
    /\ pc \in [Threads -> PC]
    /\ obj \in [Threads -> Displays \cup {NoDisplay}]
    /\ req \in [Threads -> [kind : Kinds \cup {Unknown}, handle : Handles]]

TypeOK == ObjectTypes /\ RegistryTypes /\ ThreadTypes

\* Between the steps of a call the display it works on is allocated, a display
\* somebody has a reference of is alive, and only one thread destroys it (if
\* OwnersOnly: otherwise a display looked up may be freed before it is used).
NoUseAfterFree ==
    \A t \in Threads :
        /\ pc[t] \in {"add", "found", "foundInc", "refInc"} \cup Unreferencing =>
              magic[obj[t]] # "none"
        /\ \A d \in Displays : claim[t][d] > 0 => IsValid(d)
        /\ \A u \in Threads : pc[t] \in Dying /\ pc[u] \in Unreferencing
              /\ obj[t] = obj[u] => t = u

\* The registry never points to freed memory, nor, once its last reference is
\* gone, to a display that no thread is about to take out of it.
ListedIsAlive ==
    \A k \in Kinds, h \in Handles :
        LET d == registered[k][h]
        IN  d # NoDisplay =>
              /\ kind[d] = k /\ native[d] = h
              /\ \/ IsValid(d)
                 \/ \E t \in Threads : pc[t] \in {"fini", "remove"} /\ obj[t] = d

\* A display that create handed out stays registered until it is destroyed, so
\* that there is one display of a backend for a native handle and get finds
\* it - if the application serialises the calls for that handle.
KeptRegistered ==
    \A d \in Displays :
        /\ native[d] \in Guarded
        /\ \E t \in Threads : claim[t][d] > 0
        /\ \A t \in Threads : obj[t] = d => pc[t] \notin {"add", "dec"}
        => registered[kind[d]][native[d]] = d

\* A display whose last reference is gone is destroyed: nobody references it
\* again, if only owners and those who looked it up under the application's lock
\* reference it (without OwnersOnly the increment may come after the decrement
\* to zero, tpl_object.c:128 and 133).
NoResurrection ==
    [][\A d \in Displays : magic[d] # "none" /\ count[d] = 0 => count'[d] = 0]_vars

\* Unless something failed, whoever asks TBM for the default display gets it
\* ("If given NULL for native_dpy, this function will return default display").
DefaultDisplayReturned ==
    [][\A t \in Threads : pc[t] = "add" /\ req[t].handle = Default => pc'[t] # "dec"]_vars
=============================================================================
