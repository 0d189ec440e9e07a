----------------------------- MODULE FrameOrder -----------------------------
(***************************************************************************)
(* What a swapchain promises whoever draws into it: an image is at any     *)
(* time either the application's, or in line for the screen, or idle, and  *)
(* the frames reach the screen in the order in which they were posted,     *)
(* each of them once.  A swapchain whose buffers are another's (Forgetful) *)
(* may lose images and frames, when their queue is reset.                  *)
(***************************************************************************)
EXTENDS Naturals, Sequences, Functions

CONSTANTS Images, NoImage, Forgetful

VARIABLES
    client,     \* the images the application may draw into
    line,       \* the posted frames the screen has not seen yet
    shown       \* the last frame given to the compositor

vars == <<client, line, shown>>

Init == client = {} /\ line = <<>> /\ shown = NoImage

Take(i) ==
    /\ i \notin client \cup Range(line)
    /\ client' = client \cup {i}
    /\ UNCHANGED <<line, shown>>

Post(i) ==
    /\ i \in client
    /\ client' = client \ {i}
    /\ line' = Append(line, i)
    /\ UNCHANGED shown

Present ==
    /\ line # <<>>
    /\ shown' = Head(line)
    /\ line' = Tail(line)
    /\ UNCHANGED client

\* Some of the application's images, or some frames that follow one another.
Forget ==
    /\ Forgetful
    /\ client' \subseteq client
    /\ \E m, n \in 0..Len(line) :
          m <= n /\ line' = SubSeq(line, 1, m) \o SubSeq(line, n + 1, Len(line))
    /\ UNCHANGED shown

Next ==
    \/ Present \/ Forget
    \/ \E i \in Images : Take(i) \/ Post(i)

Spec == Init /\ [][Next]_vars
=============================================================================
