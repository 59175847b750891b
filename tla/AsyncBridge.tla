----------------------------- MODULE AsyncBridge -----------------------------
(***************************************************************************)
(* What AsyncHostBridge in src/src/runtime.hpp promises to the scheduler:  *)
(* every id that Submit returns is new, and is completed once; PollOne and *)
(* WaitOne hand out each completion once.                                  *)
(***************************************************************************)
EXTENDS Naturals

VARIABLES
  asked,  \* ids that Submit has returned
  held,   \* ids completed, not handed out yet
  taken   \* ids handed out

bridge == <<asked, held, taken>>

Init == asked = {} /\ held = {} /\ taken = {}

\* Submit; the request may be completed at once, and others with it.
Submit ==
  \E id \in asked' \ asked :
    /\ id \in Nat \ {0}
    /\ asked' = asked \union {id}
    /\ held \subseteq held' /\ held' \subseteq asked' \ taken
    /\ taken' = taken

Complete ==
  /\ held \subseteq held' /\ held' \subseteq asked \ taken
  /\ asked' = asked
  /\ taken' = taken

Take ==
  \E id \in held :
    /\ held' = held \ {id}
    /\ taken' = taken \union {id}
    /\ asked' = asked

Next == Submit \/ Complete \/ Take
Spec == Init /\ [][Next]_bridge

=============================================================================
