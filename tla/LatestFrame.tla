----------------------------- MODULE LatestFrame -----------------------------
(***************************************************************************)
(* What the camera preview promises, whatever the buffers do: at most one  *)
(* frame waits, a newer one takes its place, and the screen only ever      *)
(* moves to newer frames.  Frames are numbered from 1 as they are offered. *)
(***************************************************************************)
EXTENDS Naturals

VARIABLES
  waiting,  \* the frame to be shown next, 0 for none
  showing,  \* the frame on the screen, 0 for none
  closed    \* the preview is over

vars == <<waiting, showing, closed>>

Init == waiting = 0 /\ showing = 0 /\ closed = FALSE

Offer ==
  /\ ~closed
  /\ waiting' \in Nat /\ waiting' > waiting /\ waiting' > showing
  /\ UNCHANGED <<showing, closed>>

Show ==
  /\ ~closed /\ waiting # 0
  /\ showing' = waiting /\ waiting' = 0
  /\ UNCHANGED closed

Close ==
  /\ ~closed /\ waiting = 0
  /\ closed' = TRUE /\ showing' = 0
  /\ UNCHANGED waiting

Next == Offer \/ Show \/ Close

Spec == Init /\ [][Next]_vars
=============================================================================
