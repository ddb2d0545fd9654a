---------------------------- MODULE PreviewQueue -----------------------------
(***************************************************************************)
(* The camera preview's three buffers (preview_queue.h) between the task   *)
(* that captures (CameraPreview::offer and finish) and the LVGL timer that *)
(* selects what is drawn (camera_preview.cpp, select).                     *)
(*                                                                         *)
(* There is no lock between them: every access to a slot's state or to     *)
(* pending_ is a step of its own.  The renderer draws the buffer it        *)
(* selected last whenever it is not selecting.  finish() takes the display *)
(* lock, so no timer runs during it, and runs the same selection itself.   *)
(*                                                                         *)
(* A frame is named by its attempt number, which offer() passes as the     *)
(* generation; its pixels are left out.                                    *)
(***************************************************************************)
EXTENDS Integers

CONSTANT Capacity  \* State::capacity: how many frames a preview may log

ASSUME PreviewConstants == Capacity \in Nat

Slots == 0..2
None == -1

VARIABLES
  slots,       \* slots_[i].state
  generation,  \* slots_[i].generation
  pending,     \* pending_
  shown,       \* displayed_
  attempts,    \* CameraPreview::State::attempts
  writer,      \* what the capturing task is doing
  cursor,      \* begin_write's slot
  old,         \* the slot publish() took out of pending_
  renderer,    \* "idle", "taken" or "freed": where take_latest() is
  next,        \* take_latest's slot
  produced, selected, replaced  \* produced_, selected_, replaced_

writer_vars == <<attempts, writer, cursor, old, produced, replaced>>
renderer_vars == <<shown, renderer, next, selected>>
vars == <<slots, generation, pending, writer_vars, renderer_vars>>

Init ==
  /\ slots = [i \in Slots |-> "free"] /\ generation = [i \in Slots |-> 0]
  /\ pending = None /\ shown = None
  /\ attempts = 0 /\ writer = "idle" /\ cursor = 0 /\ old = None
  /\ renderer = "idle" /\ next = None
  /\ produced = 0 /\ selected = 0 /\ replaced = 0

Become(i, s) == slots' = [slots EXCEPT ![i] = s]

-----------------------------------------------------------------------------
(* The capturing task: offer().                                            *)

Offer ==
  /\ writer = "idle" /\ attempts < Capacity
  /\ attempts' = attempts + 1
  /\ writer' = "scan" /\ cursor' = 0
  /\ UNCHANGED <<slots, generation, pending, old, produced, replaced, renderer_vars>>

(* Bug: a slot that waits to be shown counts as free.                      *)
BugScan ==
  /\ writer = "scan"
  /\ IF slots[cursor] \in {"free", "queued"} THEN writer' = "copy" /\ UNCHANGED cursor
     ELSE IF cursor = 2 THEN writer' = "idle" /\ UNCHANGED cursor
     ELSE cursor' = cursor + 1 /\ UNCHANGED writer
  /\ IF slots[cursor] \in {"free", "queued"} THEN Become(cursor, "writing") ELSE UNCHANGED slots
  /\ UNCHANGED <<generation, pending, attempts, old, produced, replaced, renderer_vars>>

(* begin_write(): one compare-and-exchange.  With no slot free the frame   *)
(* is dropped.                                                             *)
Scan ==
  /\ writer = "scan"
  /\ IF slots[cursor] = "free" THEN writer' = "copy" /\ UNCHANGED cursor
     ELSE IF cursor = 2 THEN writer' = "idle" /\ UNCHANGED cursor
     ELSE cursor' = cursor + 1 /\ UNCHANGED writer
  /\ IF slots[cursor] = "free" THEN Become(cursor, "writing") ELSE UNCHANGED slots
  /\ UNCHANGED <<generation, pending, attempts, old, produced, replaced, renderer_vars>>

(* The source had another size: cancel_write().                            *)
CopyFails ==
  /\ writer = "copy"
  /\ Become(cursor, "free") /\ writer' = "idle"
  /\ UNCHANGED <<generation, pending, attempts, cursor, old, produced, replaced, renderer_vars>>

(* The pixels are copied; publish() begins.                                *)
Publish ==
  /\ writer = "copy"
  /\ generation' = [generation EXCEPT ![cursor] = attempts]
  /\ Become(cursor, "queued") /\ writer' = "swap"
  /\ UNCHANGED <<pending, attempts, cursor, old, produced, replaced, renderer_vars>>

(* pending_.exchange(i)                                                    *)
Swap ==
  /\ writer = "swap"
  /\ pending' = cursor /\ old' = pending
  /\ IF pending = None THEN writer' = "idle" /\ produced' = produced + 1
     ELSE writer' = "recycle" /\ UNCHANGED produced
  /\ UNCHANGED <<slots, generation, attempts, cursor, replaced, renderer_vars>>

(* Bug: the slot just published is given back, not the one it replaced.    *)
BugRecycleNew ==
  /\ writer = "recycle"
  /\ Become(cursor, "free") /\ replaced' = replaced + 1 /\ produced' = produced + 1
  /\ writer' = "idle" /\ old' = None
  /\ UNCHANGED <<generation, pending, attempts, cursor, renderer_vars>>

Recycle ==
  /\ writer = "recycle"
  /\ Become(old, "free") /\ replaced' = replaced + 1 /\ produced' = produced + 1
  /\ writer' = "idle" /\ old' = None
  /\ UNCHANGED <<generation, pending, attempts, cursor, renderer_vars>>

-----------------------------------------------------------------------------
(* The renderer: take_latest(), by the timer or by finish().               *)

Take ==
  /\ renderer = "idle" /\ writer # "done" /\ pending # None
  /\ next' = pending /\ pending' = None /\ renderer' = "taken"
  /\ UNCHANGED <<slots, generation, writer_vars, shown, selected>>

(* Bug: what was shown before is not given back.                           *)
BugKeepShown ==
  /\ renderer = "taken" /\ renderer' = "freed"
  /\ UNCHANGED <<slots, generation, pending, writer_vars, shown, next, selected>>

FreeShown ==
  /\ renderer = "taken" /\ renderer' = "freed"
  /\ IF shown = None THEN UNCHANGED slots ELSE Become(shown, "free")
  /\ UNCHANGED <<generation, pending, writer_vars, shown, next, selected>>

Show ==
  /\ renderer = "freed" /\ renderer' = "idle"
  /\ Become(next, "displayed") /\ shown' = next /\ next' = None
  /\ selected' = selected + 1
  /\ UNCHANGED <<generation, pending, writer_vars>>

-----------------------------------------------------------------------------
(* finish(): no more timer; select() once more, then release_display().    *)

Finish ==
  /\ writer = "idle" /\ renderer = "idle"
  /\ writer' = "finish"
  /\ UNCHANGED <<slots, generation, pending, attempts, cursor, old, produced, replaced,
                 renderer_vars>>

(* Bug: what still waits is left behind.                                   *)
BugReleaseAtOnce ==
  /\ writer = "finish" /\ renderer = "idle"
  /\ IF shown = None THEN UNCHANGED slots ELSE Become(shown, "free")
  /\ shown' = None /\ writer' = "done"
  /\ UNCHANGED <<generation, pending, attempts, cursor, old, produced, replaced, renderer, next,
                 selected>>

Release ==
  /\ writer = "finish" /\ renderer = "idle" /\ pending = None
  /\ IF shown = None THEN UNCHANGED slots ELSE Become(shown, "free")
  /\ shown' = None /\ writer' = "done"
  /\ UNCHANGED <<generation, pending, attempts, cursor, old, produced, replaced, renderer, next,
                 selected>>

Render == Take \/ FreeShown \/ Show
Capture == Offer \/ Scan \/ CopyFails \/ Publish \/ Swap \/ Recycle \/ Finish \/ Release

Next == Capture \/ Render

Spec == Init /\ [][Next]_vars

-----------------------------------------------------------------------------
(* Every variable has its type.                                            *)
TypeOK ==
  /\ slots \in [Slots -> {"free", "writing", "queued", "displayed"}]
  /\ generation \in [Slots -> 0..Capacity]
  /\ pending \in Slots \cup {None} /\ shown \in Slots \cup {None}
  /\ attempts \in 0..Capacity
  /\ writer \in {"idle", "scan", "copy", "swap", "recycle", "finish", "done"}
  /\ cursor \in Slots /\ old \in Slots \cup {None}
  /\ renderer \in {"idle", "taken", "freed"} /\ next \in Slots \cup {None}
  /\ produced \in Nat /\ selected \in Nat /\ replaced \in Nat

(* What the renderer may be drawing, the slot it has in hand and the one   *)
(* it will take next are never being written ("Preview replacement must    *)
(* never change a renderer-held frame", tests/test_preview_queue.py).      *)
NoTornFrame ==
  writer = "copy" => /\ cursor # pending /\ cursor # next
                     /\ renderer # "freed" => cursor # shown

(* Three buffers are enough: an offered frame is dropped only if a         *)
(* selection is under way.  A single dropped one fails the whole baseline  *)
(* (export_results).                                                       *)
NeverStarved ==
  renderer = "idle" /\ writer \in {"idle", "scan"} => \E i \in Slots : slots[i] = "free"

(* Between two operations the counters account for every published frame:  *)
(* shown, replaced or waiting; at the end none waits.  export_results()    *)
(* reads them then.                                                        *)
EveryFrameAccounted ==
  /\ renderer = "idle" /\ writer \in {"idle", "finish", "done"} =>
       produced = selected + replaced + (IF pending = None THEN 0 ELSE 1)
  /\ writer = "done" => pending = None

(* The three slots implement the promise.  A frame waits from the exchange *)
(* that publishes it and is shown from the one that takes it.              *)
waitingFrame == IF pending = None THEN 0 ELSE generation[pending]
showingFrame == IF renderer # "idle" THEN generation[next]
                ELSE IF shown # None THEN generation[shown] ELSE 0

L == INSTANCE LatestFrame WITH
       waiting <- waitingFrame, showing <- showingFrame, closed <- (writer = "done")

ShowsLatest == L!Spec
=============================================================================
