------------------------ MODULE CameraBaselineProofs -------------------------
(***************************************************************************)
(* The preview's three slots, for a preview of any length, and the         *)
(* camera's two users, for any number of buffers, rows and JPEG records,   *)
(* and delivered frames.                                                   *)
(***************************************************************************)
EXTENDS CameraBaseline, TLAPS

-----------------------------------------------------------------------------

(* Every slot has one owner: the writer, the mailbox pending_, the writer  *)
(* again for the slot it took out of the mailbox, the renderer for the one *)
(* it took, or the screen.  While the renderer is between its two stores   *)
(* ("freed") displayed_ still names a slot that is no longer its own.      *)
inHand == IF writer \in {"copy", "swap"} THEN cursor ELSE None
onScreen == IF renderer = "freed" THEN None ELSE shown

OneOwner ==
  /\ writer = "recycle" <=> old # None
  /\ renderer = "idle" <=> next = None
  /\ \A i \in Slots :
       /\ slots[i] = "writing" <=> writer = "copy" /\ i = inHand
       /\ slots[i] = "displayed" <=> i = onScreen
       /\ slots[i] = "queued" <=> \/ writer = "swap" /\ i = inHand
                                  \/ i \in {pending, old, next}
  /\ pending # None => pending \notin {old, next}
  /\ old # None => old # next
  /\ writer = "swap" => cursor \notin {pending, old, next}

(* The preview is over only when nothing waits and nobody renders.         *)
Quiet == writer = "done" => pending = None /\ shown = None /\ renderer = "idle"

(* The counters, at every step of publish() and take_latest().             *)
Counted ==
  produced = selected + replaced + (IF pending = None THEN 0 ELSE 1)
                                 + (IF renderer = "idle" THEN 0 ELSE 1)

(* Frames are newer the later they were published.                         *)
Newer ==
  /\ pending # None => /\ generation[pending] \in 1..attempts
                       /\ generation[pending] > showingFrame
  /\ next # None => generation[next] \in 1..attempts
  /\ shown # None /\ renderer = "idle" => generation[shown] \in 1..attempts
  /\ writer \in {"scan", "copy"} =>
       /\ attempts > waitingFrame /\ attempts > showingFrame
  /\ writer = "swap" => /\ generation[cursor] = attempts
                        /\ attempts > waitingFrame /\ attempts > showingFrame

IInv == TypeOK /\ OneOwner /\ Quiet /\ Counted /\ Newer

-----------------------------------------------------------------------------
LEMMA InitIInv == Init => IInv
  BY PreviewConstants DEF Init, IInv, TypeOK, OneOwner, Quiet, Counted, Newer, inHand, onScreen,
     showingFrame, waitingFrame, Slots, None

(* Types: what is stored is a slot, a count or a state of the code.        *)
LEMMA TypeStep ==
  ASSUME IInv, [Next]_vars
  PROVE  TypeOK'
<1> USE PreviewConstants DEF IInv, TypeOK, OneOwner, Slots, None
<1>1. CASE Offer
  BY <1>1 DEF Offer, writer_vars, renderer_vars
<1>2. CASE Scan
  BY <1>2 DEF Scan, writer_vars, renderer_vars, Become
<1>3. CASE CopyFails
  BY <1>3 DEF CopyFails, writer_vars, renderer_vars, Become
<1>4. CASE Publish
  BY <1>4 DEF Publish, writer_vars, renderer_vars, Become
<1>5. CASE Swap
  BY <1>5 DEF Swap, writer_vars, renderer_vars
<1>6. CASE Recycle
  BY <1>6 DEF Recycle, writer_vars, renderer_vars, Become
<1>7. CASE Finish
  BY <1>7 DEF Finish, writer_vars, renderer_vars
<1>8. CASE Release
  BY <1>8 DEF Release, writer_vars, renderer_vars, Become
<1>9. CASE Take
  BY <1>9 DEF Take, writer_vars, renderer_vars
<1>10. CASE FreeShown
  BY <1>10 DEF FreeShown, writer_vars, renderer_vars, Become
<1>11. CASE Show
  BY <1>11 DEF Show, writer_vars, renderer_vars, Become
<1>12. CASE UNCHANGED vars
  BY <1>12 DEF vars, writer_vars, renderer_vars
<1> QED BY <1>1, <1>2, <1>3, <1>4, <1>5, <1>6, <1>7, <1>8, <1>9, <1>10, <1>11, <1>12
       DEF Next, Capture, Render

(* No step gives a slot two owners: a slot changes hands in one store or   *)
(* one exchange.                                                           *)
LEMMA OwnerStep ==
  ASSUME IInv, [Next]_vars
  PROVE  OneOwner'
<1> USE PreviewConstants DEF IInv, TypeOK, OneOwner, inHand, onScreen, Slots, None
<1>1. CASE Offer
  BY <1>1 DEF Offer, writer_vars, renderer_vars
<1>2. CASE Scan
  BY <1>2 DEF Scan, writer_vars, renderer_vars, Become
<1>3. CASE CopyFails
  BY <1>3 DEF CopyFails, writer_vars, renderer_vars, Become
<1>4. CASE Publish
  BY <1>4 DEF Publish, writer_vars, renderer_vars, Become
<1>5. CASE Swap
  BY <1>5 DEF Swap, writer_vars, renderer_vars
<1>6. CASE Recycle
  BY <1>6 DEF Recycle, writer_vars, renderer_vars, Become
<1>7. CASE Finish
  BY <1>7 DEF Finish, writer_vars, renderer_vars
<1>8. CASE Release
  BY <1>8 DEF Release, writer_vars, renderer_vars, Become
<1>9. CASE Take
  BY <1>9 DEF Take, writer_vars, renderer_vars
<1>10. CASE FreeShown
  BY <1>10 DEF FreeShown, writer_vars, renderer_vars, Become
<1>11. CASE Show
  BY <1>11 DEF Show, writer_vars, renderer_vars, Become
<1>12. CASE UNCHANGED vars
  BY <1>12 DEF vars, writer_vars, renderer_vars
<1> QED BY <1>1, <1>2, <1>3, <1>4, <1>5, <1>6, <1>7, <1>8, <1>9, <1>10, <1>11, <1>12
       DEF Next, Capture, Render

(* Nothing happens once the preview is over.                               *)
LEMMA QuietStep ==
  ASSUME IInv, [Next]_vars
  PROVE  Quiet'
<1> USE PreviewConstants DEF IInv, TypeOK, OneOwner, Quiet, Slots, None
<1>1. CASE Offer
  BY <1>1 DEF Offer, writer_vars, renderer_vars
<1>2. CASE Scan
  BY <1>2 DEF Scan, writer_vars, renderer_vars, Become
<1>3. CASE CopyFails
  BY <1>3 DEF CopyFails, writer_vars, renderer_vars, Become
<1>4. CASE Publish
  BY <1>4 DEF Publish, writer_vars, renderer_vars, Become
<1>5. CASE Swap
  BY <1>5 DEF Swap, writer_vars, renderer_vars
<1>6. CASE Recycle
  BY <1>6 DEF Recycle, writer_vars, renderer_vars, Become
<1>7. CASE Finish
  BY <1>7 DEF Finish, writer_vars, renderer_vars
<1>8. CASE Release
  BY <1>8 DEF Release, writer_vars, renderer_vars, Become
<1>9. CASE Take
  BY <1>9 DEF Take, writer_vars, renderer_vars
<1>10. CASE FreeShown
  BY <1>10 DEF FreeShown, writer_vars, renderer_vars, Become
<1>11. CASE Show
  BY <1>11 DEF Show, writer_vars, renderer_vars, Become
<1>12. CASE UNCHANGED vars
  BY <1>12 DEF vars, writer_vars, renderer_vars
<1> QED BY <1>1, <1>2, <1>3, <1>4, <1>5, <1>6, <1>7, <1>8, <1>9, <1>10, <1>11, <1>12
       DEF Next, Capture, Render

(* Each frame is counted when it reaches its end.                          *)
LEMMA CountStep ==
  ASSUME IInv, [Next]_vars
  PROVE  Counted'
<1> USE PreviewConstants DEF IInv, TypeOK, OneOwner, Counted, Slots, None
<1>1. CASE Offer
  BY <1>1 DEF Offer, writer_vars, renderer_vars
<1>2. CASE Scan
  BY <1>2 DEF Scan, writer_vars, renderer_vars, Become
<1>3. CASE CopyFails
  BY <1>3 DEF CopyFails, writer_vars, renderer_vars, Become
<1>4. CASE Publish
  BY <1>4 DEF Publish, writer_vars, renderer_vars, Become
<1>5. CASE Swap
  BY <1>5 DEF Swap, writer_vars, renderer_vars
<1>6. CASE Recycle
  BY <1>6 DEF Recycle, writer_vars, renderer_vars, Become
<1>7. CASE Finish
  BY <1>7 DEF Finish, writer_vars, renderer_vars
<1>8. CASE Release
  BY <1>8 DEF Release, writer_vars, renderer_vars, Become
<1>9. CASE Take
  BY <1>9 DEF Take, writer_vars, renderer_vars
<1>10. CASE FreeShown
  BY <1>10 DEF FreeShown, writer_vars, renderer_vars, Become
<1>11. CASE Show
  BY <1>11 DEF Show, writer_vars, renderer_vars, Become
<1>12. CASE UNCHANGED vars
  BY <1>12 DEF vars, writer_vars, renderer_vars
<1> QED BY <1>1, <1>2, <1>3, <1>4, <1>5, <1>6, <1>7, <1>8, <1>9, <1>10, <1>11, <1>12
       DEF Next, Capture, Render

(* The mailbox always holds a newer frame than the screen, and the writer  *)
(* a newer one than both.                                                  *)
LEMMA NewerStep ==
  ASSUME IInv, [Next]_vars
  PROVE  Newer'
<1> USE PreviewConstants DEF IInv, TypeOK, OneOwner, inHand, onScreen, Newer, waitingFrame,
        showingFrame, Slots, None
<1>1. CASE Offer
  BY <1>1 DEF Offer, writer_vars, renderer_vars
<1>2. CASE Scan
  BY <1>2 DEF Scan, writer_vars, renderer_vars, Become
<1>3. CASE CopyFails
  BY <1>3 DEF CopyFails, writer_vars, renderer_vars, Become
<1>4. CASE Publish
  BY <1>4 DEF Publish, writer_vars, renderer_vars, Become
<1>5. CASE Swap
  BY <1>5 DEF Swap, writer_vars, renderer_vars
<1>6. CASE Recycle
  BY <1>6 DEF Recycle, writer_vars, renderer_vars, Become
<1>7. CASE Finish
  BY <1>7 DEF Finish, writer_vars, renderer_vars
<1>8. CASE Release
  BY <1>8 DEF Release, writer_vars, renderer_vars, Become
<1>9. CASE Take
  BY <1>9 DEF Take, writer_vars, renderer_vars
<1>10. CASE FreeShown
  BY <1>10 DEF FreeShown, writer_vars, renderer_vars, Become
<1>11. CASE Show
  BY <1>11 DEF Show, writer_vars, renderer_vars, Become
<1>12. CASE UNCHANGED vars
  BY <1>12 DEF vars, writer_vars, renderer_vars
<1> QED BY <1>1, <1>2, <1>3, <1>4, <1>5, <1>6, <1>7, <1>8, <1>9, <1>10, <1>11, <1>12
       DEF Next, Capture, Render

LEMMA Inductive == Spec => []IInv
<1>1. IInv /\ [Next]_vars => IInv'
  BY TypeStep, OwnerStep, QuietStep, CountStep, NewerStep DEF IInv
<1> QED BY InitIInv, <1>1, PTL DEF Spec

-----------------------------------------------------------------------------
(* The types of the preview's variables, for a preview of any length.      *)
THEOREM TypeCorrect == Spec => []TypeOK
<1>1. IInv => TypeOK
  BY DEF IInv
<1> QED BY Inductive, <1>1, PTL

(* The capturing task never writes a buffer the renderer may be drawing or *)
(* is about to draw (begin_write against take_latest).                     *)
THEOREM FramesAreWhole == Spec => []NoTornFrame
<1>1. IInv => NoTornFrame
  BY DEF IInv, TypeOK, OneOwner, inHand, onScreen, NoTornFrame, Slots, None
<1> QED BY Inductive, <1>1, PTL

(* While nothing is being selected one of the three buffers is free: at    *)
(* most one is on the screen and one waits.                                *)
THEOREM ThreeAreEnough == Spec => []NeverStarved
<1>1. IInv => NeverStarved
  <2> SUFFICES ASSUME IInv, renderer = "idle", writer \in {"idle", "scan"}
               PROVE  \E i \in Slots : slots[i] = "free"
    BY DEF NeverStarved
  <2>1. PICK i \in Slots : i \notin {pending, shown}
    BY DEF Slots
  <2>2. slots[i] = "free"
    BY <2>1 DEF IInv, TypeOK, OneOwner, inHand, onScreen, Slots, None
  <2> QED BY <2>1, <2>2
<1> QED BY Inductive, <1>1, PTL

(* The counters export_results() reports add up.                           *)
THEOREM FramesAreAccounted == Spec => []EveryFrameAccounted
<1>1. IInv => EveryFrameAccounted
  BY DEF IInv, TypeOK, OneOwner, Quiet, Counted, EveryFrameAccounted, Slots, None
<1> QED BY Inductive, <1>1, PTL

(* The three slots implement a screen that only moves to newer frames: the *)
(* two exchanges of pending_ are the steps of the abstract preview, and    *)
(* every other store is invisible.                                         *)
THEOREM Implements == Spec => ShowsLatest
<1> USE PreviewConstants DEF waitingFrame, showingFrame, Slots, None
<1>1. Init => L!Init
  BY DEF Init, L!Init
<1>2. ASSUME IInv, [Next]_vars
      PROVE  [L!Next]_(L!vars)
  <2> USE DEF IInv, TypeOK, OneOwner, inHand, onScreen, Quiet, Newer, L!vars,
          L!Next
  <2>1. CASE Offer
    BY <1>2, <2>1 DEF Offer, renderer_vars
  <2>2. CASE Scan
    BY <1>2, <2>2 DEF Scan, renderer_vars
  <2>3. CASE CopyFails
    BY <1>2, <2>3 DEF CopyFails, renderer_vars
  <2>4. CASE Publish
    BY <1>2, <2>4 DEF Publish, renderer_vars, Become
  <2>5. CASE Swap
    BY <1>2, <2>5 DEF Swap, renderer_vars, L!Offer
  <2>6. CASE Recycle
    BY <1>2, <2>6 DEF Recycle, renderer_vars
  <2>7. CASE Finish
    BY <2>7 DEF Finish, renderer_vars
  <2>8. CASE Release
    BY <1>2, <2>8 DEF Release, L!Close
  <2>9. CASE Take
    BY <1>2, <2>9 DEF Take, writer_vars, L!Show
  <2>10. CASE FreeShown
    BY <1>2, <2>10 DEF FreeShown, writer_vars
  <2>11. CASE Show
    BY <1>2, <2>11 DEF Show, writer_vars
  <2>12. CASE UNCHANGED vars
    BY <2>12 DEF vars, writer_vars, renderer_vars
  <2> QED BY <1>2, <2>1, <2>2, <2>3, <2>4, <2>5, <2>6, <2>7, <2>8, <2>9, <2>10, <2>11, <2>12
          DEF Next, Capture, Render
<1>3. IInv /\ [Next]_vars => [L!Next]_(L!vars)
  BY <1>2
<1> QED BY Inductive, <1>1, <1>3, PTL DEF Spec, ShowsLatest, L!Spec

-----------------------------------------------------------------------------

(* The camera's variables and the records that go with them.               *)
Tasks ==
  {"open", "settle", "settled", "shot", "begin", "dequeue", "submit", "hash", "copy", "offer",
   "preview", "queue", "dispatch", "stop", "wait", "finish", "finishing", "export", "destroy",
   "join", "image", "close", "done"}

Jobs == [sequence : Nat, hash : Nat]

CameraTypes ==
  /\ queue \in Seq(Buffers) /\ ready \in Seq(Buffers) /\ filling \in 0..BufferCount
  /\ finished \in Nat /\ reused \in Nat /\ evidence \in [Buffers -> Nat]
  /\ task \in Tasks /\ before \in [finished : Nat, reused : Nat] /\ last \in Buffers
  /\ rows \in Seq(Nat) /\ stopped \in {"yes", "running", "no"} /\ stamp \in Nat
  /\ slot \in [state : {"free", "copied", "held"}, image : Nat, stamp : Jobs] /\ job \in Jobs
  /\ worker \in {"wait", "encode", "compare", "gone"} /\ session \in {"baseline", "context"}

(* Every buffer is in one place: the camera's queue, the one it is         *)
(* writing, the filled ones.                                               *)
OnePlace ==
  /\ \A i, j \in 1..Len(queue) : queue[i] = queue[j] => i = j
  /\ \A i, j \in 1..Len(ready) : ready[i] = ready[j] => i = j
  /\ \A i \in 1..Len(queue), j \in 1..Len(ready) : queue[i] # ready[j]
  /\ \A i \in 1..Len(queue) : queue[i] # filling
  /\ \A i \in 1..Len(ready) : ready[i] # filling

(* The buffer in hand, and the one that ended the epoch, are in none of    *)
(* them and hold the frame that was logged last.                           *)
InHand ==
  Loaned \/ over =>
    /\ \A i \in 1..Len(queue) : queue[i] # last
    /\ \A i \in 1..Len(ready) : ready[i] # last
    /\ last # filling /\ rows # <<>> /\ evidence[last] = rows[Len(rows)]

(* Which parts of the program run with the stream on, off or at its end.   *)
Control ==
  /\ filling = 0 => stopped = "yes"
  /\ task = "open" => /\ stopped = "yes" /\ queue = <<>> /\ ready = <<>> /\ rows = <<>>
                      /\ ~over
  /\ task \in {"begin", "dequeue", "queue", "settle", "settled", "shot", "stop"} =>
       stopped = "running"
  /\ over /\ stopped = "running" => task = "stop"
  /\ task \in {"submit", "hash", "copy", "offer", "preview"} =>
       stopped = "running" \/ (stopped = "yes" /\ over)
  /\ final_jpeg => over
  /\ session = "context" =>
       ~over /\ task \in {"open", "settle", "settled", "shot", "close", "done"}
  /\ session = "baseline" =>
       /\ task \notin {"settle", "settled", "shot"}
       /\ task = "begin" => rows = <<>>
  /\ over \in BOOLEAN /\ ok \in BOOLEAN /\ final_jpeg \in BOOLEAN

(* The owned buffer holds one frame with its own stamp, the worker has the *)
(* stamp of the buffer it holds, and nothing is left in it once the        *)
(* baseline has waited for it.                                             *)
OwnedCopy ==
  /\ task = "copy" => stamp = rows[Len(rows)]
  /\ slot.state # "free" => slot.image = slot.stamp.hash /\ slot.stamp.hash = slot.stamp.sequence
  /\ worker \in {"encode", "compare"} <=> slot.state = "held"
  /\ worker \in {"encode", "compare"} => job = slot.stamp
  /\ Concluded \/ task = "open" \/ session = "context" => slot.state = "free"

(* Where offer() is.                                                       *)
Offering ==
  /\ task \in {"open", "begin", "dequeue", "submit", "hash", "copy", "offer", "queue", "dispatch",
               "stop", "wait", "finish"} => writer = "idle"
  /\ task = "preview" => writer \in {"scan", "copy", "swap", "recycle"}
  /\ task = "finishing" => writer = "finish"

(* The preview of the row logged last is still to come.                    *)
Even == Len(rows) % 2 = 0
Owed ==
  /\ Even
  /\ \/ task \in {"submit", "hash", "copy", "offer", "preview"}
     \/ over /\ task \in {"stop", "dispatch"}

(* Every second row was published, up to the one that is still to come.    *)
Half == Len(rows) \div 2
EverySecond ==
  /\ task = "open" => produced = 0
  /\ task \in {"offer", "preview"} => Even
  /\ session = "baseline" /\ ok /\ stopped # "no" => produced = IF Owed THEN Half - 1 ELSE Half

(* Completions taken one by one, without a gap, are numbered in a row.     *)
Ordered == InOrder => \A i \in 1..Len(rows) : rows[i] = before.finished + i

(* The counters only grow, and name the completions.                       *)
Behind ==
  /\ before.finished <= finished /\ before.reused <= reused
  /\ \A b \in Buffers : evidence[b] <= finished

(* While no buffer was written twice, the completions since the snapshot   *)
(* are the last of the frames taken and waiting, one after the other; with *)
(* one of them logged first, they are all of these frames.                 *)
Measured == session = "baseline" /\ ok /\ task \notin {"open", "begin"} /\ NoneReused
Completions == finished - before.finished
Accounted ==
  Measured =>
    /\ Completions <= Len(rows) + Len(ready)
    /\ rows # <<>> /\ rows[1] > before.finished => Completions = Len(rows) + Len(ready)
    /\ \A i \in 1..Len(ready) :
         IF finished + i - Len(ready) > before.finished
         THEN evidence[ready[i]] = finished + i - Len(ready)
         ELSE evidence[ready[i]] <= before.finished

(* What wait_idle() leaves behind of a baseline that passes.               *)
Passed ==
  session = "baseline" /\ ok /\ Concluded =>
    stopped = "yes" /\ InOrder /\ NoneReused /\ rows # <<>>

(* The inductive invariant.                                                *)
CameraInv ==
  CameraTypes /\ OnePlace /\ InHand /\ Control /\ OwnedCopy /\ Offering
  /\ EverySecond /\ Ordered /\ Behind /\ Accounted /\ Passed

-----------------------------------------------------------------------------
(* What the head, the tail and an appended element of a sequence are.      *)
LEMMA Ends ==
  ASSUME NEW S, NEW s \in Seq(S), NEW e \in S
  PROVE  /\ Len(s) \in Nat
         /\ Append(s, e) \in Seq(S) /\ Len(Append(s, e)) = Len(s) + 1
         /\ Append(s, e)[Len(s) + 1] = e /\ \A i \in 1..Len(s) : Append(s, e)[i] = s[i]
         /\ s # <<>> => /\ Head(s) = s[1] /\ Head(s) \in S /\ Tail(s) \in Seq(S)
                        /\ Len(s) > 0 /\ Len(Tail(s)) = Len(s) - 1
                        /\ \A i \in 1..Len(Tail(s)) : Tail(s)[i] = s[i + 1]
OBVIOUS

(* The frame in hand is the one logged last.                               *)
LEMMA RowInHand ==
  ASSUME CameraInv, Loaned \/ over
  PROVE  /\ rows # <<>> /\ Len(rows) \in Nat \ {0} /\ rows[Len(rows)] \in Nat
         /\ Pixels(last) = rows[Len(rows)] /\ evidence[last] = rows[Len(rows)]
<1>1. rows \in Seq(Nat) /\ rows # <<>>
  BY DEF CameraInv, CameraTypes, InHand
<1>2. Len(rows) \in Nat \ {0} /\ rows[Len(rows)] \in Nat
  BY <1>1
<1> QED BY <1>1, <1>2 DEF CameraInv, InHand, Pixels

(* What is stored is a buffer, a frame or a state of the code.             *)
LEMMA TypesStep ==
  ASSUME CameraInv, [CameraNext]_camera_baseline_vars
  PROVE  CameraTypes'
<1> USE CameraConstants DEF CameraInv, CameraTypes, Tasks, Buffers, Jobs, Free, NoJob, Pixels,
        camera_vars, loop_vars, submit_vars, worker_vars, unmoved
<1>1. CASE Complete
  <2>1. filling \in Buffers /\ finished' = finished + 1
    BY <1>1 DEF Complete, Control
  <2>2. evidence' = [evidence EXCEPT ![filling] = finished + 1]
    BY <1>1 DEF Complete
  <2>3. evidence' \in [Buffers -> Nat]
    <3>1. finished + 1 \in Nat /\ evidence \in [Buffers -> Nat]
      OBVIOUS
    <3> HIDE DEF Buffers, CameraInv
    <3> QED BY <2>1, <2>2, <3>1
  <2>4. CASE queue = <<>>
    BY <1>1, <2>1, <2>3, <2>4 DEF Complete
  <2>5. CASE queue # <<>>
    <3>1. /\ Head(queue) \in Buffers /\ Tail(queue) \in Seq(Buffers)
          /\ Append(ready, filling) \in Seq(Buffers)
      BY <2>1, <2>5
    <3>2. /\ ready' = Append(ready, filling) /\ filling' = Head(queue) /\ queue' = Tail(queue)
          /\ UNCHANGED <<reused, task, before, last, rows, stopped, stamp, slot, job, worker, session>>
      BY <1>1, <2>5 DEF Complete
    <3>3. filling' \in 0..BufferCount /\ finished' \in Nat
      BY <2>1, <3>1, <3>2, SMTT(20)
    <3>4. queue' \in Seq(Buffers) /\ ready' \in Seq(Buffers)
      BY <3>1, <3>2
    <3> HIDE DEF Buffers, Tasks, Jobs
    <3> QED BY <2>3, <3>2, <3>3, <3>4
  <2> QED BY <2>4, <2>5
<1>2. CASE Open
  BY <1>2 DEF Open
<1>3. CASE OpenFails
  BY <1>3 DEF OpenFails
<1>4. CASE Close
  BY <1>4 DEF Close
<1>5. CASE TakeShot
  <2>1. Head(ready) \in Buffers /\ Tail(ready) \in Seq(Buffers)
    <3> HIDE DEF Buffers, Tasks, Jobs
    <3> QED BY <1>5, Ends DEF TakeShot
  <2>2. Append(rows, evidence[Head(ready)]) \in Seq(Nat)
    BY <2>1
  <2>3. task' \in Tasks
    BY <1>5 DEF TakeShot, AfterRow, AfterSubmit
  <2> HIDE DEF Tasks
  <2> QED BY <1>5, <2>1, <2>2, <2>3 DEF TakeShot
<1>6. CASE Settled
  BY <1>6 DEF Settled
<1>7. CASE Downsample
  BY <1>7 DEF Downsample
<1>8. CASE ShotFails
  BY <1>8 DEF ShotFails
<1>9. CASE Begin
  BY <1>9 DEF Begin, LoopHead
<1>10. CASE Fails
  BY <1>10 DEF Fails
<1>11. CASE Dequeue
  <2>1. Head(ready) \in Buffers /\ Tail(ready) \in Seq(Buffers)
    <3> HIDE DEF Buffers, Tasks, Jobs
    <3> QED BY <1>11, Ends DEF Dequeue
  <2>2. Append(rows, evidence[Head(ready)]) \in Seq(Nat)
    BY <2>1
  <2>3. task' \in Tasks
    BY <1>11 DEF Dequeue, AfterRow, AfterSubmit
  <2> HIDE DEF Tasks
  <2> QED BY <1>11, <2>1, <2>2, <2>3 DEF Dequeue
<1>12. CASE Submit
  BY <1>12 DEF Submit, AfterSubmit
<1>13. CASE SubmitFails
  BY <1>13 DEF SubmitFails, AfterSubmit
<1>14. CASE HashSource
  BY <1>14 DEF HashSource
<1>15. CASE Copy
  <2>1. slot' \in [state : {"free", "copied", "held"}, image : Nat, stamp : Jobs]
    <3>1. CASE slot.state # "free"
      BY <1>15, <3>1 DEF Copy
    <3>2. CASE slot.state = "free"
      <4>1. rows[Len(rows)] \in Nat /\ Pixels(last) \in Nat
        BY <1>15, RowInHand DEF Copy, Loaned
      <4> QED BY <1>15, <3>2, <4>1 DEF Copy
    <3> QED BY <3>1, <3>2
  <2> QED BY <1>15, <2>1 DEF Copy, AfterSubmit
<1>16. CASE OfferFrame
  BY <1>16 DEF OfferFrame
<1>17. CASE Previewing
  BY <1>17 DEF Previewing
<1>18. CASE Queue
  BY <1>18 DEF Queue
<1>19. CASE Dispatch
  BY <1>19 DEF Dispatch, LoopHead
<1>20. CASE StreamOff
  BY <1>20 DEF StreamOff
<1>21. CASE WaitIdle
  BY <1>21 DEF WaitIdle
<1>22. CASE FinishPreview
  BY <1>22 DEF FinishPreview
<1>23. CASE Export
  BY <1>23 DEF Export
<1>24. CASE Destroy
  BY <1>24 DEF Destroy
<1>25. CASE Join
  BY <1>25 DEF Join
<1>26. CASE ExportImage
  BY <1>26 DEF ExportImage
<1>27. CASE Wake
  BY <1>27 DEF Wake
<1>28. CASE Encode
  BY <1>28 DEF Encode
<1>29. CASE GiveBack
  BY <1>29 DEF GiveBack
<1>30. CASE Timer
  BY <1>30 DEF Timer
<1>31. CASE UNCHANGED camera_baseline_vars
  BY <1>31 DEF camera_baseline_vars
<1> QED BY <1>1, <1>2, <1>3, <1>4, <1>5, <1>6, <1>7, <1>8, <1>9, <1>10, <1>11, <1>12, <1>13,
           <1>14, <1>15, <1>16, <1>17, <1>18, <1>19, <1>20, <1>21, <1>22, <1>23, <1>24, <1>25,
           <1>26, <1>27, <1>28, <1>29, <1>30, <1>31 DEF CameraNext, Capturing, Worker

(* A buffer moves from one place to the next, never into two.              *)
LEMMA PlaceStep ==
  ASSUME CameraInv, [CameraNext]_camera_baseline_vars
  PROVE  OnePlace'
<1> USE DEF CameraInv, OnePlace, camera_vars, loop_vars, submit_vars, worker_vars, unmoved
<1>1. CASE Complete
  <2>1. filling \in Buffers /\ stopped # "yes"
    BY <1>1 DEF Complete, Control, Buffers, CameraTypes
  <2>2. CASE queue = <<>>
    BY <1>1, <2>2 DEF Complete
  <2>3. CASE queue # <<>>
    <3>1. ready' = Append(ready, filling) /\ filling' = Head(queue) /\ queue' = Tail(queue)
      BY <1>1, <2>3 DEF Complete
    <3>2. /\ Len(queue') = Len(queue) - 1 /\ filling' = queue[1] /\ Len(queue) \in Nat \ {0}
          /\ \A i \in 1..Len(queue') : queue'[i] = queue[i + 1]
      BY <2>3, <3>1, Ends DEF CameraTypes
    <3>3. /\ Len(ready) \in Nat /\ Len(ready') = Len(ready) + 1 /\ ready'[Len(ready) + 1] = filling
          /\ \A i \in 1..Len(ready) : ready'[i] = ready[i]
      BY <2>1, <3>1, Ends DEF CameraTypes
    <3>4. \A i, j \in 1..Len(queue') : queue'[i] = queue'[j] => i = j
      BY <3>2
    <3>5. \A i, j \in 1..Len(ready') : ready'[i] = ready'[j] => i = j
      BY <3>3
    <3>6. \A i \in 1..Len(queue'), j \in 1..Len(ready') : queue'[i] # ready'[j]
      BY <3>2, <3>3
    <3>7. \A i \in 1..Len(queue') : queue'[i] # filling'
      BY <3>2
    <3>8. \A i \in 1..Len(ready') : ready'[i] # filling'
      BY <3>2, <3>3
    <3> QED BY <3>4, <3>5, <3>6, <3>7, <3>8
  <2> QED BY <2>2, <2>3
<1>2. CASE Open
  <2>1. filling' = 1 /\ queue' = [i \in 1..BufferCount - 1 |-> i + 1] /\ ready' = <<>>
    BY <1>2 DEF Open, Control
  <2>2. Len(queue') = BufferCount - 1 /\ Len(ready') = 0
    BY <2>1, CameraConstants
  <2> QED BY <2>1, <2>2, CameraConstants
<1>3. CASE OpenFails
  BY <1>3 DEF OpenFails
<1>4. CASE Close
  BY <1>4 DEF Close
<1>5. CASE TakeShot
  <2>1. ready # <<>> /\ ready' = Tail(ready) /\ UNCHANGED <<queue, filling>>
    BY <1>5 DEF TakeShot
  <2>2. /\ Len(ready') = Len(ready) - 1 /\ Len(ready) \in Nat \ {0}
        /\ \A i \in 1..Len(ready') : ready'[i] = ready[i + 1]
    BY <2>1, Ends DEF CameraTypes
  <2> QED BY <2>1, <2>2
<1>6. CASE Settled
  <2>1. queue' = Append(queue, last) /\ UNCHANGED <<ready, filling>> /\ Loaned
    BY <1>6 DEF Settled, Loaned
  <2>2. /\ Len(queue) \in Nat /\ Len(queue') = Len(queue) + 1 /\ queue'[Len(queue) + 1] = last
        /\ \A i \in 1..Len(queue) : queue'[i] = queue[i]
    BY <2>1, Ends DEF CameraTypes
  <2> QED BY <2>1, <2>2 DEF InHand
<1>7. CASE Downsample
  BY <1>7 DEF Downsample
<1>8. CASE ShotFails
  BY <1>8 DEF ShotFails
<1>9. CASE Begin
  BY <1>9 DEF Begin, LoopHead
<1>10. CASE Fails
  BY <1>10 DEF Fails
<1>11. CASE Dequeue
  <2>1. ready # <<>> /\ ready' = Tail(ready) /\ UNCHANGED <<queue, filling>>
    BY <1>11 DEF Dequeue
  <2>2. /\ Len(ready') = Len(ready) - 1 /\ Len(ready) \in Nat \ {0}
        /\ \A i \in 1..Len(ready') : ready'[i] = ready[i + 1]
    BY <2>1, Ends DEF CameraTypes
  <2> QED BY <2>1, <2>2
<1>12. CASE Submit
  BY <1>12 DEF Submit, AfterSubmit
<1>13. CASE SubmitFails
  BY <1>13 DEF SubmitFails, AfterSubmit
<1>14. CASE HashSource
  BY <1>14 DEF HashSource
<1>15. CASE Copy
  BY <1>15 DEF Copy, AfterSubmit
<1>16. CASE OfferFrame
  BY <1>16 DEF OfferFrame
<1>17. CASE Previewing
  BY <1>17 DEF Previewing
<1>18. CASE Queue
  <2>1. queue' = Append(queue, last) /\ UNCHANGED <<ready, filling>> /\ Loaned
    BY <1>18 DEF Queue, Loaned
  <2>2. /\ Len(queue) \in Nat /\ Len(queue') = Len(queue) + 1 /\ queue'[Len(queue) + 1] = last
        /\ \A i \in 1..Len(queue) : queue'[i] = queue[i]
    BY <2>1, Ends DEF CameraTypes
  <2> QED BY <2>1, <2>2 DEF InHand
<1>19. CASE Dispatch
  BY <1>19 DEF Dispatch, LoopHead
<1>20. CASE StreamOff
  BY <1>20 DEF StreamOff
<1>21. CASE WaitIdle
  BY <1>21 DEF WaitIdle
<1>22. CASE FinishPreview
  BY <1>22 DEF FinishPreview
<1>23. CASE Export
  BY <1>23 DEF Export
<1>24. CASE Destroy
  BY <1>24 DEF Destroy
<1>25. CASE Join
  BY <1>25 DEF Join
<1>26. CASE ExportImage
  BY <1>26 DEF ExportImage
<1>27. CASE Wake
  BY <1>27 DEF Wake
<1>28. CASE Encode
  BY <1>28 DEF Encode
<1>29. CASE GiveBack
  BY <1>29 DEF GiveBack
<1>30. CASE Timer
  BY <1>30 DEF Timer
<1>31. CASE UNCHANGED camera_baseline_vars
  BY <1>31 DEF camera_baseline_vars
<1> QED BY <1>1, <1>2, <1>3, <1>4, <1>5, <1>6, <1>7, <1>8, <1>9, <1>10, <1>11, <1>12, <1>13,
           <1>14, <1>15, <1>16, <1>17, <1>18, <1>19, <1>20, <1>21, <1>22, <1>23, <1>24, <1>25,
           <1>26, <1>27, <1>28, <1>29, <1>30, <1>31 DEF CameraNext, Capturing, Worker

(* The camera is not given the buffer in hand, and does not reach the one  *)
(* that ended the epoch.                                                   *)
LEMMA HandStep ==
  ASSUME CameraInv, [CameraNext]_camera_baseline_vars
  PROVE  InHand'
<1> USE DEF CameraInv, InHand, Loaned, camera_vars, loop_vars, submit_vars, worker_vars, unmoved
<1>1. CASE Complete
  <2>1. stopped # "yes" /\ filling \in Buffers /\ UNCHANGED <<task, over, last, rows>>
    BY <1>1 DEF Complete, Control, Buffers, CameraTypes
  <2>2. SUFFICES ASSUME Loaned \/ over
                 PROVE  /\ \A i \in 1..Len(queue') : queue'[i] # last
                        /\ \A i \in 1..Len(ready') : ready'[i] # last
                        /\ last # filling' /\ evidence'[last] = rows[Len(rows)]
    BY <2>1
  <2>3. evidence'[last] = evidence[last]
    BY <1>1, <2>1, <2>2 DEF Complete, CameraTypes
  <2>4. CASE queue = <<>>
    BY <1>1, <2>2, <2>3, <2>4 DEF Complete
  <2>5. CASE queue # <<>>
    <3>1. ready' = Append(ready, filling) /\ filling' = Head(queue) /\ queue' = Tail(queue)
      BY <1>1, <2>5 DEF Complete
    <3>2. /\ Len(queue') = Len(queue) - 1 /\ filling' = queue[1] /\ Len(queue) \in Nat \ {0}
          /\ \A i \in 1..Len(queue') : queue'[i] = queue[i + 1]
      BY <2>5, <3>1, Ends DEF CameraTypes
    <3>3. /\ Len(ready) \in Nat /\ Len(ready') = Len(ready) + 1 /\ ready'[Len(ready) + 1] = filling
          /\ \A i \in 1..Len(ready) : ready'[i] = ready[i]
      BY <2>1, <3>1, Ends DEF CameraTypes
    <3>4. \A i \in 1..Len(queue') : queue'[i] # last
      BY <2>2, <3>2
    <3>5. \A i \in 1..Len(ready') : ready'[i] # last
      BY <2>2, <3>3
    <3>6. filling' # last
      BY <2>2, <3>2
    <3> QED BY <2>2, <2>3, <3>4, <3>5, <3>6
  <2> QED BY <2>4, <2>5
<1>2. CASE Open
  BY <1>2 DEF Open, Control, CameraTypes
<1>3. CASE OpenFails
  BY <1>3 DEF OpenFails
<1>4. CASE Close
  BY <1>4 DEF Close
<1>5. CASE TakeShot
  <2>1. /\ ready # <<>> /\ ready' = Tail(ready) /\ last' = Head(ready)
        /\ rows' = Append(rows, evidence[Head(ready)]) /\ UNCHANGED <<queue, filling, evidence>>
    BY <1>5 DEF TakeShot
  <2>2. /\ Len(ready') = Len(ready) - 1 /\ Len(ready) \in Nat \ {0} /\ last' = ready[1]
        /\ last' \in Buffers /\ \A i \in 1..Len(ready') : ready'[i] = ready[i + 1]
    BY <2>1, Ends DEF CameraTypes
  <2>3. evidence[last'] \in Nat
    BY <2>2 DEF CameraTypes
  <2>4. rows' # <<>> /\ rows'[Len(rows')] = evidence[last']
    BY <2>1, <2>3, Ends DEF CameraTypes
  <2> QED BY <2>1, <2>2, <2>4 DEF OnePlace
<1>6. CASE Settled
  BY <1>6 DEF Settled, Control, CameraTypes
<1>7. CASE Downsample
  BY <1>7 DEF Downsample
<1>8. CASE ShotFails
  BY <1>8 DEF ShotFails
<1>9. CASE Begin
  BY <1>9 DEF Begin, LoopHead, Control, CameraTypes
<1>10. CASE Fails
  BY <1>10 DEF Fails
<1>11. CASE Dequeue
  <2>1. /\ ready # <<>> /\ ready' = Tail(ready) /\ last' = Head(ready)
        /\ rows' = Append(rows, evidence[Head(ready)]) /\ UNCHANGED <<queue, filling, evidence>>
    BY <1>11 DEF Dequeue
  <2>2. /\ Len(ready') = Len(ready) - 1 /\ Len(ready) \in Nat \ {0} /\ last' = ready[1]
        /\ last' \in Buffers /\ \A i \in 1..Len(ready') : ready'[i] = ready[i + 1]
    BY <2>1, Ends DEF CameraTypes
  <2>3. evidence[last'] \in Nat
    BY <2>2 DEF CameraTypes
  <2>4. rows' # <<>> /\ rows'[Len(rows')] = evidence[last']
    BY <2>1, <2>3, Ends DEF CameraTypes
  <2> QED BY <2>1, <2>2, <2>4 DEF OnePlace
<1>12. CASE Submit
  BY <1>12 DEF Submit, AfterSubmit
<1>13. CASE SubmitFails
  BY <1>13 DEF SubmitFails, AfterSubmit
<1>14. CASE HashSource
  BY <1>14 DEF HashSource
<1>15. CASE Copy
  BY <1>15 DEF Copy, AfterSubmit
<1>16. CASE OfferFrame
  BY <1>16 DEF OfferFrame
<1>17. CASE Previewing
  BY <1>17 DEF Previewing
<1>18. CASE Queue
  BY <1>18 DEF Queue, Control, CameraTypes
<1>19. CASE Dispatch
  BY <1>19 DEF Dispatch, LoopHead
<1>20. CASE StreamOff
  BY <1>20 DEF StreamOff, Control, CameraTypes
<1>21. CASE WaitIdle
  BY <1>21 DEF WaitIdle
<1>22. CASE FinishPreview
  BY <1>22 DEF FinishPreview
<1>23. CASE Export
  BY <1>23 DEF Export
<1>24. CASE Destroy
  BY <1>24 DEF Destroy
<1>25. CASE Join
  BY <1>25 DEF Join
<1>26. CASE ExportImage
  BY <1>26 DEF ExportImage
<1>27. CASE Wake
  BY <1>27 DEF Wake
<1>28. CASE Encode
  BY <1>28 DEF Encode
<1>29. CASE GiveBack
  BY <1>29 DEF GiveBack
<1>30. CASE Timer
  BY <1>30 DEF Timer
<1>31. CASE UNCHANGED camera_baseline_vars
  BY <1>31 DEF camera_baseline_vars
<1> QED BY <1>1, <1>2, <1>3, <1>4, <1>5, <1>6, <1>7, <1>8, <1>9, <1>10, <1>11, <1>12, <1>13,
           <1>14, <1>15, <1>16, <1>17, <1>18, <1>19, <1>20, <1>21, <1>22, <1>23, <1>24, <1>25,
           <1>26, <1>27, <1>28, <1>29, <1>30, <1>31 DEF CameraNext, Capturing, Worker

(* Where the program is tells whether the stream runs.                     *)
LEMMA ControlStep ==
  ASSUME CameraInv, [CameraNext]_camera_baseline_vars
  PROVE  Control'
<1> USE CameraConstants DEF CameraInv, Control, CameraTypes, camera_vars, loop_vars, submit_vars,
        worker_vars, unmoved
<1>1. CASE Complete
  <2>1. filling' # 0
    <3>1. CASE queue = <<>>
      BY <1>1, <3>1 DEF Complete
    <3>2. CASE queue # <<>>
      <4>1. Head(queue) \in Buffers
        BY <3>2, Ends
      <4> QED BY <1>1, <3>2, <4>1 DEF Complete, Buffers
    <3> QED BY <3>1, <3>2
  <2>2. UNCHANGED <<task, stopped, over, ok, rows, final_jpeg, session>> /\ stopped # "yes"
    BY <1>1 DEF Complete
  <2> QED BY <2>1, <2>2
<1>2. CASE Open
  BY <1>2 DEF Open
<1>3. CASE OpenFails
  BY <1>3 DEF OpenFails
<1>4. CASE Close
  BY <1>4 DEF Close
<1>5. CASE TakeShot
  BY <1>5 DEF TakeShot
<1>6. CASE Settled
  BY <1>6 DEF Settled
<1>7. CASE Downsample
  BY <1>7 DEF Downsample
<1>8. CASE ShotFails
  BY <1>8 DEF ShotFails
<1>9. CASE Begin
  BY <1>9 DEF Begin, LoopHead
<1>10. CASE Fails
  BY <1>10 DEF Fails
<1>11. CASE Dequeue
  BY <1>11 DEF Dequeue, AfterRow, AfterSubmit
<1>12. CASE Submit
  BY <1>12 DEF Submit, AfterSubmit
<1>13. CASE SubmitFails
  BY <1>13 DEF SubmitFails, AfterSubmit
<1>14. CASE HashSource
  BY <1>14 DEF HashSource
<1>15. CASE Copy
  BY <1>15 DEF Copy, AfterSubmit
<1>16. CASE OfferFrame
  BY <1>16 DEF OfferFrame
<1>17. CASE Previewing
  BY <1>17 DEF Previewing
<1>18. CASE Queue
  BY <1>18 DEF Queue
<1>19. CASE Dispatch
  BY <1>19 DEF Dispatch, LoopHead
<1>20. CASE StreamOff
  BY <1>20 DEF StreamOff
<1>21. CASE WaitIdle
  BY <1>21 DEF WaitIdle
<1>22. CASE FinishPreview
  BY <1>22 DEF FinishPreview
<1>23. CASE Export
  BY <1>23 DEF Export
<1>24. CASE Destroy
  BY <1>24 DEF Destroy
<1>25. CASE Join
  BY <1>25 DEF Join
<1>26. CASE ExportImage
  BY <1>26 DEF ExportImage
<1>27. CASE Wake
  BY <1>27 DEF Wake
<1>28. CASE Encode
  BY <1>28 DEF Encode
<1>29. CASE GiveBack
  BY <1>29 DEF GiveBack
<1>30. CASE Timer
  BY <1>30 DEF Timer
<1>31. CASE UNCHANGED camera_baseline_vars
  BY <1>31 DEF camera_baseline_vars
<1> QED BY <1>1, <1>2, <1>3, <1>4, <1>5, <1>6, <1>7, <1>8, <1>9, <1>10, <1>11, <1>12, <1>13,
           <1>14, <1>15, <1>16, <1>17, <1>18, <1>19, <1>20, <1>21, <1>22, <1>23, <1>24, <1>25,
           <1>26, <1>27, <1>28, <1>29, <1>30, <1>31 DEF CameraNext, Capturing, Worker

(* The owned buffer is filled once for each job and emptied by the worker. *)
LEMMA CopyStep ==
  ASSUME CameraInv, [CameraNext]_camera_baseline_vars
  PROVE  OwnedCopy'
<1> USE DEF CameraInv, OwnedCopy, Concluded, Control, Free, NoJob, camera_vars, loop_vars,
        submit_vars, worker_vars, unmoved
<1>1. CASE Complete
  BY <1>1 DEF Complete
<1>2. CASE Open
  BY <1>2 DEF Open
<1>3. CASE OpenFails
  BY <1>3 DEF OpenFails
<1>4. CASE Close
  BY <1>4 DEF Close
<1>5. CASE TakeShot
  BY <1>5 DEF TakeShot
<1>6. CASE Settled
  BY <1>6 DEF Settled
<1>7. CASE Downsample
  BY <1>7 DEF Downsample, CameraTypes
<1>8. CASE ShotFails
  BY <1>8 DEF ShotFails, CameraTypes
<1>9. CASE Begin
  BY <1>9 DEF Begin, LoopHead
<1>10. CASE Fails
  BY <1>10 DEF Fails
<1>11. CASE Dequeue
  BY <1>11 DEF Dequeue, AfterRow, AfterSubmit
<1>12. CASE Submit
  BY <1>12 DEF Submit, AfterSubmit
<1>13. CASE SubmitFails
  BY <1>13 DEF SubmitFails, AfterSubmit
<1>14. CASE HashSource
  <2>1. Pixels(last) = rows[Len(rows)]
    BY <1>14, RowInHand DEF HashSource, Loaned
  <2> QED BY <1>14, <2>1 DEF HashSource, Concluded
<1>15. CASE Copy
  <2>1. task' # "copy" /\ ~(Concluded \/ task = "open" \/ session = "context")'
    BY <1>15 DEF Copy, AfterSubmit, Concluded, CameraTypes, Control
  <2>2. CASE slot.state # "free"
    BY <1>15, <2>1, <2>2 DEF Copy
  <2>3. CASE slot.state = "free"
    <3>1. /\ slot'.state = "copied" /\ slot'.image = Pixels(last)
          /\ slot'.stamp = [sequence |-> rows[Len(rows)], hash |-> stamp] /\ UNCHANGED worker
      BY <1>15, <2>3 DEF Copy
    <3>2. Pixels(last) = rows[Len(rows)] /\ stamp = rows[Len(rows)]
      BY <1>15, RowInHand DEF Copy, Loaned
    <3> QED BY <2>1, <2>3, <3>1, <3>2
  <2> QED BY <2>2, <2>3
<1>16. CASE OfferFrame
  BY <1>16 DEF OfferFrame
<1>17. CASE Previewing
  BY <1>17 DEF Previewing
<1>18. CASE Queue
  BY <1>18 DEF Queue
<1>19. CASE Dispatch
  BY <1>19 DEF Dispatch, LoopHead
<1>20. CASE StreamOff
  BY <1>20 DEF StreamOff
<1>21. CASE WaitIdle
  BY <1>21 DEF WaitIdle
<1>22. CASE FinishPreview
  BY <1>22 DEF FinishPreview
<1>23. CASE Export
  BY <1>23 DEF Export
<1>24. CASE Destroy
  BY <1>24 DEF Destroy
<1>25. CASE Join
  BY <1>25 DEF Join
<1>26. CASE ExportImage
  BY <1>26 DEF ExportImage
<1>27. CASE Wake
  BY <1>27 DEF Wake, CameraTypes
<1>28. CASE Encode
  BY <1>28 DEF Encode
<1>29. CASE GiveBack
  BY <1>29 DEF GiveBack
<1>30. CASE Timer
  BY <1>30 DEF Timer
<1>31. CASE UNCHANGED camera_baseline_vars
  BY <1>31 DEF camera_baseline_vars
<1> QED BY <1>1, <1>2, <1>3, <1>4, <1>5, <1>6, <1>7, <1>8, <1>9, <1>10, <1>11, <1>12, <1>13,
           <1>14, <1>15, <1>16, <1>17, <1>18, <1>19, <1>20, <1>21, <1>22, <1>23, <1>24, <1>25,
           <1>26, <1>27, <1>28, <1>29, <1>30, <1>31 DEF CameraNext, Capturing, Worker

(* offer() runs from its call to its return, and finish() after the last   *)
(* one.                                                                    *)
LEMMA OfferStep ==
  ASSUME CameraInv, [CameraNext]_camera_baseline_vars
  PROVE  Offering'
<1> USE DEF CameraInv, Offering, CameraTypes, Control, preview_vars, vars, writer_vars,
        renderer_vars, camera_vars, loop_vars, submit_vars, worker_vars, unmoved
<1>1. CASE Complete
  BY <1>1 DEF Complete
<1>2. CASE Open
  BY <1>2 DEF Open
<1>3. CASE OpenFails
  BY <1>3 DEF OpenFails
<1>4. CASE Close
  BY <1>4 DEF Close
<1>5. CASE TakeShot
  BY <1>5 DEF TakeShot
<1>6. CASE Settled
  BY <1>6 DEF Settled
<1>7. CASE Downsample
  BY <1>7 DEF Downsample
<1>8. CASE ShotFails
  BY <1>8 DEF ShotFails
<1>9. CASE Begin
  BY <1>9 DEF Begin, LoopHead
<1>10. CASE Fails
  BY <1>10 DEF Fails
<1>11. CASE Dequeue
  BY <1>11 DEF Dequeue, AfterRow, AfterSubmit
<1>12. CASE Submit
  BY <1>12 DEF Submit, AfterSubmit
<1>13. CASE SubmitFails
  BY <1>13 DEF SubmitFails, AfterSubmit
<1>14. CASE HashSource
  BY <1>14 DEF HashSource
<1>15. CASE Copy
  BY <1>15 DEF Copy, AfterSubmit
<1>16. CASE OfferFrame
  BY <1>16 DEF OfferFrame, Offer
<1>17. CASE Previewing
  BY <1>17 DEF Previewing, Scan, CopyFails, Publish, Swap, Recycle
<1>18. CASE Queue
  BY <1>18 DEF Queue
<1>19. CASE Dispatch
  BY <1>19 DEF Dispatch, LoopHead
<1>20. CASE StreamOff
  BY <1>20 DEF StreamOff
<1>21. CASE WaitIdle
  BY <1>21 DEF WaitIdle
<1>22. CASE FinishPreview
  BY <1>22 DEF FinishPreview, Finish, Release
<1>23. CASE Export
  BY <1>23 DEF Export
<1>24. CASE Destroy
  BY <1>24 DEF Destroy
<1>25. CASE Join
  BY <1>25 DEF Join
<1>26. CASE ExportImage
  BY <1>26 DEF ExportImage
<1>27. CASE Wake
  BY <1>27 DEF Wake
<1>28. CASE Encode
  BY <1>28 DEF Encode
<1>29. CASE GiveBack
  BY <1>29 DEF GiveBack
<1>30. CASE Timer
  BY <1>30 DEF Timer, Render, Take, FreeShown, Show
<1>31. CASE UNCHANGED camera_baseline_vars
  BY <1>31 DEF camera_baseline_vars
<1> QED BY <1>1, <1>2, <1>3, <1>4, <1>5, <1>6, <1>7, <1>8, <1>9, <1>10, <1>11, <1>12, <1>13,
           <1>14, <1>15, <1>16, <1>17, <1>18, <1>19, <1>20, <1>21, <1>22, <1>23, <1>24, <1>25,
           <1>26, <1>27, <1>28, <1>29, <1>30, <1>31 DEF CameraNext, Capturing, Worker

(* Halves of a count.                                                      *)
LEMMA Halves ==
  ASSUME NEW n \in Nat
  PROVE  /\ (n + 1) % 2 = 0 => (n + 1) \div 2 = (n \div 2) + 1
         /\ (n + 1) % 2 # 0 => (n + 1) \div 2 = n \div 2
OBVIOUS

(* Where the loop goes after a row, in terms of its parity.                *)
LEMMA AfterSubmitIs ==
  AfterSubmit(Len(rows)) =
    IF stopped # "running" THEN "dispatch" ELSE IF Even THEN "offer" ELSE "queue"
BY DEF AfterSubmit, Even

(* No row is logged, nothing is published, and what is owed stays owed.    *)
LEMMA CountStays ==
  ASSUME CameraInv, rows' = rows, produced' = produced, session' = session, ok' => ok,
         task' = "open" => task = "open", task' \in {"offer", "preview"} => Even,
         stopped' # "no" => stopped # "no" /\ (Owed' <=> Owed)
  PROVE  EverySecond'
<1>1. Half' = Half /\ Even' = Even
  BY DEF Half, Even
<1> HIDE DEF Half, Even, Owed
<1> QED BY <1>1 DEF CameraInv, EverySecond

(* offer() publishes a frame for every second row, or fails the baseline.  *)
LEMMA EverySecondStep ==
  ASSUME CameraInv, [CameraNext]_camera_baseline_vars
  PROVE  EverySecond'
<1> USE DEF CameraInv, Control, CameraTypes, Offering, preview_vars, vars, writer_vars,
        renderer_vars, camera_vars, loop_vars, submit_vars, worker_vars, unmoved
<1>1. CASE Complete
  <2>1. /\ rows' = rows /\ produced' = produced /\ session' = session /\ (ok' => ok)
        /\ task' = "open" => task = "open"
        /\ stopped' # "no" => stopped # "no"
    BY <1>1 DEF Complete
  <2>2. Even' = Even
    BY <2>1 DEF Even
  <2> HIDE DEF Even
  <2>3. stopped' # "no" => (Owed' <=> Owed)
    BY <1>1, <2>2 DEF Owed, Complete
  <2>4. task' \in {"offer", "preview"} => Even
    BY <1>1 DEF EverySecond, Complete
  <2> QED BY <2>1, <2>3, <2>4, CountStays
<1>2. CASE Open
  <2>1. /\ rows' = rows /\ produced' = produced /\ session' = session /\ (ok' => ok)
        /\ task' = "open" => task = "open"
        /\ stopped' # "no" => stopped # "no"
    BY <1>2 DEF Open
  <2>2. Even' = Even
    BY <2>1 DEF Even
  <2> HIDE DEF Even
  <2>3. stopped' # "no" => (Owed' <=> Owed)
    BY <1>2, <2>2 DEF Owed, Open
  <2>4. task' \in {"offer", "preview"} => Even
    BY <1>2 DEF EverySecond, Open
  <2> QED BY <2>1, <2>3, <2>4, CountStays
<1>3. CASE OpenFails
  <2>1. /\ rows' = rows /\ produced' = produced /\ session' = session /\ (ok' => ok)
        /\ task' = "open" => task = "open"
        /\ stopped' # "no" => stopped # "no"
    BY <1>3 DEF OpenFails
  <2>2. Even' = Even
    BY <2>1 DEF Even
  <2> HIDE DEF Even
  <2>3. stopped' # "no" => (Owed' <=> Owed)
    BY <1>3, <2>2 DEF Owed, OpenFails
  <2>4. task' \in {"offer", "preview"} => Even
    BY <1>3 DEF EverySecond, OpenFails
  <2> QED BY <2>1, <2>3, <2>4, CountStays
<1>4. CASE Close
  <2>1. task' = "done" /\ UNCHANGED <<rows, produced, session, ok, over>> /\ task = "close"
    BY <1>4 DEF Close
  <2>2. Even' = Even
    BY <2>1 DEF Even
  <2> HIDE DEF Even
  <2>3. ~Owed /\ ~Owed'
    BY <2>1 DEF Owed
  <2>4. Half' = Half
    BY <2>1 DEF Half
  <2> HIDE DEF Half, Owed
  <2>5. session = "baseline" /\ ok => stopped = "yes"
    BY <2>1 DEF Passed, Concluded
  <2> QED BY <2>1, <2>3, <2>4, <2>5 DEF EverySecond
<1>5. CASE TakeShot
  <2>1. session' = "context" /\ task' \notin {"open", "offer", "preview"}
    BY <1>5 DEF TakeShot
  <2> QED BY <2>1 DEF EverySecond
<1>6. CASE Settled
  <2>1. /\ rows' = rows /\ produced' = produced /\ session' = session /\ (ok' => ok)
        /\ task' = "open" => task = "open"
        /\ stopped' # "no" => stopped # "no"
    BY <1>6 DEF Settled
  <2>2. Even' = Even
    BY <2>1 DEF Even
  <2> HIDE DEF Even
  <2>3. stopped' # "no" => (Owed' <=> Owed)
    BY <1>6, <2>2 DEF Owed, Settled
  <2>4. task' \in {"offer", "preview"} => Even
    BY <1>6 DEF EverySecond, Settled
  <2> QED BY <2>1, <2>3, <2>4, CountStays
<1>7. CASE Downsample
  <2>1. /\ rows' = rows /\ produced' = produced /\ session' = session /\ (ok' => ok)
        /\ task' = "open" => task = "open"
        /\ stopped' # "no" => stopped # "no"
    BY <1>7 DEF Downsample
  <2>2. Even' = Even
    BY <2>1 DEF Even
  <2> HIDE DEF Even
  <2>3. stopped' # "no" => (Owed' <=> Owed)
    BY <1>7, <2>2 DEF Owed, Downsample
  <2>4. task' \in {"offer", "preview"} => Even
    BY <1>7 DEF EverySecond, Downsample
  <2> QED BY <2>1, <2>3, <2>4, CountStays
<1>8. CASE ShotFails
  <2>1. /\ rows' = rows /\ produced' = produced /\ session' = session /\ (ok' => ok)
        /\ task' = "open" => task = "open"
        /\ stopped' # "no" => stopped # "no"
    BY <1>8 DEF ShotFails
  <2>2. Even' = Even
    BY <2>1 DEF Even
  <2> HIDE DEF Even
  <2>3. stopped' # "no" => (Owed' <=> Owed)
    BY <1>8, <2>2 DEF Owed, ShotFails
  <2>4. task' \in {"offer", "preview"} => Even
    BY <1>8 DEF EverySecond, ShotFails
  <2> QED BY <2>1, <2>3, <2>4, CountStays
<1>9. CASE Begin
  <2>1. /\ rows' = rows /\ produced' = produced /\ session' = session /\ (ok' => ok)
        /\ task' = "open" => task = "open"
        /\ stopped' # "no" => stopped # "no"
    BY <1>9 DEF Begin, LoopHead
  <2>2. Even' = Even
    BY <2>1 DEF Even
  <2> HIDE DEF Even
  <2>3. stopped' # "no" => (Owed' <=> Owed)
    BY <1>9, <2>2 DEF Owed, Begin, LoopHead
  <2>4. task' \in {"offer", "preview"} => Even
    BY <1>9 DEF EverySecond, Begin, LoopHead
  <2> QED BY <2>1, <2>3, <2>4, CountStays
<1>10. CASE Fails
  <2>1. /\ rows' = rows /\ produced' = produced /\ session' = session /\ (ok' => ok)
        /\ task' = "open" => task = "open"
        /\ stopped' # "no" => stopped # "no"
    BY <1>10 DEF Fails
  <2>2. Even' = Even
    BY <2>1 DEF Even
  <2> HIDE DEF Even
  <2>3. stopped' # "no" => (Owed' <=> Owed)
    BY <1>10, <2>2 DEF Owed, Fails
  <2>4. task' \in {"offer", "preview"} => Even
    BY <1>10 DEF EverySecond, Fails
  <2> QED BY <2>1, <2>3, <2>4, CountStays
<1>11. CASE Dequeue
  <2>1. PICK end \in BOOLEAN, due \in BOOLEAN :
          over' = end /\ task' = AfterRow(end, due, Len(rows) + 1)
    BY <1>11 DEF Dequeue
  <2>2. /\ task = "dequeue" /\ stopped' = "running" /\ stopped = "running" /\ Len(rows) \in Nat
        /\ rows' = Append(rows, evidence[Head(ready)]) /\ UNCHANGED <<produced, session, ok>>
    BY <1>11 DEF Dequeue
  <2>3. evidence[Head(ready)] \in Nat
    BY <1>11, Ends DEF Dequeue
  <2>4. Len(rows') = Len(rows) + 1
    BY <2>2, <2>3, Ends
  <2>5. task' = IF end THEN "stop" ELSE IF due THEN "submit" ELSE IF Even' THEN "offer" ELSE "queue"
    BY <2>1, <2>2, <2>4 DEF AfterRow, AfterSubmit, Even
  <2>6. /\ Even' => Half' = Half + 1
        /\ ~Even' => Half' = Half
    BY <2>2, <2>4, Halves DEF Even, Half
  <2>7. Half \in Nat
    BY <2>2 DEF Half
  <2> HIDE DEF Even, Half
  <2>8. ~Owed
    BY <2>2 DEF Owed
  <2>9. Owed' <=> Even'
    <3>1. CASE Even'
      BY <2>1, <2>5, <3>1 DEF Owed
    <3>2. CASE ~Even'
      BY <3>2 DEF Owed
    <3> QED BY <3>1, <3>2
  <2> HIDE DEF Owed
  <2>10. session = "baseline" /\ ok => produced = Half
    BY <2>2, <2>8 DEF EverySecond
  <2>11. task' # "open" /\ (task' \in {"offer", "preview"} => Even')
    BY <2>5
  <2>12. session' = "baseline" /\ ok' => produced' = IF Owed' THEN Half' - 1 ELSE Half'
    BY <2>2, <2>6, <2>7, <2>9, <2>10
  <2> QED BY <2>11, <2>12 DEF EverySecond
<1>12. CASE Submit
  <2>1. /\ rows' = rows /\ produced' = produced /\ session' = session /\ (ok' => ok)
        /\ task' = "open" => task = "open"
        /\ stopped' # "no" => stopped # "no"
    BY <1>12 DEF Submit, AfterSubmit
  <2>2. Even' = Even
    BY <2>1 DEF Even
  <2> HIDE DEF Even
  <2>3. stopped' # "no" => (Owed' <=> Owed)
    BY <1>12, <2>2, AfterSubmitIs DEF Owed, Submit
  <2>4. task' \in {"offer", "preview"} => Even
    BY <1>12, AfterSubmitIs DEF EverySecond, Submit
  <2> QED BY <2>1, <2>3, <2>4, CountStays
<1>13. CASE SubmitFails
  <2>1. /\ rows' = rows /\ produced' = produced /\ session' = session /\ (ok' => ok)
        /\ task' = "open" => task = "open"
        /\ stopped' # "no" => stopped # "no"
    BY <1>13 DEF SubmitFails, AfterSubmit
  <2>2. Even' = Even
    BY <2>1 DEF Even
  <2> HIDE DEF Even
  <2>3. stopped' # "no" => (Owed' <=> Owed)
    BY <1>13, <2>2, AfterSubmitIs DEF Owed, SubmitFails
  <2>4. task' \in {"offer", "preview"} => Even
    BY <1>13, AfterSubmitIs DEF EverySecond, SubmitFails
  <2> QED BY <2>1, <2>3, <2>4, CountStays
<1>14. CASE HashSource
  <2>1. /\ rows' = rows /\ produced' = produced /\ session' = session /\ (ok' => ok)
        /\ task' = "open" => task = "open"
        /\ stopped' # "no" => stopped # "no"
    BY <1>14 DEF HashSource
  <2>2. Even' = Even
    BY <2>1 DEF Even
  <2> HIDE DEF Even
  <2>3. stopped' # "no" => (Owed' <=> Owed)
    BY <1>14, <2>2 DEF Owed, HashSource
  <2>4. task' \in {"offer", "preview"} => Even
    BY <1>14 DEF EverySecond, HashSource
  <2> QED BY <2>1, <2>3, <2>4, CountStays
<1>15. CASE Copy
  <2>1. /\ rows' = rows /\ produced' = produced /\ session' = session /\ (ok' => ok)
        /\ task' = "open" => task = "open"
        /\ stopped' # "no" => stopped # "no"
    BY <1>15 DEF Copy, AfterSubmit
  <2>2. Even' = Even
    BY <2>1 DEF Even
  <2> HIDE DEF Even
  <2>3. stopped' # "no" => (Owed' <=> Owed)
    BY <1>15, <2>2, AfterSubmitIs DEF Owed, Copy
  <2>4. task' \in {"offer", "preview"} => Even
    BY <1>15, AfterSubmitIs DEF EverySecond, Copy
  <2> QED BY <2>1, <2>3, <2>4, CountStays
<1>16. CASE OfferFrame
  <2>1. /\ rows' = rows /\ produced' = produced /\ session' = session /\ (ok' => ok)
        /\ task' = "open" => task = "open"
        /\ stopped' # "no" => stopped # "no"
    BY <1>16 DEF OfferFrame, Offer
  <2>2. Even' = Even
    BY <2>1 DEF Even
  <2> HIDE DEF Even
  <2>3. stopped' # "no" => (Owed' <=> Owed)
    BY <1>16, <2>2 DEF Owed, OfferFrame
  <2>4. task' \in {"offer", "preview"} => Even
    BY <1>16 DEF EverySecond, OfferFrame, Offer
  <2> QED BY <2>1, <2>3, <2>4, CountStays
<1>17. CASE Previewing
  <2>1. /\ task = "preview" /\ UNCHANGED <<rows, session, over, stopped>>
        /\ Scan \/ CopyFails \/ Publish \/ Swap \/ Recycle
    BY <1>17 DEF Previewing
  <2>2. Even' = Even /\ Half' = Half
    BY <2>1 DEF Even, Half
  <2>3. Half \in Nat
    BY DEF Half
  <2> HIDE DEF Even, Half
  <2>4. CASE writer' # "idle"
    <3>1. UNCHANGED <<task, ok>>
      BY <1>17, <2>4 DEF Previewing
    <3>2. produced' = produced
      BY <2>1, <2>4 DEF Scan, CopyFails, Publish, Swap, Recycle
    <3>3. Owed' <=> Owed
      BY <2>1, <2>2, <3>1 DEF Owed
    <3>4. Even
      BY <2>1 DEF EverySecond
    <3> QED BY <2>1, <3>1, <3>2, <3>3, <3>4, CountStays
  <2>5. CASE writer' = "idle"
    <3>1. (ok' => ok /\ Offered) /\ task' = IF stopped = "running" THEN "queue" ELSE "wait"
      BY <1>17, <2>5 DEF Previewing
    <3>2. CASE ~Offered
      BY <3>1, <3>2 DEF EverySecond
    <3>3. CASE Offered
      <4>1. produced' = produced + 1
        BY <2>1, <2>5, <3>3 DEF Offered, Scan, CopyFails, Publish, Swap, Recycle
      <4>2. ~Owed'
        BY <3>1 DEF Owed
      <4>3. Owed
        BY <2>1 DEF EverySecond, Owed
      <4>4. session = "baseline" /\ ok /\ stopped # "no" => produced = Half - 1
        BY <4>3 DEF EverySecond
      <4>5. session' = "baseline" /\ ok' /\ stopped' # "no" => produced' = Half'
        BY <2>1, <2>2, <2>3, <3>1, <4>1, <4>4
      <4> QED BY <3>1, <4>2, <4>5 DEF EverySecond
    <3> QED BY <3>2, <3>3
  <2> QED BY <2>4, <2>5
<1>18. CASE Queue
  <2>1. /\ rows' = rows /\ produced' = produced /\ session' = session /\ (ok' => ok)
        /\ task' = "open" => task = "open"
        /\ stopped' # "no" => stopped # "no"
    BY <1>18 DEF Queue
  <2>2. Even' = Even
    BY <2>1 DEF Even
  <2> HIDE DEF Even
  <2>3. stopped' # "no" => (Owed' <=> Owed)
    BY <1>18, <2>2 DEF Owed, Queue
  <2>4. task' \in {"offer", "preview"} => Even
    BY <1>18 DEF EverySecond, Queue
  <2> QED BY <2>1, <2>3, <2>4, CountStays
<1>19. CASE Dispatch
  <2>1. /\ rows' = rows /\ produced' = produced /\ session' = session /\ (ok' => ok)
        /\ task' = "open" => task = "open"
        /\ stopped' # "no" => stopped # "no"
    BY <1>19 DEF Dispatch, LoopHead
  <2>2. Even' = Even
    BY <2>1 DEF Even
  <2> HIDE DEF Even
  <2>3. stopped' # "no" => (Owed' <=> Owed)
    BY <1>19, <2>2 DEF Owed, Even, Dispatch, LoopHead
  <2>4. task' \in {"offer", "preview"} => Even
    BY <1>19 DEF EverySecond, Dispatch, LoopHead, Even
  <2> QED BY <2>1, <2>3, <2>4, CountStays
<1>20. CASE StreamOff
  <2>1. /\ rows' = rows /\ produced' = produced /\ session' = session /\ (ok' => ok)
        /\ task' = "open" => task = "open"
        /\ stopped' # "no" => stopped # "no"
    BY <1>20 DEF StreamOff
  <2>2. Even' = Even
    BY <2>1 DEF Even
  <2> HIDE DEF Even
  <2>3. stopped' # "no" => (Owed' <=> Owed)
    BY <1>20, <2>2 DEF Owed, StreamOff
  <2>4. task' \in {"offer", "preview"} => Even
    BY <1>20 DEF EverySecond, StreamOff
  <2> QED BY <2>1, <2>3, <2>4, CountStays
<1>21. CASE WaitIdle
  <2>1. /\ rows' = rows /\ produced' = produced /\ session' = session /\ (ok' => ok)
        /\ task' = "open" => task = "open"
        /\ stopped' # "no" => stopped # "no"
    BY <1>21 DEF WaitIdle
  <2>2. Even' = Even
    BY <2>1 DEF Even
  <2> HIDE DEF Even
  <2>3. stopped' # "no" => (Owed' <=> Owed)
    BY <1>21, <2>2 DEF Owed, WaitIdle
  <2>4. task' \in {"offer", "preview"} => Even
    BY <1>21 DEF EverySecond, WaitIdle
  <2> QED BY <2>1, <2>3, <2>4, CountStays
<1>22. CASE FinishPreview
  <2>1. /\ rows' = rows /\ produced' = produced /\ session' = session /\ (ok' => ok)
        /\ task' = "open" => task = "open"
        /\ stopped' # "no" => stopped # "no"
    BY <1>22 DEF FinishPreview, Finish, Release
  <2>2. Even' = Even
    BY <2>1 DEF Even
  <2> HIDE DEF Even
  <2>3. stopped' # "no" => (Owed' <=> Owed)
    BY <1>22, <2>2 DEF Owed, FinishPreview
  <2>4. task' \in {"offer", "preview"} => Even
    BY <1>22 DEF EverySecond, FinishPreview, Finish, Release
  <2> QED BY <2>1, <2>3, <2>4, CountStays
<1>23. CASE Export
  <2>1. /\ rows' = rows /\ produced' = produced /\ session' = session /\ (ok' => ok)
        /\ task' = "open" => task = "open"
        /\ stopped' # "no" => stopped # "no"
    BY <1>23 DEF Export
  <2>2. Even' = Even
    BY <2>1 DEF Even
  <2> HIDE DEF Even
  <2>3. stopped' # "no" => (Owed' <=> Owed)
    BY <1>23, <2>2 DEF Owed, Export
  <2>4. task' \in {"offer", "preview"} => Even
    BY <1>23 DEF EverySecond, Export
  <2> QED BY <2>1, <2>3, <2>4, CountStays
<1>24. CASE Destroy
  <2>1. /\ rows' = rows /\ produced' = produced /\ session' = session /\ (ok' => ok)
        /\ task' = "open" => task = "open"
        /\ stopped' # "no" => stopped # "no"
    BY <1>24 DEF Destroy
  <2>2. Even' = Even
    BY <2>1 DEF Even
  <2> HIDE DEF Even
  <2>3. stopped' # "no" => (Owed' <=> Owed)
    BY <1>24, <2>2 DEF Owed, Destroy
  <2>4. task' \in {"offer", "preview"} => Even
    BY <1>24 DEF EverySecond, Destroy
  <2> QED BY <2>1, <2>3, <2>4, CountStays
<1>25. CASE Join
  <2>1. /\ rows' = rows /\ produced' = produced /\ session' = session /\ (ok' => ok)
        /\ task' = "open" => task = "open"
        /\ stopped' # "no" => stopped # "no"
    BY <1>25 DEF Join
  <2>2. Even' = Even
    BY <2>1 DEF Even
  <2> HIDE DEF Even
  <2>3. stopped' # "no" => (Owed' <=> Owed)
    BY <1>25, <2>2 DEF Owed, Join
  <2>4. task' \in {"offer", "preview"} => Even
    BY <1>25 DEF EverySecond, Join
  <2> QED BY <2>1, <2>3, <2>4, CountStays
<1>26. CASE ExportImage
  <2>1. /\ rows' = rows /\ produced' = produced /\ session' = session /\ (ok' => ok)
        /\ task' = "open" => task = "open"
        /\ stopped' # "no" => stopped # "no"
    BY <1>26 DEF ExportImage
  <2>2. Even' = Even
    BY <2>1 DEF Even
  <2> HIDE DEF Even
  <2>3. stopped' # "no" => (Owed' <=> Owed)
    BY <1>26, <2>2 DEF Owed, ExportImage
  <2>4. task' \in {"offer", "preview"} => Even
    BY <1>26 DEF EverySecond, ExportImage
  <2> QED BY <2>1, <2>3, <2>4, CountStays
<1>27. CASE Wake
  <2>1. /\ rows' = rows /\ produced' = produced /\ session' = session /\ (ok' => ok)
        /\ task' = "open" => task = "open"
        /\ stopped' # "no" => stopped # "no"
    BY <1>27 DEF Wake
  <2>2. Even' = Even
    BY <2>1 DEF Even
  <2> HIDE DEF Even
  <2>3. stopped' # "no" => (Owed' <=> Owed)
    BY <1>27, <2>2 DEF Owed, Wake
  <2>4. task' \in {"offer", "preview"} => Even
    BY <1>27 DEF EverySecond, Wake
  <2> QED BY <2>1, <2>3, <2>4, CountStays
<1>28. CASE Encode
  <2>1. /\ rows' = rows /\ produced' = produced /\ session' = session /\ (ok' => ok)
        /\ task' = "open" => task = "open"
        /\ stopped' # "no" => stopped # "no"
    BY <1>28 DEF Encode
  <2>2. Even' = Even
    BY <2>1 DEF Even
  <2> HIDE DEF Even
  <2>3. stopped' # "no" => (Owed' <=> Owed)
    BY <1>28, <2>2 DEF Owed, Encode
  <2>4. task' \in {"offer", "preview"} => Even
    BY <1>28 DEF EverySecond, Encode
  <2> QED BY <2>1, <2>3, <2>4, CountStays
<1>29. CASE GiveBack
  <2>1. /\ rows' = rows /\ produced' = produced /\ session' = session /\ (ok' => ok)
        /\ task' = "open" => task = "open"
        /\ stopped' # "no" => stopped # "no"
    BY <1>29 DEF GiveBack
  <2>2. Even' = Even
    BY <2>1 DEF Even
  <2> HIDE DEF Even
  <2>3. stopped' # "no" => (Owed' <=> Owed)
    BY <1>29, <2>2 DEF Owed, GiveBack
  <2>4. task' \in {"offer", "preview"} => Even
    BY <1>29 DEF EverySecond, GiveBack
  <2> QED BY <2>1, <2>3, <2>4, CountStays
<1>30. CASE Timer
  <2>1. /\ rows' = rows /\ produced' = produced /\ session' = session /\ (ok' => ok)
        /\ task' = "open" => task = "open"
        /\ stopped' # "no" => stopped # "no"
    BY <1>30 DEF Timer, Render, Take, FreeShown, Show
  <2>2. Even' = Even
    BY <2>1 DEF Even
  <2> HIDE DEF Even
  <2>3. stopped' # "no" => (Owed' <=> Owed)
    BY <1>30, <2>2 DEF Owed, Timer
  <2>4. task' \in {"offer", "preview"} => Even
    BY <1>30 DEF EverySecond, Timer, Render, Take, FreeShown, Show
  <2> QED BY <2>1, <2>3, <2>4, CountStays
<1>31. CASE UNCHANGED camera_baseline_vars
  <2>1. /\ rows' = rows /\ produced' = produced /\ session' = session /\ (ok' => ok)
        /\ task' = "open" => task = "open"
        /\ stopped' # "no" => stopped # "no"
    BY <1>31 DEF camera_baseline_vars
  <2>2. Even' = Even
    BY <2>1 DEF Even
  <2> HIDE DEF Even
  <2>3. stopped' # "no" => (Owed' <=> Owed)
    BY <1>31, <2>2 DEF Owed, camera_baseline_vars
  <2>4. task' \in {"offer", "preview"} => Even
    BY <1>31 DEF EverySecond, camera_baseline_vars
  <2> QED BY <2>1, <2>3, <2>4, CountStays
<1> QED BY <1>1, <1>2, <1>3, <1>4, <1>5, <1>6, <1>7, <1>8, <1>9, <1>10, <1>11, <1>12, <1>13,
           <1>14, <1>15, <1>16, <1>17, <1>18, <1>19, <1>20, <1>21, <1>22, <1>23, <1>24, <1>25,
           <1>26, <1>27, <1>28, <1>29, <1>30, <1>31 DEF CameraNext, Capturing, Worker

(* A frame logged after the others extends their order, or breaks it.      *)
LEMMA OrderGrows ==
  ASSUME CameraInv, NEW f \in Nat, rows' = Append(rows, f), before' = before
  PROVE  Ordered'
<1>1. /\ Len(rows) \in Nat /\ Len(rows') = Len(rows) + 1 /\ rows'[Len(rows) + 1] = f
      /\ rows \in Seq(Nat) /\ rows' \in Seq(Nat) /\ before.finished \in Nat
      /\ \A i \in 1..Len(rows) : rows'[i] = rows[i]
  BY Ends DEF CameraInv, CameraTypes
<1>2. DOMAIN rows = 1..Len(rows) /\ DOMAIN rows' = 1..Len(rows')
  BY <1>1
<1>3. SUFFICES ASSUME InOrder'
               PROVE  \A i \in 1..Len(rows') : rows'[i] = before.finished + i
  BY DEF Ordered
<1>4. \A i \in 1..Len(rows') :
        rows'[i] = 1 + (IF i = 1 THEN before.finished ELSE rows'[i - 1])
  BY <1>2, <1>3 DEF InOrder
<1>5. InOrder
  <2> SUFFICES ASSUME NEW i \in 1..Len(rows)
               PROVE  rows[i] = 1 + (IF i = 1 THEN before.finished ELSE rows[i - 1])
    BY <1>2 DEF InOrder
  <2> QED BY <1>1, <1>4
<1>6. \A i \in 1..Len(rows) : rows[i] = before.finished + i
  BY <1>5 DEF CameraInv, Ordered
<1>7. rows'[Len(rows')] = before.finished + Len(rows')
  <2>1. CASE Len(rows) = 0
    BY <1>1, <1>4, <2>1
  <2>2. CASE Len(rows) > 0
    <3>1. Len(rows) \in 1..Len(rows) /\ Len(rows') \in 1..Len(rows') /\ Len(rows') # 1
      BY <1>1, <2>2
    <3>2. rows'[Len(rows')] = 1 + rows'[Len(rows') - 1]
      BY <1>4, <3>1
    <3>3. rows'[Len(rows') - 1] = before.finished + Len(rows)
      BY <1>1, <1>6, <3>1
    <3> QED BY <1>1, <3>2, <3>3
  <2> QED BY <1>1, <2>1, <2>2
<1> QED BY <1>1, <1>6, <1>7

(* The order of the completions is a property of each pair of rows.        *)
LEMMA OrderStep ==
  ASSUME CameraInv, [CameraNext]_camera_baseline_vars
  PROVE  Ordered'
<1> USE DEF CameraInv, camera_vars, loop_vars, submit_vars, worker_vars, unmoved
<1>1. CASE Complete
  <2>1. UNCHANGED <<rows, before>>
    BY <1>1 DEF Complete
  <2> QED BY <2>1 DEF Ordered, InOrder
<1>2. CASE Open
  <2>1. UNCHANGED <<rows, before>>
    BY <1>2 DEF Open
  <2> QED BY <2>1 DEF Ordered, InOrder
<1>3. CASE OpenFails
  <2>1. UNCHANGED <<rows, before>>
    BY <1>3 DEF OpenFails
  <2> QED BY <2>1 DEF Ordered, InOrder
<1>4. CASE Close
  <2>1. UNCHANGED <<rows, before>>
    BY <1>4 DEF Close
  <2> QED BY <2>1 DEF Ordered, InOrder
<1>5. CASE TakeShot
  <2>1. evidence[Head(ready)] \in Nat
    BY <1>5, Ends DEF TakeShot, CameraTypes
  <2> QED BY <1>5, <2>1, OrderGrows DEF TakeShot
<1>6. CASE Settled
  <2>1. UNCHANGED <<rows, before>>
    BY <1>6 DEF Settled
  <2> QED BY <2>1 DEF Ordered, InOrder
<1>7. CASE Downsample
  <2>1. UNCHANGED <<rows, before>>
    BY <1>7 DEF Downsample
  <2> QED BY <2>1 DEF Ordered, InOrder
<1>8. CASE ShotFails
  <2>1. UNCHANGED <<rows, before>>
    BY <1>8 DEF ShotFails
  <2> QED BY <2>1 DEF Ordered, InOrder
<1>9. CASE Begin
  <2>1. rows = <<>> /\ rows' = <<>>
    BY <1>9 DEF Begin, Control, CameraTypes
  <2> QED BY <2>1 DEF Ordered
<1>10. CASE Fails
  <2>1. UNCHANGED <<rows, before>>
    BY <1>10 DEF Fails
  <2> QED BY <2>1 DEF Ordered, InOrder
<1>11. CASE Dequeue
  <2>1. evidence[Head(ready)] \in Nat
    BY <1>11, Ends DEF Dequeue, CameraTypes
  <2> QED BY <1>11, <2>1, OrderGrows DEF Dequeue
<1>12. CASE Submit
  <2>1. UNCHANGED <<rows, before>>
    BY <1>12 DEF Submit, AfterSubmit
  <2> QED BY <2>1 DEF Ordered, InOrder
<1>13. CASE SubmitFails
  <2>1. UNCHANGED <<rows, before>>
    BY <1>13 DEF SubmitFails, AfterSubmit
  <2> QED BY <2>1 DEF Ordered, InOrder
<1>14. CASE HashSource
  <2>1. UNCHANGED <<rows, before>>
    BY <1>14 DEF HashSource
  <2> QED BY <2>1 DEF Ordered, InOrder
<1>15. CASE Copy
  <2>1. UNCHANGED <<rows, before>>
    BY <1>15 DEF Copy, AfterSubmit
  <2> QED BY <2>1 DEF Ordered, InOrder
<1>16. CASE OfferFrame
  <2>1. UNCHANGED <<rows, before>>
    BY <1>16 DEF OfferFrame
  <2> QED BY <2>1 DEF Ordered, InOrder
<1>17. CASE Previewing
  <2>1. UNCHANGED <<rows, before>>
    BY <1>17 DEF Previewing
  <2> QED BY <2>1 DEF Ordered, InOrder
<1>18. CASE Queue
  <2>1. UNCHANGED <<rows, before>>
    BY <1>18 DEF Queue
  <2> QED BY <2>1 DEF Ordered, InOrder
<1>19. CASE Dispatch
  <2>1. UNCHANGED <<rows, before>>
    BY <1>19 DEF Dispatch, LoopHead
  <2> QED BY <2>1 DEF Ordered, InOrder
<1>20. CASE StreamOff
  <2>1. UNCHANGED <<rows, before>>
    BY <1>20 DEF StreamOff
  <2> QED BY <2>1 DEF Ordered, InOrder
<1>21. CASE WaitIdle
  <2>1. UNCHANGED <<rows, before>>
    BY <1>21 DEF WaitIdle
  <2> QED BY <2>1 DEF Ordered, InOrder
<1>22. CASE FinishPreview
  <2>1. UNCHANGED <<rows, before>>
    BY <1>22 DEF FinishPreview
  <2> QED BY <2>1 DEF Ordered, InOrder
<1>23. CASE Export
  <2>1. UNCHANGED <<rows, before>>
    BY <1>23 DEF Export
  <2> QED BY <2>1 DEF Ordered, InOrder
<1>24. CASE Destroy
  <2>1. UNCHANGED <<rows, before>>
    BY <1>24 DEF Destroy
  <2> QED BY <2>1 DEF Ordered, InOrder
<1>25. CASE Join
  <2>1. UNCHANGED <<rows, before>>
    BY <1>25 DEF Join
  <2> QED BY <2>1 DEF Ordered, InOrder
<1>26. CASE ExportImage
  <2>1. UNCHANGED <<rows, before>>
    BY <1>26 DEF ExportImage
  <2> QED BY <2>1 DEF Ordered, InOrder
<1>27. CASE Wake
  <2>1. UNCHANGED <<rows, before>>
    BY <1>27 DEF Wake
  <2> QED BY <2>1 DEF Ordered, InOrder
<1>28. CASE Encode
  <2>1. UNCHANGED <<rows, before>>
    BY <1>28 DEF Encode
  <2> QED BY <2>1 DEF Ordered, InOrder
<1>29. CASE GiveBack
  <2>1. UNCHANGED <<rows, before>>
    BY <1>29 DEF GiveBack
  <2> QED BY <2>1 DEF Ordered, InOrder
<1>30. CASE Timer
  <2>1. UNCHANGED <<rows, before>>
    BY <1>30 DEF Timer
  <2> QED BY <2>1 DEF Ordered, InOrder
<1>31. CASE UNCHANGED camera_baseline_vars
  <2>1. UNCHANGED <<rows, before>>
    BY <1>31 DEF camera_baseline_vars
  <2> QED BY <2>1 DEF Ordered, InOrder
<1> QED BY <1>1, <1>2, <1>3, <1>4, <1>5, <1>6, <1>7, <1>8, <1>9, <1>10, <1>11, <1>12, <1>13,
           <1>14, <1>15, <1>16, <1>17, <1>18, <1>19, <1>20, <1>21, <1>22, <1>23, <1>24, <1>25,
           <1>26, <1>27, <1>28, <1>29, <1>30, <1>31 DEF CameraNext, Capturing, Worker

(* A step that neither completes, takes nor measures leaves the account.   *)
LEMMA AccountStays ==
  ASSUME CameraInv, UNCHANGED <<ready, evidence, finished, reused, before, rows, session>>,
         session = "baseline" /\ ok' => ok /\ (task \in {"open", "begin"} => task' \in {"open", "begin"})
  PROVE  Behind' /\ Accounted'
  BY DEF CameraInv, Behind, Accounted, Measured, Completions, NoneReused

(* A completion is appended to the filled ones or written over; the one    *)
(* taken first says whether any before the snapshot was still waiting.     *)
LEMMA AccountStep ==
  ASSUME CameraInv, [CameraNext]_camera_baseline_vars
  PROVE  Behind' /\ Accounted'
<1> USE DEF CameraInv, camera_vars, loop_vars, submit_vars, worker_vars, unmoved
<1>0. /\ finished \in Nat /\ reused \in Nat /\ before.finished \in Nat /\ before.reused \in Nat
      /\ Len(ready) \in Nat /\ Len(rows) \in Nat /\ evidence \in [Buffers -> Nat]
      /\ ready \in Seq(Buffers) /\ rows \in Seq(Nat)
      /\ \A i \in 1..Len(ready) : ready[i] \in Buffers
  BY DEF CameraTypes
<1>1. CASE Complete
  <2>1. /\ finished' = finished + 1 /\ evidence' = [evidence EXCEPT ![filling] = finished + 1]
        /\ UNCHANGED <<before, rows, session, task, ok>>
        /\ \/ reused' = reused + 1
           \/ ready' = Append(ready, filling) /\ UNCHANGED reused
    BY <1>1 DEF Complete
  <2>2. filling \in Buffers
    BY <1>1 DEF Complete, Control, CameraTypes, Buffers
  <2>3. evidence'[filling] = finished + 1 /\ \A b \in Buffers : b # filling => evidence'[b] = evidence[b]
    BY <1>0, <2>1, <2>2
  <2>4. before'.finished <= finished' /\ before'.reused <= reused'
    BY <1>0, <2>1 DEF Behind
  <2>5. \A b \in Buffers : evidence'[b] <= finished'
    <3> SUFFICES ASSUME NEW b \in Buffers PROVE evidence'[b] <= finished'
      OBVIOUS
    <3>1. evidence[b] \in Nat /\ evidence[b] <= finished
      BY <1>0 DEF Behind
    <3> QED BY <1>0, <2>1, <2>3, <3>1
  <2>6. Accounted'
    <3> SUFFICES ASSUME Measured' PROVE Accounted'
      BY DEF Accounted
    <3>1. ready' = Append(ready, filling) /\ reused' = reused /\ Measured
      BY <1>0, <2>1 DEF Measured, NoneReused, Behind
    <3>2. /\ Len(ready') = Len(ready) + 1 /\ ready'[Len(ready) + 1] = filling
          /\ \A i \in 1..Len(ready) : ready'[i] = ready[i]
      BY <1>0, <2>2, <3>1, Ends
    <3>3. /\ Completions <= Len(rows) + Len(ready)
          /\ rows # <<>> /\ rows[1] > before.finished => Completions = Len(rows) + Len(ready)
      BY <3>1 DEF Accounted
    <3>4. Completions' = Completions + 1
      BY <1>0, <2>1 DEF Completions
    <3>5. /\ Completions' <= Len(rows') + Len(ready')
          /\ rows' # <<>> /\ rows'[1] > before'.finished => Completions' = Len(rows') + Len(ready')
      BY <1>0, <2>1, <3>2, <3>3, <3>4 DEF Completions
    <3>6. ASSUME NEW i \in 1..Len(ready')
          PROVE  IF finished' + i - Len(ready') > before'.finished
                 THEN evidence'[ready'[i]] = finished' + i - Len(ready')
                 ELSE evidence'[ready'[i]] <= before'.finished
      <4>1. CASE i = Len(ready) + 1
        BY <1>0, <2>1, <2>3, <3>2, <4>1 DEF Behind
      <4>2. CASE i \in 1..Len(ready)
        <5>1. ready'[i] = ready[i] /\ ready[i] # filling /\ ready[i] \in Buffers
          BY <1>0, <3>2, <4>2 DEF OnePlace
        <5>2. evidence'[ready'[i]] = evidence[ready[i]]
          BY <2>3, <5>1
        <5>3. finished' + i - Len(ready') = finished + i - Len(ready)
          BY <1>0, <2>1, <3>2, <4>2
        <5> QED BY <2>1, <3>1, <4>2, <5>2, <5>3 DEF Accounted
      <4> QED BY <1>0, <3>2, <3>6, <4>1, <4>2
    <3> QED BY <3>5, <3>6 DEF Accounted
  <2> QED BY <2>4, <2>5, <2>6 DEF Behind
<1>2. CASE Dequeue
  <2>1. /\ ready # <<>> /\ ready' = Tail(ready) /\ rows' = Append(rows, evidence[Head(ready)])
        /\ UNCHANGED <<finished, reused, before, evidence, session, ok>> /\ task = "dequeue"
    BY <1>2 DEF Dequeue
  <2>2. Behind'
    BY <2>1 DEF Behind
  <2>3. /\ Len(ready) > 0 /\ Len(ready') = Len(ready) - 1 /\ Head(ready) = ready[1]
        /\ \A i \in 1..Len(ready') : ready'[i] = ready[i + 1]
    BY <1>0, <2>1, Ends
  <2>4. evidence[ready[1]] \in Nat
    BY <1>0, <2>3
  <2>5. /\ Len(rows') = Len(rows) + 1 /\ rows'[Len(rows) + 1] = evidence[ready[1]]
        /\ \A i \in 1..Len(rows) : rows'[i] = rows[i]
    BY <1>0, <2>1, <2>3, <2>4, Ends
  <2>6. Accounted'
    <3> SUFFICES ASSUME Measured' PROVE Accounted'
      BY DEF Accounted
    <3>1. Measured /\ Completions' = Completions /\ Completions \in Int
      <4>1. Measured
        BY <2>1 DEF Measured, NoneReused
      <4>2. Completions' = Completions /\ Completions \in Int
        BY <1>0, <2>1 DEF Completions
      <4> QED BY <4>1, <4>2
    <3>2. Completions' <= Len(rows') + Len(ready')
      BY <1>0, <2>3, <2>5, <3>1 DEF Accounted
    <3>3. ASSUME rows' # <<>>, rows'[1] > before'.finished
          PROVE  Completions' = Len(rows') + Len(ready')
      <4>1. CASE rows = <<>>
        <5>1. Len(rows) = 0 /\ evidence[ready[1]] > before.finished
          BY <2>1, <2>5, <3>3, <4>1
        <5>2. finished + 1 - Len(ready) > before.finished
          BY <1>0, <2>3, <2>4, <3>1, <5>1 DEF Accounted
        <5>3. Completions <= Len(ready)
          BY <1>0, <3>1, <5>1 DEF Accounted
        <5> QED BY <1>0, <2>3, <2>5, <3>1, <5>1, <5>2, <5>3 DEF Completions
      <4>2. CASE rows # <<>>
        <5>1. Len(rows) > 0
          BY <1>0, <4>2
        <5>2. rows[1] > before.finished
          BY <1>0, <2>1, <2>5, <3>3, <5>1
        <5> QED BY <1>0, <2>3, <2>5, <3>1, <4>2, <5>2 DEF Accounted
      <4> QED BY <4>1, <4>2
    <3>4. ASSUME NEW i \in 1..Len(ready')
          PROVE  IF finished' + i - Len(ready') > before'.finished
                 THEN evidence'[ready'[i]] = finished' + i - Len(ready')
                 ELSE evidence'[ready'[i]] <= before'.finished
      <4>1. i + 1 \in 1..Len(ready) /\ ready'[i] = ready[i + 1]
            /\ finished' + i - Len(ready') = finished + (i + 1) - Len(ready)
        BY <1>0, <2>1, <2>3
      <4> QED BY <2>1, <3>1, <4>1 DEF Accounted
    <3> QED BY <3>2, <3>3, <3>4 DEF Accounted
  <2> QED BY <2>2, <2>6
<1>3. CASE Begin
  <2>1. /\ before' = [finished |-> finished, reused |-> reused]
        /\ UNCHANGED <<ready, rows, evidence, finished, reused, session>> /\ task = "begin"
    BY <1>3 DEF Begin
  <2>2. Behind'
    BY <1>0, <2>1 DEF Behind
  <2>3. session = "baseline" => rows = <<>> /\ Len(rows) = 0
    BY <2>1 DEF Control
  <2>4. ASSUME NEW i \in 1..Len(ready)
        PROVE  ~(finished + i - Len(ready) > finished) /\ evidence[ready[i]] <= finished
    BY <1>0, <2>4 DEF Behind
  <2>5. Completions' = 0
    BY <1>0, <2>1 DEF Completions
  <2>6. Measured' => session = "baseline"
    BY <2>1 DEF Measured
  <2>7. Accounted'
    BY <1>0, <2>1, <2>3, <2>4, <2>5, <2>6 DEF Accounted
  <2> QED BY <2>2, <2>7
<1>4. CASE TakeShot
  <2>1. session # "baseline" /\ UNCHANGED <<before, finished, reused, evidence, session>>
    BY <1>4 DEF TakeShot, Control
  <2> QED BY <2>1 DEF Behind, Accounted, Measured
<1>5. CASE Open \/ OpenFails \/ Close \/ Settled \/ Downsample \/ ShotFails \/ Fails
  <2>1. /\ UNCHANGED <<ready, evidence, finished, reused, before, rows, session>>
        /\ session = "baseline" /\ ok' =>
             ok /\ (task \in {"open", "begin"} => task' \in {"open", "begin"})
    BY <1>5 DEF Open, OpenFails, Close, Settled, Downsample, ShotFails, Fails
  <2> QED BY <2>1, AccountStays
<1>6. CASE Submit \/ SubmitFails \/ HashSource \/ Copy \/ OfferFrame \/ Previewing \/ Queue
  <2>1. /\ UNCHANGED <<ready, evidence, finished, reused, before, rows, session>>
        /\ (ok' => ok) /\ task \notin {"open", "begin"}
    BY <1>6 DEF Submit, SubmitFails, HashSource, Copy, OfferFrame, Previewing, Queue, CameraTypes,
                Control
  <2> QED BY <2>1, AccountStays
<1>7. CASE Dispatch \/ StreamOff \/ WaitIdle \/ FinishPreview \/ Export \/ Destroy \/ Join \/ ExportImage
  <2>1. /\ UNCHANGED <<ready, evidence, finished, reused, before, rows, session>>
        /\ (ok' => ok) /\ task \notin {"open", "begin"}
    <3>1. CASE WaitIdle
      BY <3>1, Zenon DEF WaitIdle
    <3>2. CASE Dispatch \/ StreamOff \/ FinishPreview \/ Export \/ Destroy \/ Join \/ ExportImage
      BY <3>2 DEF Dispatch, StreamOff, FinishPreview, Export, Destroy, Join, ExportImage
    <3> QED BY <1>7, <3>1, <3>2
  <2> QED BY <2>1, AccountStays
<1>8. CASE Worker \/ Timer \/ UNCHANGED camera_baseline_vars
  <2>1. UNCHANGED <<ready, evidence, finished, reused, before, rows, session, ok, task>>
    BY <1>8 DEF Worker, Wake, Encode, GiveBack, Timer, camera_baseline_vars
  <2> QED BY <2>1, AccountStays
<1> QED BY <1>1, <1>2, <1>3, <1>4, <1>5, <1>6, <1>7, <1>8 DEF CameraNext, Capturing

(* The verdict is given once, from counters that no longer move.           *)
LEMMA PassedStep ==
  ASSUME CameraInv, [CameraNext]_camera_baseline_vars
  PROVE  Passed'
<1> USE DEF CameraInv, camera_vars, loop_vars, submit_vars, worker_vars, unmoved
<1>1. CASE Complete
  <2>1. stopped # "yes" /\ UNCHANGED <<session, ok, task>>
    BY <1>1 DEF Complete
  <2> QED BY <2>1 DEF Passed, Concluded
<1>2. CASE Open
  <2>1. ~(session' = "baseline" /\ ok' /\ Concluded')
    BY <1>2 DEF Open, Concluded, Control, CameraTypes, Passed
  <2> QED BY <2>1 DEF Passed
<1>3. CASE OpenFails
  <2>1. ~(session' = "baseline" /\ ok' /\ Concluded')
    BY <1>3 DEF OpenFails, Concluded, Control, CameraTypes, Passed
  <2> QED BY <2>1 DEF Passed
<1>4. CASE Close
  <2>1. /\ UNCHANGED <<rows, before, session, reused, ok>> /\ stopped' = "yes"
        /\ task = "close"
    BY <1>4 DEF Close
  <2>2. Concluded
    BY <2>1 DEF Concluded
  <2> QED BY <2>1, <2>2 DEF Passed, InOrder, NoneReused
<1>5. CASE TakeShot
  <2>1. ~(session' = "baseline" /\ ok' /\ Concluded')
    BY <1>5 DEF TakeShot, Concluded, Control, CameraTypes, Passed
  <2> QED BY <2>1 DEF Passed
<1>6. CASE Settled
  <2>1. /\ UNCHANGED <<rows, before, session, reused, stopped>> /\ (ok' => ok)
        /\ Concluded' => Concluded \/ session = "context"
    BY <1>6 DEF Settled, Concluded, Control, CameraTypes
  <2> HIDE DEF Concluded
  <2> QED BY <2>1 DEF Passed, InOrder, NoneReused
<1>7. CASE Downsample
  <2>1. /\ UNCHANGED <<rows, before, session, reused, stopped>> /\ (ok' => ok)
        /\ Concluded' => Concluded \/ session = "context"
    BY <1>7 DEF Downsample, Concluded, Control, CameraTypes
  <2> HIDE DEF Concluded
  <2> QED BY <2>1 DEF Passed, InOrder, NoneReused
<1>8. CASE ShotFails
  <2>1. /\ UNCHANGED <<rows, before, session, reused, stopped>> /\ (ok' => ok)
        /\ Concluded' => Concluded \/ session = "context"
    BY <1>8 DEF ShotFails, Concluded, Control, CameraTypes
  <2> HIDE DEF Concluded
  <2> QED BY <2>1 DEF Passed, InOrder, NoneReused
<1>9. CASE Begin
  <2>1. ~(session' = "baseline" /\ ok' /\ Concluded')
    BY <1>9 DEF Begin, LoopHead, Concluded, Control, CameraTypes, Passed
  <2> QED BY <2>1 DEF Passed
<1>10. CASE Fails
  <2>1. /\ UNCHANGED <<rows, before, session, reused, stopped>> /\ (ok' => ok)
        /\ Concluded' => Concluded \/ session = "context"
    BY <1>10 DEF Fails, Concluded, Control, CameraTypes
  <2> HIDE DEF Concluded
  <2> QED BY <2>1 DEF Passed, InOrder, NoneReused
<1>11. CASE Dequeue
  <2>1. ~(session' = "baseline" /\ ok' /\ Concluded')
    BY <1>11 DEF Dequeue, AfterRow, AfterSubmit, Concluded, Control, CameraTypes, Passed
  <2> QED BY <2>1 DEF Passed
<1>12. CASE Submit
  <2>1. /\ UNCHANGED <<rows, before, session, reused, stopped>> /\ (ok' => ok)
        /\ Concluded' => Concluded \/ session = "context"
    BY <1>12 DEF Submit, AfterSubmit, Concluded, Control, CameraTypes
  <2> HIDE DEF Concluded
  <2> QED BY <2>1 DEF Passed, InOrder, NoneReused
<1>13. CASE SubmitFails
  <2>1. /\ UNCHANGED <<rows, before, session, reused, stopped>> /\ (ok' => ok)
        /\ Concluded' => Concluded \/ session = "context"
    BY <1>13 DEF SubmitFails, AfterSubmit, Concluded, Control, CameraTypes
  <2> HIDE DEF Concluded
  <2> QED BY <2>1 DEF Passed, InOrder, NoneReused
<1>14. CASE HashSource
  <2>1. /\ UNCHANGED <<rows, before, session, reused, stopped>> /\ (ok' => ok)
        /\ Concluded' => Concluded \/ session = "context"
    BY <1>14 DEF HashSource, Concluded, Control, CameraTypes
  <2> HIDE DEF Concluded
  <2> QED BY <2>1 DEF Passed, InOrder, NoneReused
<1>15. CASE Copy
  <2>1. /\ UNCHANGED <<rows, before, session, reused, stopped>> /\ (ok' => ok)
        /\ Concluded' => Concluded \/ session = "context"
    BY <1>15 DEF Copy, AfterSubmit, Concluded, Control, CameraTypes
  <2> HIDE DEF Concluded
  <2> QED BY <2>1 DEF Passed, InOrder, NoneReused
<1>16. CASE OfferFrame
  <2>1. /\ UNCHANGED <<rows, before, session, reused, stopped>> /\ (ok' => ok)
        /\ Concluded' => Concluded \/ session = "context"
    BY <1>16 DEF OfferFrame, Concluded, Control, CameraTypes
  <2> HIDE DEF Concluded
  <2> QED BY <2>1 DEF Passed, InOrder, NoneReused
<1>17. CASE Previewing
  <2>1. ~(session' = "baseline" /\ ok' /\ Concluded')
    BY <1>17 DEF Previewing, Concluded, Control, CameraTypes, Passed
  <2> QED BY <2>1 DEF Passed
<1>18. CASE Queue
  <2>1. /\ UNCHANGED <<rows, before, session, reused, stopped>> /\ (ok' => ok)
        /\ Concluded' => Concluded \/ session = "context"
    BY <1>18 DEF Queue, Concluded, Control, CameraTypes
  <2> HIDE DEF Concluded
  <2> QED BY <2>1 DEF Passed, InOrder, NoneReused
<1>19. CASE Dispatch
  <2>1. /\ UNCHANGED <<rows, before, session, reused, stopped>> /\ (ok' => ok)
        /\ Concluded' => Concluded \/ session = "context"
    BY <1>19 DEF Dispatch, LoopHead, Concluded, Control, CameraTypes
  <2> HIDE DEF Concluded
  <2> QED BY <2>1 DEF Passed, InOrder, NoneReused
<1>20. CASE StreamOff
  <2>1. ~(session' = "baseline" /\ ok' /\ Concluded')
    BY <1>20 DEF StreamOff, Concluded, Control, CameraTypes, Passed
  <2> QED BY <2>1 DEF Passed
<1>21. CASE WaitIdle
  <2>1. ok' => stopped' = "yes" /\ InOrder /\ reused' = before'.reused /\ rows # <<>>
    BY <1>21 DEF WaitIdle, NoneReused
  <2>2. UNCHANGED <<rows, before>>
    BY <1>21 DEF WaitIdle
  <2> QED BY <2>1, <2>2 DEF Passed, InOrder, NoneReused
<1>22. CASE FinishPreview
  <2>1. /\ UNCHANGED <<rows, before, session, reused, stopped>> /\ (ok' => ok)
        /\ Concluded' => Concluded \/ session = "context"
    BY <1>22 DEF FinishPreview, Concluded, Control, CameraTypes
  <2> HIDE DEF Concluded
  <2> QED BY <2>1 DEF Passed, InOrder, NoneReused
<1>23. CASE Export
  <2>1. /\ UNCHANGED <<rows, before, session, reused, stopped>> /\ (ok' => ok)
        /\ Concluded' => Concluded \/ session = "context"
    BY <1>23 DEF Export, Concluded, Control, CameraTypes
  <2> HIDE DEF Concluded
  <2> QED BY <2>1 DEF Passed, InOrder, NoneReused
<1>24. CASE Destroy
  <2>1. /\ UNCHANGED <<rows, before, session, reused, stopped>> /\ (ok' => ok)
        /\ Concluded' => Concluded \/ session = "context"
    BY <1>24 DEF Destroy, Concluded, Control, CameraTypes
  <2> HIDE DEF Concluded
  <2> QED BY <2>1 DEF Passed, InOrder, NoneReused
<1>25. CASE Join
  <2>1. /\ UNCHANGED <<rows, before, session, reused, stopped>> /\ (ok' => ok)
        /\ Concluded' => Concluded \/ session = "context"
    BY <1>25 DEF Join, Concluded, Control, CameraTypes
  <2> HIDE DEF Concluded
  <2> QED BY <2>1 DEF Passed, InOrder, NoneReused
<1>26. CASE ExportImage
  <2>1. /\ UNCHANGED <<rows, before, session, reused, stopped>> /\ (ok' => ok)
        /\ Concluded' => Concluded \/ session = "context"
    BY <1>26 DEF ExportImage, Concluded, Control, CameraTypes
  <2> HIDE DEF Concluded
  <2> QED BY <2>1 DEF Passed, InOrder, NoneReused
<1>27. CASE Wake
  <2>1. /\ UNCHANGED <<rows, before, session, reused, stopped>> /\ (ok' => ok)
        /\ Concluded' => Concluded \/ session = "context"
    BY <1>27 DEF Wake, Concluded, Control, CameraTypes
  <2> HIDE DEF Concluded
  <2> QED BY <2>1 DEF Passed, InOrder, NoneReused
<1>28. CASE Encode
  <2>1. /\ UNCHANGED <<rows, before, session, reused, stopped>> /\ (ok' => ok)
        /\ Concluded' => Concluded \/ session = "context"
    BY <1>28 DEF Encode, Concluded, Control, CameraTypes
  <2> HIDE DEF Concluded
  <2> QED BY <2>1 DEF Passed, InOrder, NoneReused
<1>29. CASE GiveBack
  <2>1. /\ UNCHANGED <<rows, before, session, reused, stopped>> /\ (ok' => ok)
        /\ Concluded' => Concluded \/ session = "context"
    BY <1>29 DEF GiveBack, Concluded, Control, CameraTypes
  <2> HIDE DEF Concluded
  <2> QED BY <2>1 DEF Passed, InOrder, NoneReused
<1>30. CASE Timer
  <2>1. /\ UNCHANGED <<rows, before, session, reused, stopped>> /\ (ok' => ok)
        /\ Concluded' => Concluded \/ session = "context"
    BY <1>30 DEF Timer, Concluded, Control, CameraTypes
  <2> HIDE DEF Concluded
  <2> QED BY <2>1 DEF Passed, InOrder, NoneReused
<1>31. CASE UNCHANGED camera_baseline_vars
  <2>1. /\ UNCHANGED <<rows, before, session, reused, stopped>> /\ (ok' => ok)
        /\ Concluded' => Concluded \/ session = "context"
    BY <1>31 DEF camera_baseline_vars, Concluded, Control, CameraTypes
  <2> HIDE DEF Concluded
  <2> QED BY <2>1 DEF Passed, InOrder, NoneReused
<1> QED BY <1>1, <1>2, <1>3, <1>4, <1>5, <1>6, <1>7, <1>8, <1>9, <1>10, <1>11, <1>12, <1>13,
           <1>14, <1>15, <1>16, <1>17, <1>18, <1>19, <1>20, <1>21, <1>22, <1>23, <1>24, <1>25,
           <1>26, <1>27, <1>28, <1>29, <1>30, <1>31 DEF CameraNext, Capturing, Worker

-----------------------------------------------------------------------------
(* The invariant holds before the camera is opened.                        *)
LEMMA CameraInitInv == CameraInit => CameraInv
<1> SUFFICES ASSUME CameraInit PROVE CameraInv
  OBVIOUS
<1> USE CameraConstants DEF CameraInit, Buffers
<1>1. CameraTypes
  <2>1. <<>> \in Seq(Buffers) /\ <<>> \in Seq(Nat)
    OBVIOUS
  <2> QED BY <2>1 DEF CameraTypes, Tasks, Jobs, Free, NoJob
<1>2. OnePlace /\ InHand /\ Control /\ OwnedCopy
  <2>1. OnePlace /\ InHand
    BY DEF OnePlace, InHand, Loaned
  <2>2. Control
    BY DEF Control
  <2>3. OwnedCopy
    BY DEF OwnedCopy, Concluded, Free
  <2> QED BY <2>1, <2>2, <2>3
<1>3. Offering /\ Passed
  BY DEF Offering, Passed, Concluded, Init
<1>6. Behind /\ Accounted
  BY DEF Behind, Accounted, Measured
<1>4. Len(rows) = 0 /\ produced = 0
  BY DEF Init
<1>5. EverySecond /\ Ordered
  BY <1>4 DEF EverySecond, Ordered, Owed, Even, Half
<1> QED BY <1>1, <1>2, <1>3, <1>5, <1>6 DEF CameraInv

(* Every step keeps it.                                                    *)
LEMMA CameraInductive == CameraSpec => []CameraInv
<1>1. CameraInv /\ [CameraNext]_camera_baseline_vars => CameraInv'
  BY TypesStep, PlaceStep, HandStep, ControlStep, CopyStep, OfferStep, EverySecondStep, OrderStep,
     AccountStep, PassedStep DEF CameraInv
<1> QED BY CameraInitInv, <1>1, PTL DEF CameraSpec

(* The buffer in hand is the camera's no more, the one that ended the      *)
(* epoch never again, and the copy the JPEG worker has is one frame with   *)
(* its own record: for any number of buffers and frames.                   *)
THEOREM FrameStaysOwned == CameraSpec => []FrameIsOwned
<1>1. CameraInv => FrameIsOwned
  <2> SUFFICES ASSUME CameraInv PROVE FrameIsOwned
    OBVIOUS
  <2>1. Loaned \/ over => Pixels(last) = rows[Len(rows)]
    BY RowInHand
  <2>2. worker \in {"encode", "compare"} => slot.image = job.hash /\ job.hash = job.sequence
    BY DEF CameraInv, OwnedCopy
  <2>3. Concluded => worker \in {"wait", "gone"}
    BY DEF CameraInv, OwnedCopy, CameraTypes
  <2> QED BY <2>1, <2>2, <2>3 DEF FrameIsOwned
<1> QED BY CameraInductive, <1>1, PTL

(* wait_idle()'s verdict means what it says: the rows and the frames still *)
(* waiting are the completions since the snapshot, in order and none of    *)
(* them overwritten, and every second row was previewed.                   *)
THEOREM PassIsAccounted == CameraSpec => []PassAccountsForAll
<1>1. CameraInv => PassAccountsForAll
  <2> SUFFICES ASSUME CameraInv, session = "baseline", ok, Concluded
               PROVE  /\ finished = before.finished + Len(rows) + Len(ready)
                      /\ \A i \in DOMAIN rows : rows[i] = before.finished + i
                      /\ \A i \in DOMAIN ready :
                           Pixels(ready[i]) = before.finished + Len(rows) + i
                      /\ produced = Len(rows) \div 2
    BY DEF PassAccountsForAll
  <2>1. stopped = "yes" /\ InOrder /\ NoneReused /\ rows # <<>>
    BY DEF CameraInv, Passed
  <2>2. /\ rows \in Seq(Nat) /\ ready \in Seq(Buffers) /\ finished \in Nat /\ before.finished \in Nat
        /\ DOMAIN rows = 1..Len(rows) /\ DOMAIN ready = 1..Len(ready)
        /\ Len(rows) \in Nat \ {0} /\ Len(ready) \in Nat
    BY <2>1 DEF CameraInv, CameraTypes
  <2>3. \A i \in DOMAIN rows : rows[i] = before.finished + i
    BY <2>1, <2>2 DEF CameraInv, Ordered
  <2>4. rows[1] > before.finished
    BY <2>2, <2>3
  <2>5. Measured
    BY <2>1 DEF Measured, Concluded
  <2>6. Completions = Len(rows) + Len(ready)
    BY <2>1, <2>4, <2>5 DEF CameraInv, Accounted
  <2>7. finished = before.finished + Len(rows) + Len(ready)
    <3>1. finished \in Nat /\ before.finished \in Nat /\ Len(rows) \in Nat /\ Len(ready) \in Nat
      BY <2>2
    <3>2. finished - before.finished = Len(rows) + Len(ready)
      BY <2>6 DEF Completions
    <3> QED BY <3>1, <3>2
  <2>8. ASSUME NEW i \in DOMAIN ready
        PROVE  Pixels(ready[i]) = before.finished + Len(rows) + i
    <3>1. i \in 1..Len(ready) /\ finished + i - Len(ready) = before.finished + Len(rows) + i
      BY <2>2, <2>7, <2>8
    <3>2. finished + i - Len(ready) > before.finished
      BY <2>2, <3>1
    <3>3. evidence[ready[i]] = before.finished + Len(rows) + i
      BY <2>5, <3>1, <3>2 DEF CameraInv, Accounted
    <3>4. ready[i] # filling
      BY <3>1 DEF CameraInv, OnePlace
    <3> QED BY <3>3, <3>4 DEF Pixels
  <2>9. ~Owed
    BY DEF Owed, Concluded
  <2>10. produced = Len(rows) \div 2
    BY <2>1, <2>9 DEF CameraInv, EverySecond, Half
  <2> QED BY <2>3, <2>7, <2>8, <2>10
<1> QED BY CameraInductive, <1>1, PTL

(* The baseline uses the preview's queue as PreviewQueue describes it: all *)
(* its steps are steps of that module or leave it alone.                   *)
THEOREM PreviewWithin == CameraSpec => Spec
<1>1. CameraInit => Init
  BY DEF CameraInit
<1>2. [CameraNext]_camera_baseline_vars => [Next]_vars
  <2> SUFFICES ASSUME [CameraNext]_camera_baseline_vars PROVE [Next]_vars
    OBVIOUS
  <2> USE DEF preview_vars, unmoved
  <2>1. CASE Timer
    BY <2>1 DEF Timer, Next
  <2>2. CASE OfferFrame \/ Previewing \/ FinishPreview
    BY <2>2 DEF OfferFrame, Previewing, FinishPreview, Next, Capture
  <2>3. CASE Worker
    BY <2>3 DEF Worker, Wake, Encode, GiveBack
  <2>4. CASE Complete \/ Open \/ OpenFails \/ Close \/ TakeShot \/ Settled \/ Downsample \/ ShotFails
    BY <2>4 DEF Complete, Open, OpenFails, Close, TakeShot, Settled, Downsample, ShotFails
  <2>5. CASE Begin \/ Fails \/ Dequeue \/ Submit \/ SubmitFails \/ HashSource \/ Copy \/ Queue
    BY <2>5 DEF Begin, Fails, Dequeue, Submit, SubmitFails, HashSource, Copy, Queue
  <2>6. CASE \/ Dispatch \/ StreamOff \/ WaitIdle \/ Export \/ Destroy \/ Join \/ ExportImage
             \/ UNCHANGED camera_baseline_vars
    BY <2>6 DEF Dispatch, StreamOff, WaitIdle, Export, Destroy, Join, ExportImage,
       camera_baseline_vars
  <2> QED BY <2>1, <2>2, <2>3, <2>4, <2>5, <2>6 DEF CameraNext, Capturing
<1> QED BY <1>1, <1>2, PTL DEF CameraSpec, Spec

(* So what holds of the queue holds of it in the running baseline.         *)
THEOREM PreviewHolds ==
  CameraSpec => [](NoTornFrame /\ NeverStarved /\ EveryFrameAccounted) /\ ShowsLatest
BY PreviewWithin, FramesAreWhole, ThreeAreEnough, FramesAreAccounted, Implements, PTL
=============================================================================
