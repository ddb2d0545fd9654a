--------------------------- MODULE CameraBaseline ----------------------------
(***************************************************************************)
(* The camera's two users (media.cpp).  capture_camera runs the baseline   *)
(* (camera_baseline.cpp): one task takes frames from the camera's buffers, *)
(* logs each, hands every second one to the preview (PreviewQueue) and now *)
(* and then one to the JPEG worker through a single owned buffer           *)
(* (jpeg_pipeline.cpp, owned_frame.h), gives the buffer back to the camera *)
(* and at the end stops the stream, keeps the last one and exports it.     *)
(* camera_context_shot takes one image after a few frames to settle.  One  *)
(* of the two runs, from the opening of the camera to its closing.         *)
(*                                                                         *)
(* The camera driver is external: it fills the buffers it was given in     *)
(* order; with none to go on to it overwrites the one it has just filled   *)
(* (the comment in camera_ingress.cpp, finished).  A frame is named by its *)
(* completion number, which stands for its pixels and its hash too; 0 is a *)
(* buffer the camera is in the middle of writing.  When sixty seconds are  *)
(* over and when a JPEG is due are choices.                                *)
(***************************************************************************)
EXTENDS PreviewQueue, Sequences

CONSTANTS
  BufferCount,  \* camera_capture_buffer_count
  Encodes,      \* how many JPEG records there are
  Settle,       \* camera_context_settle_frames
  Frames        \* bound: the camera delivers no more than this

ASSUME CameraConstants == /\ BufferCount \in Nat \ {0, 1}
                          /\ Encodes \in Nat \ {0} /\ Settle \in Nat /\ Frames \in Nat

Buffers == 1..BufferCount
Rows == 2 * Capacity  \* how many rows the log has: 4096, for 2048 previews

VARIABLES
  queue,     \* the buffers the camera may go on to
  filling,   \* the buffer it is writing
  ready,     \* the filled ones nobody has taken
  finished, reused,  \* counters of camera_ingress.cpp
  evidence,  \* its BufferRecords: the frame last completed in each buffer
  session,   \* "baseline" or "context"
  task,      \* where it is
  before,    \* its snapshot of the counters
  last,      \* the buffer it took last
  over,      \* done: the epoch is over
  final_jpeg, jpeg_pending, ok,
  stopped,   \* "yes" before STREAMON, then "running", then STREAMOFF: "yes" or "no"
  rows,      \* the frames taken
  jpegs,     \* JpegPipeline::State::attempts
  slot,      \* OwnedFrame: its state, what was copied, and the stamp with it
  stamp,     \* the source's hash, while submit computes and uses it
  worker,    \* where the JPEG task is
  job,       \* the stamp it acquired
  notified, stopping

camera_vars == <<queue, filling, ready, finished, reused, evidence>>
loop_vars == <<session, before, last, over, final_jpeg, ok, stopped, rows>>
submit_vars == <<jpeg_pending, jpegs, stamp>>
worker_vars == <<worker, job>>
preview_vars == vars
camera_baseline_vars ==
  <<camera_vars, task, loop_vars, submit_vars, slot, worker_vars, notified, stopping, preview_vars>>

NoJob == [sequence |-> 0, hash |-> 0]
Free == [state |-> "free", image |-> 0, stamp |-> NoJob]

(* One of the two asks for the camera; ok: there is memory for everything  *)
(* and no frame of the baseline's warm-up fails.                           *)
CameraInit ==
  /\ Init
  /\ queue = <<>> /\ filling = 0 /\ ready = <<>>
  /\ finished = 0 /\ reused = 0 /\ evidence = [b \in Buffers |-> 0]
  /\ session \in {"baseline", "context"} /\ task = "open"
  /\ before = [finished |-> 0, reused |-> 0] /\ last = 1
  /\ over = FALSE /\ final_jpeg = FALSE /\ jpeg_pending = FALSE
  /\ ok \in BOOLEAN /\ stopped = "yes" /\ rows = <<>>
  /\ jpegs = 0 /\ slot = Free /\ stamp = 0 /\ worker = "wait" /\ job = NoJob
  /\ notified = FALSE /\ stopping = FALSE

(* What a buffer holds: the camera writes only the one it is filling.      *)
Pixels(b) == IF b = filling THEN 0 ELSE evidence[b]

-----------------------------------------------------------------------------
(* The camera (external) completes a frame; requested() and finished() run *)
(* in its interrupt.                                                       *)
Complete ==
  /\ stopped # "yes" /\ finished < Frames
  /\ finished' = finished + 1
  /\ evidence' = [evidence EXCEPT ![filling] = finished + 1]
  /\ IF queue = <<>>
     THEN reused' = reused + 1 /\ UNCHANGED <<queue, filling, ready>>
     ELSE /\ ready' = Append(ready, filling)
          /\ filling' = Head(queue) /\ queue' = Tail(queue)
          /\ UNCHANGED reused
  /\ UNCHANGED <<task, loop_vars, submit_vars, slot, worker_vars, notified, stopping, preview_vars>>

-----------------------------------------------------------------------------
(* VideoSession, of both users.                                            *)

(* Every step up to STREAMON went well: each buffer is the camera's, in    *)
(* order.  The baseline's warm-up is over with it.                         *)
Open ==
  /\ task = "open"
  /\ filling' = 1 /\ queue' = [i \in 1..BufferCount - 1 |-> i + 1]
  /\ stopped' = "running"
  /\ task' = IF session = "baseline" THEN "begin" ELSE "settle"
  /\ UNCHANGED <<ready, finished, reused, evidence, session, before, last, over, final_jpeg, ok,
                 rows, submit_vars, slot, worker_vars, notified, stopping, preview_vars>>

(* One of them failed.                                                     *)
OpenFails ==
  /\ task = "open"
  /\ ok' = FALSE /\ task' = "done"
  /\ UNCHANGED <<camera_vars, session, before, last, over, final_jpeg, stopped, rows, submit_vars,
                 slot, worker_vars, notified, stopping, preview_vars>>

(* ~VideoSession.                                                          *)
Close ==
  /\ task = "close"
  /\ stopped' = "yes" /\ task' = "done"
  /\ UNCHANGED <<camera_vars, session, before, last, over, final_jpeg, ok, rows, submit_vars,
                 slot, worker_vars, notified, stopping, preview_vars>>

-----------------------------------------------------------------------------
(* camera_context_shot: frames are given back until exposure has settled,  *)
(* and the next one is kept until the stream stops.                        *)
TakeShot ==
  /\ task = "settle" /\ ready # <<>>
  /\ last' = Head(ready) /\ ready' = Tail(ready)
  /\ rows' = Append(rows, evidence[Head(ready)])
  /\ task' = IF Len(rows) < Settle THEN "settled" ELSE "shot"
  /\ UNCHANGED <<queue, filling, finished, reused, evidence, session, before, over, final_jpeg, ok,
                 stopped, submit_vars, slot, worker_vars, notified, stopping, preview_vars>>

Settled ==
  /\ task = "settled"
  /\ queue' = Append(queue, last) /\ task' = "settle"
  /\ UNCHANGED <<filling, ready, finished, reused, evidence, loop_vars, submit_vars, slot,
                 worker_vars, notified, stopping, preview_vars>>

(* The kept frame is reduced to the context image.                         *)
Downsample ==
  /\ task = "shot" /\ task' = "close"
  /\ UNCHANGED <<camera_vars, loop_vars, submit_vars, slot, worker_vars, notified, stopping,
                 preview_vars>>

ShotFails ==
  /\ task \in {"settle", "settled", "shot"}
  /\ ok' = FALSE /\ task' = "close"
  /\ UNCHANGED <<camera_vars, session, before, last, over, final_jpeg, stopped, rows, submit_vars,
                 slot, worker_vars, notified, stopping, preview_vars>>

-----------------------------------------------------------------------------
(* The capturing task: a snapshot, then the loop.                          *)

(* The head of the loop, and its break once the epoch is over.             *)
LoopHead(good) == IF good /\ ~over /\ Len(rows) < Rows THEN "dequeue" ELSE "stop"

Begin ==
  /\ task = "begin"
  /\ before' = [finished |-> finished, reused |-> reused]
  /\ task' = LoopHead(ok)
  /\ UNCHANGED <<camera_vars, session, last, over, final_jpeg, ok, stopped, rows, submit_vars,
                 slot, worker_vars, notified, stopping, preview_vars>>

(* A dequeue, its size check, the evidence lookup or a requeue fails.  A   *)
(* JPEG that was submitted stays to be dispatched.                         *)
Fails ==
  /\ task \in {"dequeue", "queue"}
  /\ ok' = FALSE /\ task' = "stop"
  /\ UNCHANGED <<camera_vars, session, before, last, over, final_jpeg, stopped, rows,
                 submit_vars, slot, worker_vars, notified, stopping, preview_vars>>

(* Where the loop goes with the n-th row: a JPEG, then a preview of every   *)
(* second row, then back to the camera; after STREAMOFF no preview yet.    *)
AfterSubmit(n) ==
  IF stopped # "running" THEN "dispatch" ELSE IF n % 2 = 0 THEN "offer" ELSE "queue"

(* Bug: the frame that ends the epoch goes back to the camera, too.        *)
BugAfterRow(end, due, n) ==
  IF end THEN "queue" ELSE IF due THEN "submit" ELSE AfterSubmit(n)

AfterRow(end, due, n) ==
  IF end THEN "stop" ELSE IF due THEN "submit" ELSE AfterSubmit(n)

(* Dequeue, look up the buffer's evidence, log the frame.  Between these   *)
(* the buffer is nobody else's.  The frame that ends the epoch is neither  *)
(* submitted, previewed nor given back before the stream stops.            *)
Dequeue ==
  /\ task = "dequeue" /\ ready # <<>>
  /\ last' = Head(ready) /\ ready' = Tail(ready)
  /\ rows' = Append(rows, evidence[Head(ready)])
  /\ \E end, due \in BOOLEAN :
       /\ over' = end /\ final_jpeg' = (end /\ due)
       /\ task' = AfterRow(end, due, Len(rows) + 1)
  /\ UNCHANGED <<queue, filling, finished, reused, evidence, session, before, ok, stopped, submit_vars, slot,
                 worker_vars, notified, stopping, preview_vars>>

-----------------------------------------------------------------------------
(* JpegPipeline::submit, by the capturing task.                            *)

(* The attempt is on record before the owned buffer is looked at; with a   *)
(* job in it the frame is dropped.                                         *)
Submit ==
  /\ task = "submit"
  /\ jpegs' = IF jpegs < Encodes THEN jpegs + 1 ELSE jpegs
  /\ IF jpegs < Encodes /\ slot.state = "free"
     THEN task' = "hash" /\ UNCHANGED jpeg_pending
     ELSE task' = AfterSubmit(Len(rows)) /\ jpeg_pending' = FALSE
  /\ UNCHANGED <<camera_vars, loop_vars, stamp, slot, worker_vars, notified, stopping, preview_vars>>

(* The source has another size, or its hash cannot be computed.            *)
SubmitFails ==
  /\ task = "hash"
  /\ jpeg_pending' = FALSE /\ task' = AfterSubmit(Len(rows))
  /\ UNCHANGED <<camera_vars, loop_vars, jpegs, stamp, slot, worker_vars, notified, stopping,
                 preview_vars>>

HashSource ==
  /\ task = "hash"
  /\ stamp' = Pixels(last) /\ task' = "copy"
  /\ UNCHANGED <<camera_vars, loop_vars, jpeg_pending, jpegs, slot, worker_vars, notified,
                 stopping, preview_vars>>

(* OwnedFrame::copy                                                        *)
Copy ==
  /\ task = "copy"
  /\ jpeg_pending' = (slot.state = "free")
  /\ slot' = IF slot.state # "free" THEN slot
             ELSE [state |-> "copied", image |-> Pixels(last),
                   stamp |-> [sequence |-> rows[Len(rows)], hash |-> stamp]]
  /\ stamp' = 0 /\ task' = AfterSubmit(Len(rows))
  /\ UNCHANGED <<camera_vars, loop_vars, jpegs, worker_vars, notified, stopping, preview_vars>>

-----------------------------------------------------------------------------
(* CameraPreview::offer, by the capturing task: it fails when the preview  *)
(* has no slot or the copy fails, and then the loop ends.                  *)

OfferFrame ==
  /\ task = "offer" /\ Offer
  /\ task' = "preview"
  /\ UNCHANGED <<camera_vars, loop_vars, submit_vars, slot, worker_vars, notified, stopping>>

(* Bug: what offer() answers is not looked at.                             *)
BugOffered == TRUE

Offered == writer \notin {"scan", "copy"}

Previewing ==
  /\ task = "preview"
  /\ Scan \/ CopyFails \/ Publish \/ Swap \/ Recycle
  /\ IF writer' # "idle" THEN UNCHANGED <<task, ok>>
     ELSE /\ ok' = (ok /\ Offered)
          /\ task' = IF stopped = "running" THEN "queue" ELSE "wait"
  /\ UNCHANGED <<camera_vars, session, before, last, over, final_jpeg, stopped, rows,
                 submit_vars, slot, worker_vars, notified, stopping>>

-----------------------------------------------------------------------------
(* The rest of the loop, and its end.                                      *)

Queue ==
  /\ task = "queue"
  /\ queue' = Append(queue, last) /\ task' = "dispatch"
  /\ UNCHANGED <<filling, ready, finished, reused, evidence, loop_vars, submit_vars, slot,
                 worker_vars, notified, stopping, preview_vars>>

(* Bug: after the stream has stopped nothing is dispatched any more.       *)
BugDispatch ==
  /\ task = "dispatch"
  /\ notified' = (notified \/ (jpeg_pending /\ stopped = "running"))
  /\ jpeg_pending' = FALSE
  /\ task' = IF stopped = "running" THEN LoopHead(ok)
             ELSE IF stopped = "yes" /\ over /\ Len(rows) % 2 = 0 THEN "offer" ELSE "wait"
  /\ UNCHANGED <<camera_vars, loop_vars, jpegs, stamp, slot, worker_vars, stopping, preview_vars>>

(* A copied frame is dispatched to the worker only now; after the stream   *)
(* has stopped the final frame may have its preview still to come.         *)
Dispatch ==
  /\ task = "dispatch"
  /\ notified' = (notified \/ jpeg_pending)
  /\ jpeg_pending' = FALSE
  /\ task' = IF stopped = "running" THEN LoopHead(ok)
             ELSE IF stopped = "yes" /\ over /\ Len(rows) % 2 = 0 THEN "offer" ELSE "wait"
  /\ UNCHANGED <<camera_vars, loop_vars, jpegs, stamp, slot, worker_vars, stopping, preview_vars>>

(* VIDIOC_STREAMOFF, which may fail.                                       *)
StreamOff ==
  /\ task = "stop"
  /\ stopped' \in {"yes", "no"}
  /\ task' = IF stopped' = "yes" /\ final_jpeg THEN "submit" ELSE "dispatch"
  /\ UNCHANGED <<camera_vars, session, before, last, over, final_jpeg, ok, rows, submit_vars,
                 slot, worker_vars, notified, stopping, preview_vars>>

(* Bug: the order of the completions is not checked.                       *)
BugInOrder == TRUE

InOrder ==
  \A i \in DOMAIN rows : rows[i] = 1 + (IF i = 1 THEN before.finished ELSE rows[i - 1])

(* Bug: a buffer the camera wrote twice is not noticed.                     *)
BugNoneReused == TRUE

NoneReused == reused = before.reused

(* wait_idle(), which asserts that the worker is done within two seconds;  *)
(* then the verdict.                                                       *)
WaitIdle ==
  /\ task = "wait" /\ slot.state = "free"
  /\ ok' = /\ ok /\ stopped = "yes" /\ over /\ rows # <<>> /\ Len(rows) < Rows
           /\ finished - before.finished - Len(rows) \in 0..2
           /\ NoneReused /\ InOrder
  /\ task' = "finish"
  /\ UNCHANGED <<camera_vars, session, before, last, over, final_jpeg, stopped, rows,
                 submit_vars, slot, worker_vars, notified, stopping, preview_vars>>

(* CameraPreview::finish; what it selects the renderer's actions do.       *)
FinishPreview ==
  /\ \/ task = "finish" /\ Finish /\ task' = "finishing"
     \/ task = "finishing" /\ Release /\ task' = "export"
  /\ UNCHANGED <<camera_vars, loop_vars, submit_vars, slot, worker_vars, notified, stopping>>

(* export_results: the records are read once no job is left.               *)
Export ==
  /\ task = "export" /\ slot.state = "free" /\ task' = "destroy"
  /\ UNCHANGED <<camera_vars, loop_vars, submit_vars, slot, worker_vars, notified, stopping,
                 preview_vars>>

(* ~JpegPipeline waits for the worker.                                     *)
Destroy ==
  /\ task = "destroy" /\ slot.state = "free"
  /\ stopping' = TRUE /\ notified' = TRUE /\ task' = "join"
  /\ UNCHANGED <<camera_vars, loop_vars, submit_vars, slot, worker_vars, preview_vars>>

Join ==
  /\ task = "join" /\ worker = "gone"
  /\ task' = IF stopped = "yes" /\ rows # <<>> THEN "image" ELSE "close"
  /\ UNCHANGED <<camera_vars, loop_vars, submit_vars, slot, worker_vars, notified, stopping,
                 preview_vars>>

(* capture_camera exports the buffer the stopped stream left.              *)
ExportImage ==
  /\ task = "image" /\ task' = "close"
  /\ UNCHANGED <<camera_vars, loop_vars, submit_vars, slot, worker_vars, notified, stopping,
                 preview_vars>>

-----------------------------------------------------------------------------
(* The JPEG task.                                                          *)

unmoved == <<camera_vars, task, loop_vars, submit_vars, stopping, preview_vars>>

Wake ==
  /\ worker = "wait" /\ notified
  /\ notified' = FALSE
  /\ IF stopping THEN worker' = "gone" /\ UNCHANGED <<slot, job>>
     ELSE IF slot.state # "copied" THEN UNCHANGED <<worker, slot, job>>
     ELSE /\ worker' = "encode" /\ job' = slot.stamp
          /\ slot' = [slot EXCEPT !.state = "held"]
  /\ UNCHANGED unmoved

(* Bug: the buffer is given back as soon as the encoder is done with it.   *)
BugEncode ==
  /\ worker = "encode" /\ worker' = "compare" /\ slot' = Free
  /\ UNCHANGED <<unmoved, job, notified>>

(* The copy is hashed and encoded (the encoder, external, answers).        *)
Encode ==
  /\ worker = "encode" /\ worker' = "compare"
  /\ UNCHANGED <<unmoved, slot, job, notified>>

(* The copy is hashed again, the result is put on record, and the buffer   *)
(* is given back: nothing of the record is written after that.             *)
GiveBack ==
  /\ worker = "compare" /\ worker' = "wait"
  /\ slot' = Free /\ job' = NoJob
  /\ UNCHANGED <<unmoved, notified>>

-----------------------------------------------------------------------------
Capturing ==
  \/ Open \/ OpenFails \/ Close \/ TakeShot \/ Settled \/ Downsample \/ ShotFails
  \/ Begin \/ Fails \/ Dequeue
  \/ Submit \/ SubmitFails \/ HashSource \/ Copy \/ OfferFrame \/ Previewing
  \/ Queue \/ Dispatch \/ StreamOff \/ WaitIdle \/ FinishPreview
  \/ Export \/ Destroy \/ Join \/ ExportImage

Worker == Wake \/ Encode \/ GiveBack

Timer ==
  /\ Render
  /\ UNCHANGED <<camera_vars, task, loop_vars, submit_vars, slot, worker_vars, notified, stopping>>

CameraNext == Complete \/ Capturing \/ Worker \/ Timer

CameraSpec == CameraInit /\ [][CameraNext]_camera_baseline_vars

(* The scheduler runs every task that can run; the encoder answers.        *)
CameraFairSpec ==
  /\ CameraSpec
  /\ WF_camera_baseline_vars(Capturing)
  /\ WF_camera_baseline_vars(Worker)
  /\ WF_camera_baseline_vars(Timer)

-----------------------------------------------------------------------------
Loaned == task \in {"submit", "hash", "copy", "offer", "preview", "queue", "settled", "shot"}
Concluded == task \in {"finish", "finishing", "export", "destroy", "join", "image", "close", "done"}

(* A frame is one image from the camera to the export.  The buffer in hand *)
(* is not written while it is hashed, copied, previewed or reduced to the  *)
(* context image, nor, when it ended the epoch, ever after ("Keep the      *)
(* final image owned until STREAMOFF; no writer can reuse it",             *)
(* camera_baseline.cpp:75; media.cpp exports it).  The copy the worker has *)
(* is the frame of the record it will fill in, and no record is read while *)
(* it may still fill one in.                                               *)
FrameIsOwned ==
  /\ Loaned \/ over => Pixels(last) = rows[Len(rows)]
  /\ worker \in {"encode", "compare"} =>
       slot.image = job.hash /\ job.hash = job.sequence
  /\ Concluded => worker \in {"wait", "gone"}

(* A baseline that passes accounts for every frame the camera completed    *)
(* since the snapshot: the first ones are the rows of the log, each once   *)
(* and in order, and the others, which the verdict tolerates up to two of, *)
(* are those that nobody had taken when the stream stopped, still whole;   *)
(* none was overwritten, and every second row was previewed.               *)
PassAccountsForAll ==
  session = "baseline" /\ ok /\ Concluded =>
    /\ finished = before.finished + Len(rows) + Len(ready)
    /\ \A i \in DOMAIN rows : rows[i] = before.finished + i
    /\ \A i \in DOMAIN ready : Pixels(ready[i]) = before.finished + Len(rows) + i
    /\ produced = Len(rows) \div 2

(* Once the stream is to be stopped the baseline ends: every job that was  *)
(* accepted is encoded, so neither wait_idle's assertion nor the           *)
(* destructor's can fire, and the preview hands back what it holds.        *)
BaselineEnds == task = "stop" ~> task = "done"
=============================================================================
