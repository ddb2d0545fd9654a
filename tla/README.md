# Tricorder in TLA+

Tricorder is an ESP32-P4 handheld (`firmware/main`, C++) and a Mac service
(`tools/`, Python).  The device listens (Sound) and feels (Motion), analyzes
what it recorded, and can ask the Mac to *explain* the analysis: it joins the
Mac over its own Wi-Fi hotspot, sends the analysis and an optional spoken
question over a WebSocket, shows the explanation a local model writes, and plays
it aloud.  An older guided A/B investigation uses the same session protocol; its
tile was dropped (`planning/guided-ab-protocol.md:3`), but the code is kept, and a
saved run can still be replayed from the SD card over the USB console.

The modules here are translated from that code.  TLC checks them on small
instances, and the TLA+ proof system checks the theorems of the eight `...Proofs`
modules for every value of the constants.

    tlc -config MCHostSession.cfg MCHostSession
    tlapm HostSessionProofs.tla

`PROJECT.json` maps every definition to the lines it translates, lists the
hazards with the properties that cover them, and gives for every property a
plausible bug that breaks it (the `Bug...` operators of the modules).

## The system

| Component | State | Operations | Hard behaviour | What makes it correct | Module |
|---|---|---|---|---|---|
| Session reducer, `investigation_protocol.cpp` | state, question, captures, deadline | the connection's and person's methods, `receive`, `tick` | late, replayed and foreign messages; cancel and timeout against an answer; the question budget | evidence distinct and in order; a question settled before it is used; terminal is terminal; no wait without a deadline | `InvestigationProtocol` |
| Mac session, `investigation_service.py` | phase, requests, captures, question, tasks, speech stream | 15 message types, answer, transcription and speech tasks, idle limit, close | messages while tasks run; a connection that dies between two sends; one slot for every client | a request frozen when made; nothing after a cancel; a reply spoken only once accepted; the slot always freed | `HostSession` |
| Explain call, `investigation.cpp` | where the call is, result, playback | connect, upload a note, wait, show words, ask, wait, speak | two protocols that must agree; dialog and network deadlines; a stop against the end of speech | no message of one side is refused by the other; the words shown are the ones used; the call returns | `ExplainSession` |
| Guided driver, `run_investigation` | step of the run, button queue, screen | prompt, ask, record, upload, turn, speak, end | a tap that outlives its screen; a cancel crossing an answer at every step; a reading given up on | a tap acts on what it was made on; both sides compare the same evidence; a run ends | `GuidedSession` |
| Transport, `transport_write.h`, `Socket::send` | bytes left of a frame, whether the connection can be used | `complete_write`, `send` | a frame cut short by a timeout or a cancel, and the cancel notice behind it | nothing follows a torn frame | `GuidedSession` |
| Instrument screens and media task, `sound.cpp`, `motion.cpp`, `diagnostic.cpp` | buttons, atomics, a queue of one | taps, draw timer, listen, analyze, explain | callbacks and a task over shared atomics; a full queue; a stop before the start | no reading while writing; leaving ends the listening; a button acts on what it names | `Instrument` |
| Camera preview, `preview_queue.h`, `camera_preview.cpp` | three slots, the one pending, the one shown, counters | offer, publish, select, finish | two tasks and no lock; a selection interrupted by two publications; the end of the run | a slot has one owner; the screen moves to newer frames only; no frame dropped but during a selection | `PreviewQueue` implements `LatestFrame` |
| Camera baseline and JPEG pipeline, `camera_baseline.cpp`, `camera_ingress.cpp`, `jpeg_pipeline.cpp`, `owned_frame.h`, `media.cpp` | the camera's buffers, the log of frames, one owned frame, JPEG records | capture, offer, submit, encode, drain, stop, export; the context shot | four actors over the same buffers; a camera with no buffer to go on to; shutdown with a job in flight | no pixel is overwritten while used; a pass accounts for every frame; it ends | `CameraBaseline` |
| SD storage, `storage_files.cpp`, `test_storage.cpp` | the card's files, a mutex, the request | verified write, replace and load `wifi.json`, archive a capture | a failure, a power cut or a restart between any two calls; two tasks on one card | the old or the new configuration survives; metadata are a commit record | `StorageFiles` implements `AtomicConfig` |
| Restart series, `restart_sequence.h`, `diagnostic.cpp` | count, pending and seal in RTC memory | start, resume, continue, leave, clear | a reset nobody asked for between count and seal | an exact count; the series ends | `DeviceBoot` |
| Network and setup, `network.cpp`, `setup.cpp` | mode, addresses, leases, the endpoint and its field | apply, connect, the task's calls, eight events, the keyboard | four tasks over the same atomics; events of a mode that was left | the addresses shown are the radio's | `Network` |
| Capture store, `tools/captures.py` | four files of each capture, what is active | start, chunk, end, close, metadata | repeated, damaged and reordered events; a full disk or a crash at any call | a published file is whole; metadata are true | `CaptureStore` |
| Audio capture; the other baselines | driver counters, buffers | record, measure | driver counters | complete windows | not modelled |
| Signal analysis | floating-point buffers | FFT, medians | none concurrent | numerical | out of TLC's reach |
| Providers, offline tools, operations scripts | none kept | format, run | external I/O | text and I/O | not modelled |

They meet in these places.  LVGL callbacks send commands to the media task over a
FreeRTOS queue of capacity one.  Screens and the media task share atomics
(`stop`, `analysis_state`, `explaining`, `stop_speech`).  The media task owns the
WebSocket and drives the reducer.  The Mac's handler feeds `MockSession` one
message at a time, and `MockSession` starts asyncio tasks that send on their own.
The two ends meet in the WebSocket alone.  The camera's task, the LVGL timer and
the JPEG worker share buffers and a few atomics without a lock.  The USB console
and the media task share the SD card under a mutex.  The console, the network
task, the event loop and LVGL share the endpoint and three addresses.

## The modules

**`InvestigationProtocol`** is the reducer, the `Investigation` class: one action
per method.  `state`, `speech`, `voice`, `questions`, `captures`, `deadline`,
`ackSent` are its members; `Tick` is `tick`, and `Advance` lets the clock pass.
`Receive` is the whole of `receive`: it picks any message, so a reply to the
wrong question, the late acknowledgement of an earlier window and a message of
another session are all delivered in every state.  An id is a model value; a
transcript is named by the question it was made from.  The JSON shape checks are
left out: `Acceptable` is the check on a capture that its own fields decide.

**`HostSession`** is one connection of the Mac service.  `MockSession.receive` is
`Receive`, a disjunction of one action per message type; a message the code
raises on is `Refuse`.  A handler's changes precede its first `await`, so a
message is one step; the answer, transcription and speech tasks, `run_deadline`,
the idle limit, the death of the connection and `close()` are steps of their own
and interleave with messages.  The provider, the transcriber and the speech
engine may answer, fail, or answer too late.

**`ExplainSession`** composes the two.  `D == INSTANCE InvestigationProtocol`
and `H == INSTANCE HostSession` share `now`; the variables `pc`, `until`,
`dialog` and `playback` are the media task in `investigation_explain_analysis`,
with its `wait_reply`, `upload_question` and `speak`.  `toHost` holds what the
device sent and the Mac has not read, and `received` counts what the device has
read of the Mac's `outbox`.

**`GuidedSession`** composes the same two with `run_investigation`.  `pc` is where
the media task is: one action per call the loop makes to the reducer, the socket
or the screen.  `Cancel` and `Choose` are the LVGL callbacks and interleave with
every step; `actions` is the queue of one tap and also remembers the prompt the
tap was made on, which the code does not.  `prompt`, `buttons` and `label` are what
`show` and `cancel` leave on the screen.  `Stop` is `active` finding the session
over, at any of the places in `Checked`; `Sent` and `Lost` are the two outcomes
of `Socket::send`.  A frame that a timeout or a Cancel cuts short may leave a
part of itself with the Mac (`Torn`); `Writable` is the check that then stops
every later send, the notice of a cancel included.  `playback` follows
`SpeechStream` in `speak`, whose voice may be stopped by a tap, by Cancel or by
the codec at any moment.  `replay` chooses at the start between a live run and
one that resends a saved pair, where no button is shown and the walk back to A
is skipped.

**`Instrument`** is a listening instrument.  The taps and the draw timer are
LVGL callbacks, one step each, since LVGL runs one at a time under the display
lock.  The media task is broken at every access to what the two share.
`motion.cpp` is the same program over another sensor.

**`PreviewQueue`** is the three-slot exchange of the camera preview with its two
callers: `offer` on the capturing task (`Offer` to `Recycle`), `select` on the
LVGL timer (`Take`, `FreeShown`, `Show`) and `finish`, which stops the timer,
selects a last time and releases.  Every access to a slot's state and to
`pending_` is a step, in the order of the code; memory is sequentially
consistent, as each hand-over is a release read by an acquire.  A frame is its
attempt number.  **`LatestFrame`** is what the queue promises, with no slots at
all: one frame waits, a newer one replaces it, and the screen never goes back.
A published frame waits in the abstract from the exchange of `publish()` on, and
is shown from the exchange of `take_latest()` on (`waitingFrame`,
`showingFrame`); every other store is a stutter.

**`CameraBaseline`** puts the preview where it is used.  One task (`Capturing`)
dequeues a filled buffer, logs it, submits one to the JPEG worker now and then
through the single owned frame, offers every second one to the preview, queues
the buffer again, and at the end stops the stream, drains the worker, exports and
destroys; `session` chooses the context shot of the same camera instead.
`Worker` is the JPEG task with its notification, encode and comparison, `Timer`
the renderer of the preview.  `Complete` is the camera: it fills the buffers in
the order they were queued, and starved of buffers overwrites the one it has just
filled.  A frame is its completion number, which stands for its pixels, and a
buffer that is being filled holds 0: reading it too late is seen.

**`StorageFiles`** is the card with the two tasks that write it, each call that
changes it a step; a file being written is `Torn`, and `Gives` lets any of them
fail.  A read of the configuration may fail too (`Reads`), with what the code
makes of it: the comparison and the load go on to `wifi.previous.json`, and the
replacement deletes the `wifi.json` it could not read.  `misread` is a history
variable: a read that failed hid a configuration since the request came.  The
console replaces `wifi.json` through `next` and `previous` and answers the
request; the media task archives a capture, the raw bytes first.
**`DeviceBoot`** puts both into a device that boots: the checks, the storage
self-test, the saved configuration, and the series of restarts whose count,
pending flag and seal are kept in RTC memory over `esp_restart` and lost with the
power.  A power cut, another reset and an edit of the card elsewhere may come at
any step.  **`AtomicConfig`** is what the four files of the configuration promise:
one value, replaced in one step or not at all, with the old value behind it as
the fallback (`Loaded`, `Fallback`), and a "pass" only when the settings asked for
are there.  It also says what a failed read costs: `GiveUp`, the value gives way to
the fallback, and a "pass" may rest on the fallback.

**`Network`** has the boot and console (`Apply`), the button (`ConnectClicked`),
the network task with each of its calls to the radio a step, the event loop with
a handler per event, the Setup screen and its keyboard, and the radio itself,
which carries out calls, posts events in order and loses links and Macs at any
time.  `endpoint` is the Mac whose lease it is, or none for every other address.

**`CaptureStore`** is the Mac's collector of captures.  `_metadata` is three
steps, the end of a capture a rename before them.  `Fails` is an `OSError` at any
call: the collection ends, and `close()` runs.  A failed metadata write leaves
its temporary file behind, which the next one for that capture refuses to
reopen; then `close()` raises (`run = "raised"`).  A crash needs no action of its
own: what it leaves is the directory of the step it comes after.

## The runs

| Run | Bounds | Distinct states | Question |
|---|---|---|---|
| `protocol` | 4 ids, instants 0..3, 1 question, waits of 1, 2 sessions | 234,116 | Are the evidence, the question and the deadlines consistent under every order of methods and messages? |
| `host` | 3 ids, 2 requests, 1 question, 1 chunk, a wait of 1 | 799,808 | Can a client and a dying connection make the Mac session send what it should not, or keep its slot? |
| `explain` | a voice note, one request, 1 chunk, waits of 1 | 60,233 | Do the two ends understand each other, and do both come back? |
| `guided` | 1 question, no chunks, waits of 1, live and replayed | 1,270,847 | Does a whole guided run survive taps, cancels, timeouts, a cut frame and a dying connection at every step? |
| `camera` | 4 buffers, 3 previews, 2 encodes, 6 frames, 1 frame to settle | 931,065 | Does every frame keep its pixels while it is used, and does a pass account for all of them? |
| `storage` | 3 configurations, 1 capture, 2 restarts | 768,900 | What survives a failure, a failed read, a cut or a restart at any call? |
| `network` | 2 Macs, 3 events waiting | 48,643 | Do crossing requests, events and leases leave the addresses right? |
| `captures` | 3 captures of 2 chunks, 2 boots, 2 active, 2 seen | 166,288 | Is what the directory says true, at every call that changes it? |
| `instrument` | none: the model is finite | 5,406 | Can the screen and the media task trip over each other? |
| `storage_mode`, `instrument_explaining`, `instrument_stopvoice` | as above | | The three disagreements below |

Why these are enough.  The reducer tells apart at most three captures and a
question; four ids leave one for a replay, and `MaxQuestions` of one puts the
budget's limit within reach.  A window is two instants, so four instants allow
windows that touch, overlap and follow each other.  A wait of one tick separates
"before", "at" and "after" the deadline, which is all that is compared.  On the
Mac two requests are all a session can have, since the second captures make the
last request, and three ids are the two captures and a question.  One chunk of
speech is between the begin and the end, which the order of the stream is about.
A guided run needs no bound on time: the clock runs only while a wait is armed,
and the run has finitely many.  One question puts both an offered Retry and the
exhausted budget within reach; the chunks of a reading are `explain`'s matter.
Four buffers are the device's, and as many as leave two frames waiting when the
stream stops.  Six frames reuse camera buffers and each slot of the preview, starve
the camera, and fill the log (`Rows`, twice the previews as in the code).  Of the
three configurations two differ in the mode only and two in the settings; a
capture may be archived again; a series of two restarts has a first, a last and
a resumption between them.  Two Macs let one take the lease of another.  Three
waiting events let a request be begun among events of the mode it leaves; the
driver posts few and the loop drains them.  Two captures at once and a third
refused reach both limits of the store; two chunks have a first and a last.

`CHECK_DEADLOCK FALSE` is said of `protocol`, `host`, `explain`, `guided`,
`camera` and `captures`, where a session or a run ends and nothing follows.  The
instrument, the network and the device that boots never stop, and are checked
for deadlock.

### What the properties say

*Reducer.*  `DeadlineArmed`: a state that waits for the host has a deadline, and
one that waits for the person none.  `EvidenceOrdered`: the captures have
distinct ids and windows that follow one another.  `OfferedTranscriptIsCurrent`:
the words offered for confirmation are of the question last recorded.
`QuestionSettled`: an accepted question never changes silently.
`TerminalIsFinal`, `NoLateAdvance`: nothing revives a finished session, and an
answer past its deadline advances nothing.  `WaitsEnd`: every wait for the host
ends.

*Mac.*  `RequestIsFrozen`: a request is answered from the captures and question
it was made from.  `CancelIsLast`: nothing is sent once a cancel was read.
`StreamContiguous`: a speech stream begins, continues and ends in order.
`AnsweredOnce`: no request is answered twice, and a reply is spoken once, after
the device was told that it was accepted.  `CompleteHasEvidence`: no session
completes without its captures.  `QuestionSettled`: the operator's question is
set by a confirmation only.  `SlotIsFreed`: whatever dies, the next client is
served.

*Together.*  `NothingRefused`: the Mac never refuses what the device sends on a
live connection.  `ShownWordsAreUsed`: the words on the screen are the ones the
model is given.  `NoSurprise`: the device never meets a message its reducer does
not expect.  `CallReturns`: the explain call returns to the screen.

*Guided run.*  `TapIsForThePrompt`: the tap the task takes was made on the screen
that asks for it; `show` empties the queue when it offers a choice, and a tap on
Stop that comes after the recorder stopped must not become Retry.
`SameEvidence`: from the reply on, the captures and the question the Mac answered
from are the device's.  `NothingRefused`: the Mac refuses the device in three
cases only, where messages cross: a cancel after the last acknowledgement, an ack
past its deadline, and what follows a reading the device gave up on.
`FramesAreWhole`: nothing is written behind a frame cut short.  `RunEnds`: with
nobody at the device and a Mac that falls silent, the media task and the buttons
still come back.

*Camera.*  `NoTornFrame`: what is drawn, in hand or waiting is not being
written.  `NeverStarved`: with no selection under way a slot is free, so a frame
is dropped only when `begin_write` meets a selection.  `EveryFrameAccounted`: the
counters the export reports add up, and nothing waits at the end.  `ShowsLatest`:
the refinement of `LatestFrame`.  `FrameIsOwned`: the buffer in hand keeps its
frame through hash, copy, preview and context shot, the worker encodes the frame
whose record it fills in, and no record is read while it may.
`PassAccountsForAll`: of a baseline that passes, the frames completed since its
snapshot are the rows of the log and, behind them, the frames nobody had taken when
the stream stopped, all in order, none missing or overwritten, the untaken ones
still whole; and every second row was previewed.  (The verdict tolerates two frames
that were completed and not logged, `camera_baseline.cpp:101`; the property says
which ones these are.)  `BaselineEnds`: once the stream is to
be stopped the task comes to its end, so that neither assertion of the pipeline
fires.

*Storage and boot.*  `CommitRecord`: a listed file is whole, metadata have their
raw bytes, and what was reported archived stays.  `ConfigIsAtomic`: the
refinement of `AtomicConfig`: whenever the power is cut and whichever call fails,
a boot (whose own reads succeed) loads the old configuration or the new one.  The one exception is a read of
a valid `wifi.json` that fails during a replacement: then the old configuration may
give way to the one before it, or to none, and never to anything else.  `CountIsExact`: the count in RTC memory is the
number of restarts.  `SeriesEnds`: a series ends, whatever fails.

*Network.*  `AddressesAreReal`: with every request and event carried out, the
addresses shown are those of the radio, and the service is looked for at the
lease of a Mac that is joined, or nowhere.

*Captures.*  `PublishedIsWhole`: a `.bin` is what one boot sent, in full, none of
its events having been refused, and has metadata.  `MetadataAreTrue`: metadata
that say complete are written after the bytes have their name, and none claim
bytes the disk has not got.  `ReportIsTrue`: what `close()` returns is what the
directory says.

*Screen.*  `ReaderNeverMeetsWriter`: the draw timer never reads an analysis being
written.  `HomeIsDeaf`: leaving for Home ends the listening.

## Fairness

Nothing obliges the person, the model, the speech engine, the camera, the radio or
the client to act.

* `protocol`: weak fairness of `Tick` and `Advance`: each wait loop calls `tick`
  on every pass, and time passes.
* `host`: weak fairness of the idle limit, of the notice that the connection
  died, and of `Close`: the event loop runs, and every read is bounded by
  `asyncio.timeout` (30 s or 600 s).
* `explain`: weak fairness of the media task's own steps, of time, and of the
  Mac's notice and `Close`.  The task's waits all have deadlines, so no fairness
  is asked of what it waits for.
* `guided`: the same as `explain`, and the Mac's idle limit: the prompts have no
  deadline of their own, and it is the Mac that hangs up on a person who left.
* `instrument`: weak fairness of the media task and of the draw timer, which
  FreeRTOS and LVGL schedule.
* `camera`: weak fairness of the capturing task, of the JPEG worker and of the
  renderer.  The capturing task's waits for a frame are bounded, so nothing makes
  the camera deliver; that the encoder answers is `jpeg_guard.cpp`, which aborts
  the device otherwise.
* `storage`: weak fairness of the steps of the boot, of the series and of the two
  storage tasks.  Nothing prevents a cut at each of them.
* `network` and `captures` have safety properties only, and no fairness.

## Where the code and its documents disagree

1. **A change of mode alone is not saved** (`storage_mode`).  `provision`
   compares a new configuration with the saved one by everything but the mode
   (`test_storage.cpp:44`), applies it, and answers `pass`: after the next boot the
   old mode is back, where `README.md:61` has it loaded from SD at boot.  The
   trace: provision a station, then the same with `access_point`.
2. **`Stop voice` can be stuck** (`instrument_explaining`):
   `sound.cpp:157` marks an explanation as under way before the command is
   queued, and a full queue drops the command with a log line only.
3. **A stop can be forgotten** (`instrument_stopvoice`):
   `investigation.cpp:966` clears `stop_speech` when the media task takes the
   command, erasing a stop asked for since the tap.

Met while modelling, though no run is about them:

* A disconnect does not always make the Mac's session `offline`
  (`guided-ab-protocol.md:15`).  A task whose own send met the dead connection
  raises again out of `drain()` (`investigation_service.py:496`), and the rest of
  `close()` is skipped: `Close` leaves the phase then.  The slot is freed all the
  same (`SlotIsFreed`).
* A cancel during the last speech is refused in phase `complete`
  (`investigation_service.py:184`), which `guided-ab-protocol.md:29` excludes.  The
  device never sends it: a cancel there becomes a stop.
* A Cancel between the last acknowledgement and the display of the comparison
  finds the session complete; "Cancelled locally" gives way to the result, which
  the comment at `investigation.cpp:225` excludes.
* `speak` promises at `investigation.cpp:487` that a stopped stream is read to its
  end "so the next exchange starts clean"; after its 90 s it gives up without a
  `speech_stop`, and if the Mac is still speaking it refuses the next message.
  That is the third case of `NothingRefused`.  Also, `guided-ab-protocol.md` gives
  a send 2 s where `investigation.cpp:332` allows 10 s.
* When the baseline ends early, because the preview refused an offer or the log
  is full, the last buffer has gone back to the camera
  (`camera_baseline.cpp:76`, `:140`) and the final image may be torn, though
  `camera_baseline.h:5` calls it owned.  `FrameIsOwned` therefore speaks of the
  epoch that ended by itself.
* `take_context_photo` rewrites the pixels of the photo although the display lock
  may not have been granted (`investigation.cpp:654`).
* The handler of the station's start may connect before `network_start` has set
  the configuration (`network.cpp:126`, `:249`).  A refused switch to the hotspot
  leaves `hotspot` set, a hotspot restarted over itself may leave the own address
  empty, and a station's late address overwrites the endpoint that came from SD.
  While a lease is being recorded the peer is known before the endpoint
  (`network.cpp:109`, `:116`).  When one of two Macs leaves, no endpoint is left
  though the other is joined.
* A keyboard open when the hotspot comes on is closed with its half-typed text
  in the field (`setup.cpp:48`).
* A transient failure to read a valid `wifi.json` makes `storage_replace_config`
  unlink it (`storage_files.cpp:121-126`); if the new one is then not installed, the
  old one is lost and the next boot loads the one before it, or none.  If it is the
  comparison whose read fails (`test_storage.cpp:44`), a request may be answered
  `pass` from the previous file although `wifi.json` holds something else.  Both are
  in the model (`Retire`, `Compare`); `AtomicConfig` confines them (`GiveUp`, `Pass`).
  No document promises otherwise.
* A request is answered `fail` though saved when the network's queue is full; and a boot that
  resumes a series does not apply the saved Wi-Fi.
* After a failed metadata write, `CaptureStore.close()` raises `FileExistsError`
  for that capture (`captures.py:24`), and the captures after it keep the metadata
  they had.

## What is proved

Eight modules hold proofs, together of every invariant, action property and
refinement the passing runs check, for any values of the constants that meet the
named assumption.

| Module | Assumes | Theorems |
|---|---|---|
| `InvestigationProtocolProofs` | `ProtocolConstants` | `TypeCorrect`, `DeadlineDiscipline`, `CapturesPerPhase`, `EvidenceIsOrdered`, `OfferedTranscript`; the action properties `QuestionIsSettled`, `TerminalStatesAreFinal`, `LateIsTooLate` |
| `HostSessionProofs` | `HostConstants` | `RequestHasTheSession`, `CancelEndsTheWire`, `StreamIsWhole`, `NoSecondAnswer`, `CompletionHasEvidence`; the action property `WordsAreSettled` |
| `ExplainProofs` | `ExplainConstants` | `DeviceIsNeverRefused`, `WordsAreTheShownOnes`, `HostNeverSurprises`; of `Instrument`, without an assumption: `ReaderIsSafe` |
| `GuidedSessionProofs` | `GuidedConstants` | `NothingAfterTorn`, `TapsAreCurrent`, `OneEvidence`, `RefusedOnlyWhereMessagesCross` |
| `CameraBaselineProofs` | `PreviewConstants`, `CameraConstants` | of `PreviewQueue`: `TypeCorrect`, `FramesAreWhole`, `ThreeAreEnough`, `FramesAreAccounted`, and `Implements`: the slots implement `LatestFrame`; of the baseline: `FrameStaysOwned`, `PassIsAccounted`; `PreviewWithin`: the baseline implements `PreviewQueue`; and `PreviewHolds`: the preview's properties, inside the baseline |
| `DeviceBootProofs` | `StorageConstants`, `BootConstants` | `TypeCorrect`, `RestartsAreCounted`, `MetadataCommits`, and `ConfigurationIsAtomic`: the files, reads that fail included, implement `AtomicConfig` |
| `NetworkProofs` | | `AddressesStayReal` |
| `CaptureStoreProofs` | `CaptureConstants` | `WholeOrNothing`, `MetadataStayTrue`, `ReportsAreTrue`, and the action property `EvidenceStays` |

None of the invariants is inductive by itself; each module joins its own into an
`IInv` (`CameraInv`, `NetworkInv`, `EvidenceInv`, `ExplainInv`, `RunInv`), which is what its lemmas carry through every
action.  TLC was let look for a counterexample to each of them before its proof.

**The reducer.**  `IInv` adds `AskingWithinBudget`: `start_question` checks the
budget and `question_recorded` counts without looking, so the type of `questions`
survives the second only because the first was taken.  `PhaseCount` bounds the
captures to which one is appended, and the type of a window, which ends after it
starts, makes a capture that follows the *last* one follow them all
(`AcceptedCapture`), which is how `EvidenceOrdered` survives `captured`.  There is
one lemma per group of actions, `NextIInv` collects them, and the action
properties follow from `IInv` by cases on the next-state relation.

**The Mac session.**  Every step sends at most one message, at the end
(`Sends`, and a lemma for each way of sending), so a property of all that was sent
needs to be looked at for the last message only.  `CancelIsLast` needs that with
`cancelled` sent no task and no speech is left running (`CancelInv`).
`StreamContiguous` needs that while a reply is spoken the last message is of its
stream and the phase admits only what is answered silently (`StreamInv`).
`AnsweredOnce` needs that the request being answered has no answer yet
(`AnswerInv`), and that a reply is counted as spoken, and the device told, before
its stream starts (`SpokenInv`, `Started`).  
`CompleteHasEvidence` needs, of every phase that leads to a complete session, which
answer the Mac still waits to see acknowledged and what that answer was about
(`EvidenceInv`): `GuidancePending` and `ComparisonPending` tie the request under way
to its message in the outbox, `GuidanceBehind` keeps what the first acknowledgement
leaves behind, and `CapturesInv` says that captures are only ever added, so that
what guidance was given over is still the first of them.  There is one lemma per
conjunct, with a step per action.

**The explain call.**  What each side may find when it comes to read depends on
where it is itself, and on nothing else.  `DeviceInv` and `SpeechInv` say, for each
place of the media task, what can be unread of the Mac's; `HostInv`, for each phase
of the Mac, what can be on its way to it.  Both go on holding when the connection is
dead and each side runs on over what had arrived.  `Sync` relates the two while the
connection lives, and is what lets either side send: where the device is says where
the Mac can be.  `WordsInv` carries the words along, from the confirmation on its way
to the request and from the request to the answer unread.  `NothingRefused` and
`NoSurprise` then say that no place admits another message than these.

**The instrument.**  (It is the screen in front of the call, and shares its module
of proofs.)  A request left over from a crossed tap may still be taken when
the screen shows a result.  `PageIsDeaf` says that the page is only shown with the
listening told to stop, and `LeftoverIsEmpty` that a leftover analysis has therefore
recorded nothing, and writes nothing.

**The guided session.**  Invariants of one side, and then of both.
`LastIsTorn`: of all that is on its way only the last frame can be cut short, and
then the connection is broken for good.  `ScreenInv`: wherever the driver takes a
tap, the screen asks for the state the reducer is in, and a tap in the queue was
made on that screen; a replay asks nothing.  It needs no more, because `show()`
empties the queue whenever it offers a choice.  
`SameEvidence` compares what the device asked about with what the Mac was asked, so
`EvidenceInv` follows both through the channels between them.  A request is in one
place only, on its way, at the Mac, or answered and unread, and then the device
waits for it or gave up (`OneRequest`).  A confirmation always travels before the
turn: the last accepted one in the queue, or else the Mac, has the device's words
(`WordsInv`, `Synced`).  The answer the device has not read is about what was asked
last (`ReplyInv`).  `StageInv` says where the driver is for each state of the
reducer, and most steps are `Calm`: they touch neither requests nor words.

`NothingRefused` needs all of both sides, `RunInv`.  `GuidedConstants` is what the
code fixes: at most five questions, whose names and those of the captures differ
(`NameFacts`).  TLC found no state against `RunInv` among the ten million of a run with
two questions and a chunk.  Its parts, each with one lemma for every step of either
side:
`CountInv` numbers the captures and questions of the device, and `Named` and
`Stages` those of the Mac, by the same names in the same order; `PlanInv` and
`PlaceInv` say where the driver is.  `QueueInv` is about what is on its way: the
first message is one that the Mac takes where it is (`Fit`), and each of the others
may follow the one before it (`MayFollow`), however far behind the Mac is and
whether the connection still lives or not.  That leaves three ways to be refused
(`FitIsLegal`), and they are the ones the property names.  What a send adds to the
queue must fit, and for that the sender must know where the Mac is: `Sync` says it,
while the connection is good, for each place of the run, as in the explain call;
`UnreadInv`, that everything the Mac said before is read by then.  The exception is
the reading the device gives up on: the run goes on into the next capture with the
rest of the stream unread and the Mac still speaking.  `FailedInv` confines it: the
run never gets past the first answer it then waits for (`Behind`).

**The preview queue.**  `NoTornFrame` speaks of the writer's slot alone and does
not survive a step by itself.  `OneOwner` says where every slot is: with the
writer, in the mailbox, taken out of the mailbox by either side, or on the screen,
and each of these at most once.  The one moment two names mean one slot is
between the two stores of `take_latest`, when `displayed_` still names the slot
just freed; `onScreen` is that correction.  `Counted` follows the counters through
the middle of an operation.  `Newer` orders the frames: the pending one is newer
than the shown one, and the one being written newer than both, which is what the
abstract `Offer` demands.  The refinement then needs only that the two exchanges
are `Offer` and `Show`, the last release `Close`, and all else a stutter.  The
theorems are about `Spec` of `PreviewQueue`, which `CameraBaseline` extends without
touching its variables in any other step.

**The camera baseline.**  `FrameIsOwned` speaks of one buffer at one moment.
`OnePlace` says where every buffer is at all times, in the camera's queue, being
filled or filled; `InHand` that the one in hand, and the one that ended the epoch,
are in none of them and hold the frame logged last.  `OwnedCopy` says that the copy
holds one frame with its own stamp, that the worker has that stamp while it holds
the copy, and that nothing is left in it when the records are read; `Control` which
parts run with the stream on, off or at its end.  `PassAccountsForAll` compares
counters the camera keeps with rows the reader writes, which nothing does until the
end.  `Ordered` and `Passed` keep the order of the rows.  `Accounted` counts: while no
buffer was written twice, the completions since the snapshot (`Completions`) are never
more than the frames logged and waiting, the waiting ones are the last of them, and
they are as many once the first row is one of them, which a log without a gap shows
it is.  The snapshot may be taken with frames already waiting, hence the inequality;
`Behind` keeps every frame at or below the counter.  `EverySecond` and `Offering` say that the preview got its
half.  Every step of the baseline is a step of the queue or leaves it alone
(`PreviewWithin`), so what was proved of the queue by itself holds inside the
baseline (`PreviewHolds`).

**The card and the boot.**  The two tasks write disjoint files, so each step of
one is a frame for what is known of the other.  `MediaInv` says what the file
being written holds at each call, and that the metadata are begun only over whole
raw bytes; `ConsoleInv` says which of the four files hold the configuration at
each call of a replacement, so that a cut there finds the old one or the new one
(`CardStep`, which gives the invariants and the abstract step at once).  Where a read
may fail, what the console saw is the configuration, or the fallback with `misread`
set (`Seen`, `Hidden`), which is what `AtomicConfig` allows a "pass" to rest on.
`SeriesInv` ties the seal in RTC memory to where the boot is: a sealed series is
resumed or cleared before anything else can restart the device under it.

**The network.**  `AddressesAreReal` says nothing until everything is settled, so it
cannot be inductive.  What is always so is a debt: a stale address, or an event on
its way that would write one, has an event behind it in the queue that takes it back
(`LinkDebt`, `HotspotDebt`, `MacDebt`), whatever the length of the queue.  The radio
only has to tell what it does (`Told`, `CallsAreTold`), and the handlers to take the
first event for what it is (`Handling`).  The endpoint is not taken back by an event
but by a request: while it is not the Mac's, a request waits that will forget the Mac
or turn the hotspot off (`EndpointDebt`), which holds because the keyboard is only
open over a hotspot nobody has joined (`Unseen`) and because the flag and the radio
differ only in the middle of a request (`Flag`).  That no Mac joins before the Setup
screen has seen the new hotspot is the model's assumption about the radio (`Joins`),
and the proof rests on it.

**The capture store.**  `ActiveInv` says of a capture under way that its partial
file is what was hashed while the collection is healthy, and no shorter after a
failure; `LabelInv` that what is about to be written of a capture is true
already, and that one already complete is never relabelled; `ReportInv` that
whatever was started is active, complete or reported.  The effect of each call is
stated once (`Started`, `Grown`, `Torn`, `Ended`, `Relabelled`), and `StepCases`
reduces `Next` to them.

### Only model-checked

The liveness properties (`WaitsEnd`, `SlotIsFreed`, `CallReturns`, `RunEnds`,
`HomeIsDeaf`, `BaselineEnds`, `SeriesEnds`), which the prover cannot reach, and the
three disagreements, whose counterexamples TLC finds.

## What is abstracted

* Ids are model values, levels "steady" or "clipped", texts the id they came
  from; JSON shapes, lengths and wording are left out.
* The Mac's budgets in bytes and messages, its run archive, its replay mode and
  its command line are left out.
* A send that stalls for 2 s on the Mac is a dead connection; the idle limit may
  strike at any time the handler reads, in no order with the waits of `explain`.
* Of a frame that is cut short it is left open whether any byte was sent.  How
  `complete_write` counts its bytes and `receive_text` joins fragments is left
  out.  A connection that cannot be made is one that dies before its first
  message.
* In the guided run both ends measure the same bytes, so the Mac's measurements
  are the device's, and every capture is steady (`protocol` varies the levels).  The
  eight seconds, a tap on Stop and a codec failure end a question alike.  The
  SD copy, the chart and the steadiness reading are left out.
* A voice note and the dialog over its words are part of the interface of
  `investigation_explain_analysis`, and `explain` runs them, but no caller in the firmware
  passes them at present (`sound.cpp:456`, `motion.cpp:417`): `ShownWordsAreUsed` and
  `WordsAreTheShownOnes` are about that interface only.
* The display lock is granted; its one-second limit is not modelled.
* Pixels, hashes and JPEG bytes are the number of the frame.  When the sixty
  seconds are over and when a JPEG is due are choices.  The warm-up is part of
  opening the camera.  The baseline and the context shot are separate behaviours:
  both run on the media task, one after the other.
* A completed call on the card is durable and atomic, a rename refuses an
  existing target.  Any call that changes the card may fail, and so may a read of the
  configuration; `access` is believed.
* The radio switches mode when asked, and posts its events in order.  Credentials,
  the scan list and the texts of the Setup screen are left out.
* On the Mac a completed call survives a crash of the program; what the operating
  system has not yet written when the machine loses power is not modelled.  A
  chunk is one unit.  `close()` clears `active` at the end; in the model a capture
  leaves it when its turn comes.
* What the analysis computes, the traces and the plots are not modelled.

## Not modelled

* The replay of saved recordings (`investigation_replay.cpp`) reads one file on
  one task; what it relies on of the card is `CommitRecord`.
* Signal analysis is floating-point arithmetic, which TLC does not have.
* `RunArchive` appends to a log; the `Investigation` of `tools/investigation.py` is
  a second implementation of the session, and `tools/recovery.py` compares two
  flash backups.
* The audio, motion, screen and DSP baselines and the audio capture run in a
  sequence on one task; what they check is a driver's counters.
* The providers, the evidence reports and the operations scripts are text
  functions and I/O.

## Plan

Done, the most used behaviour first: the reducer, the Mac session and their two
compositions; the instrument; the preview; the camera baseline; the card and the
boot; the network; the capture store; and the eight modules of proofs.  Left:

1. `ReferenceInvestigation`, the `Investigation` of `tools/investigation.py`, as
   the abstract specification the guided session implements.
2. `Transport`: fragments and the bounds of `SpeechStream` as recursive functions
   over small inputs.  `AudioCapture`, with the driver's counters.
