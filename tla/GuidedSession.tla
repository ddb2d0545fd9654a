---------------------------- MODULE GuidedSession ----------------------------
(***************************************************************************)
(* The guided A/B session, end to end: run_investigation on the device's   *)
(* media task (investigation.cpp), the buttons that interleave with it,    *)
(* the reducer it drives (D), and the Mac session that answers it (H).     *)
(*                                                                         *)
(* A run is live, with a prompt before every recording, or the replay of a *)
(* saved session, which needs no person but can be cancelled.  The model   *)
(* begins where Start (or the replay request) has queued the run.          *)
(*                                                                         *)
(* A step that begins with active() is taken only by a live session: a     *)
(* Cancel between the check and the rest of the step is one right after    *)
(* it, except that it makes a send fail, and a send may always fail.       *)
(*                                                                         *)
(* The clock, toHost and received are as in ExplainSession.  Both sides    *)
(* measure the same bytes, so the Mac's measurements are the device's.     *)
(***************************************************************************)
EXTENDS Naturals, Sequences, FiniteSets

CONSTANTS
  None,
  Transcriber, Speaker,  \* what the Mac service is configured with
  MaxQuestions,          \* max_questions
  MaxChunks              \* speech_chunk messages of one reply, at most

Wait == 1                \* every time budget, in ticks

questionNames == <<"q1", "q2", "q3", "q4", "q5">>  \* max_questions is five
captureNames == <<"a", "b", "r">>
Ids == {"q1", "q2", "q3", "q4", "q5", "a", "b", "r"}
Requests == {"r1", "r2"}

ASSUME GuidedConstants ==
  /\ None \notin Ids \cup Requests
  /\ Transcriber \in BOOLEAN /\ Speaker \in BOOLEAN
  /\ MaxQuestions \in 0..5 /\ MaxChunks \in Nat

VARIABLES
  state, speech, voice, questions, questionId, transcript, status, question,
  captures, deadline, ackSent, now,                        \* the reducer
  phase, questionIds, heard, operatorQuestion, seen, ids, requests, pending, asked, task,
  expires, replies, acknowledged, spoken, speaking, speechStop, stream, speechTask,
  handler, released, refused, link, outbox,                \* the Mac session
  replay,       \* the run resends a saved session
  pc,           \* where the media task is in run_investigation
  until,        \* the deadline of capture_ack or speak
  playback,     \* SpeechStream: "idle", "begun", "started", "ended"; or given up: "failed"
  stopped,      \* speak: playback is over, the stream is read to its end
  chosen,       \* speak: the action tapped meanwhile
  broken,       \* nothing can be sent: not connected, or completion_state.failed
  cancelled,    \* cancelled
  finalSpeech,  \* final_speech
  listening,    \* listening
  actions,      \* the queue of one tap: the prompt it was made on and its value
  prompt,       \* what the enabled buttons mean
  buttons,      \* the enabled ones: 1 action, 2 ask
  label,        \* the text: "running", "cancelled locally", "cancelled", "result"
  toHost,
  received

D == INSTANCE InvestigationProtocol WITH
       Session <- "here", Sessions <- {"here"},
       Instants <- 1..6, ConnectWait <- Wait, UploadWait <- Wait, ReplyWait <- Wait
H == INSTANCE HostSession WITH clock <- now

d_vars == <<state, speech, voice, questions, questionId, transcript, status, question,
            captures, deadline, ackSent>>
h_vars == <<phase, questionIds, heard, operatorQuestion, seen, ids, requests, pending, asked, task,
            expires, replies, acknowledged, spoken, speaking, speechStop, stream, speechTask,
            handler, released, refused, outbox>>
stream_vars == <<playback, stopped, chosen>>
screen_vars == <<actions, prompt, buttons, label>>
ui_vars == <<cancelled, finalSpeech, listening, screen_vars>>
socket_vars == <<link, broken, toHost>>
vars == <<d_vars, now, h_vars, socket_vars, replay, pc, until, stream_vars, ui_vars, received>>

Init ==
  /\ D!Init /\ H!Init
  /\ replay \in BOOLEAN /\ pc = "begin" /\ until = 0
  /\ playback = "idle" /\ stopped = FALSE /\ chosen = FALSE /\ broken = TRUE
  /\ cancelled = FALSE /\ finalSpeech = FALSE /\ listening = FALSE
  /\ actions = None /\ prompt = None /\ buttons = {} /\ label = "running"
  /\ toHost = <<>> /\ received = 0

-----------------------------------------------------------------------------
(* active(): the session was not cancelled, timed out or ended.            *)
Active == ~cancelled /\ ~D!expired /\ ~D!terminal

(* The steps that begin with it.  Asking and recording begin with show(),  *)
(* which cancels too, and then record nothing.                             *)
Checked == {"connect", "hello", "prompt", "choose", "ask", "recorded", "question", "question_end",
            "transcript", "record", "recording", "upload", "started", "capture_end", "stored",
            "uploaded", "reply", "ack", "acked", "spoken", "confirm_b"}

Polling == {"hello", "choose", "transcript", "started", "stored", "reply", "acked", "speech",
            "confirm_b"}

(* Bug: a write that failed is not remembered.                             *)
BugWritable(notice) == notice \/ ~cancelled

(* complete_write(): a connection that failed once carries nothing more,   *)
(* and a Cancel interrupts every frame but its own notice.                 *)
Writable(notice) == ~broken /\ (notice \/ ~cancelled)

(* A send succeeds, although a connection that just died may lose it.      *)
Sent(m, next) ==
  /\ Writable(FALSE)
  /\ toHost' = IF link THEN Append(toHost, m) ELSE toHost
  /\ pc' = next
  /\ UNCHANGED <<link, broken>>

Torn == [type |-> "torn"]  \* part of a frame

(* It stalls, dies or is cancelled before or amid the frame.               *)
CutShort(next) ==
  /\ broken' = TRUE /\ pc' = next /\ UNCHANGED link
  /\ toHost' = toHost \/ (link /\ ~broken /\ toHost' = Append(toHost, Torn))

Lost == CutShort("end")

(* Methods of the reducer that do nothing in a terminal state.             *)
Disconnect == IF D!terminal THEN UNCHANGED <<d_vars, now>> ELSE D!Disconnect
Fail == IF D!terminal THEN UNCHANGED <<d_vars, now>> ELSE D!Fail

(* Bug: a tap made on the previous screen stays in the queue.              *)
BugShowKeepsTap(name, enabled) ==
  /\ prompt' = name /\ buttons' = enabled /\ label' = "running"
  /\ UNCHANGED actions

(* show() of a session that goes on.                                       *)
Show(name, enabled) ==
  /\ prompt' = name /\ buttons' = enabled /\ label' = "running"
  /\ actions' = IF enabled # {} THEN None ELSE actions

-----------------------------------------------------------------------------
(* LVGL callbacks, while the run lasts.                                    *)

Running == pc # "done"

(* During the last reading Cancel only stops the voice.                    *)
Cancel ==
  /\ Running /\ ~finalSpeech
  /\ cancelled' = TRUE /\ label' = "cancelled locally" /\ buttons' = {}
  /\ UNCHANGED <<d_vars, now, h_vars, socket_vars, replay, pc, until, stream_vars, finalSpeech,
                 listening, actions, prompt, received>>

(* choose(): with a tap still queued nothing happens.                      *)
Choose(value) ==
  /\ Running /\ ~cancelled /\ value \in buttons
  /\ IF value = 2 /\ listening THEN buttons' = buttons \ {2} /\ UNCHANGED actions
     ELSE /\ actions = None
          /\ actions' = [prompt |-> prompt, value |-> value] /\ buttons' = {}
  /\ UNCHANGED <<d_vars, now, h_vars, socket_vars, replay, pc, until, stream_vars, cancelled,
                 finalSpeech, listening, prompt, label, received>>

Tap == Cancel \/ \E value \in {1, 2} : Choose(value)

-----------------------------------------------------------------------------
(* The media task: what ends any of its waits.                             *)

(* active() finds the session cancelled, out of time or over.              *)
Stop ==
  /\ pc \in Checked /\ ~Active /\ ~finalSpeech
  /\ IF cancelled /\ ~D!terminal THEN D!Cancel
     ELSE IF D!expired THEN D!Tick
     ELSE UNCHANGED <<d_vars, now>>
  /\ pc' = "end"
  /\ UNCHANGED <<h_vars, socket_vars, replay, until, stream_vars, ui_vars, received>>

(* Bug: nobody reads the socket while the person decides.                  *)
BugPromptIsDeaf ==
  /\ pc \in Polling \ {"choose", "confirm_b"} /\ ~link
  /\ Disconnect
  /\ pc' = IF pc = "speech" THEN "spoken" ELSE "end"
  /\ UNCHANGED <<h_vars, socket_vars, replay, until, stream_vars, ui_vars, received>>

(* poll() < 0.                                                             *)
PollError ==
  /\ pc \in Polling /\ ~link
  /\ Disconnect
  /\ pc' = IF pc = "speech" THEN "spoken" ELSE "end"
  /\ UNCHANGED <<h_vars, socket_vars, replay, until, stream_vars, ui_vars, received>>

(* A recording, an upload or an acknowledgement failed on the device.      *)
DeviceFails ==
  /\ pc \in {"recorded", "recording"} \/ (pc \in {"started", "stored"} /\ now >= until)
  /\ Fail /\ pc' = "end"
  /\ UNCHANGED <<h_vars, socket_vars, replay, until, stream_vars, ui_vars, received>>

-----------------------------------------------------------------------------
(* run_investigation: the connection.                                      *)

Begin ==
  /\ pc = "begin"
  /\ D!Ask /\ pc' = "connect"
  /\ UNCHANGED <<h_vars, socket_vars, replay, until, stream_vars, ui_vars, received>>

Connect ==
  /\ pc = "connect" /\ Active
  /\ \/ /\ broken' = FALSE /\ toHost' = <<[type |-> "hello"]>>
        /\ pc' = "hello" /\ UNCHANGED <<d_vars, now, link>>
     \/ /\ toHost' \in {<<>>, <<Torn>>} /\ UNCHANGED <<link, broken>>
        /\ pc' = "end" /\ Disconnect
  /\ UNCHANGED <<h_vars, replay, until, stream_vars, ui_vars, received>>

-----------------------------------------------------------------------------
(* choose_question() and the prompts of the loop.                          *)

(* Use and Retry, or Record A and Ask; later only the recording.           *)
MayAsk == state = "confirming" \/ (state = "ready_a" /\ speech /\ questions < MaxQuestions)

(* A replay shows no button and goes straight on.                          *)
Prompt ==
  /\ pc = "prompt" /\ Active
  /\ IF replay THEN Show(None, {}) /\ pc' = "record"
     ELSE Show(state, IF MayAsk THEN {1, 2} ELSE {1}) /\ pc' = "choose"
  /\ UNCHANGED <<d_vars, now, h_vars, socket_vars, replay, until, stream_vars, cancelled,
                 finalSpeech, listening, received>>

(* wait_action(): the tap is taken, whatever it was made on.               *)
Act ==
  /\ pc = "choose" /\ actions # None /\ Active
  /\ actions' = None
  /\ IF state = "confirming"
     THEN D!ConfirmQuestion(actions.value = 1)
          /\ pc' = IF actions.value = 1 THEN "use" ELSE "discard"
     ELSE UNCHANGED <<d_vars, now>> /\ pc' = IF actions.value = 1 THEN "record" ELSE "ask"
  /\ UNCHANGED <<h_vars, socket_vars, replay, until, stream_vars, cancelled, finalSpeech,
                 listening, prompt, buttons, label, received>>

(* Bug: the Mac is told to use every transcript.                           *)
BugTellUse ==
  /\ pc \in {"use", "discard"}
  /\ \/ /\ Sent([type |-> "question_confirm", key |-> questionId, accepted |-> TRUE],
                IF pc = "discard" /\ questions < MaxQuestions THEN "ask" ELSE "prompt")
        /\ UNCHANGED <<d_vars, now>>
     \/ Lost /\ Disconnect
  /\ UNCHANGED <<h_vars, replay, until, stream_vars, ui_vars, received>>

(* The Mac is told; Retry asks again at once while questions are left.     *)
TellConfirm ==
  /\ pc \in {"use", "discard"}
  /\ \/ /\ Sent([type |-> "question_confirm", key |-> questionId, accepted |-> pc = "use"],
                IF pc = "discard" /\ questions < MaxQuestions THEN "ask" ELSE "prompt")
        /\ UNCHANGED <<d_vars, now>>
     \/ Lost /\ Disconnect
  /\ UNCHANGED <<h_vars, replay, until, stream_vars, ui_vars, received>>

(* ask_question(): the microphone opens.                                   *)
AskQuestion ==
  /\ pc = "ask" /\ Active
  /\ D!StartQuestion
  /\ listening' = TRUE /\ Show("asking", {2}) /\ pc' = "listening"
  /\ UNCHANGED <<h_vars, socket_vars, replay, until, stream_vars, cancelled, finalSpeech, received>>

(* Eight seconds, Stop, Cancel or a failure of the codec.  Until the next  *)
(* show() the button still reads Stop, and means Ask.                      *)
StopListening ==
  /\ pc = "listening"
  /\ listening' = FALSE /\ pc' = "recorded"
  /\ UNCHANGED <<d_vars, now, h_vars, socket_vars, replay, until, stream_vars, cancelled,
                 finalSpeech, screen_vars, received>>

QuestionRecorded ==
  /\ pc = "recorded" /\ Active
  /\ D!QuestionRecorded(questionNames[questions + 1])
  /\ Show(None, {}) /\ pc' = "question"
  /\ UNCHANGED <<h_vars, socket_vars, replay, until, stream_vars, cancelled, finalSpeech,
                 listening, received>>

(* upload_question(): question_start, then the chunks and question_end.    *)
UploadQuestion ==
  /\ pc \in {"question", "question_end"} /\ Active
  /\ \/ /\ IF pc = "question"
           THEN Sent([type |-> "question_start", key |-> questionId], "question_end")
           ELSE Sent([type |-> "question_end", key |-> questionId, valid |-> TRUE], "transcript")
        /\ UNCHANGED <<d_vars, now>>
     \/ Lost /\ Fail
  /\ UNCHANGED <<h_vars, replay, until, stream_vars, ui_vars, received>>

-----------------------------------------------------------------------------
(* One recording and its upload.                                           *)

Record ==
  /\ pc = "record" /\ Active
  /\ D!StartCapture
  /\ Show(None, {}) /\ pc' = "recording"
  /\ UNCHANGED <<h_vars, socket_vars, replay, until, stream_vars, cancelled, finalSpeech,
                 listening, received>>

(* Windows follow one another, as one codec records them.                  *)
Recorded ==
  /\ pc = "recording" /\ Active
  /\ LET n == D!count + 1
     IN  D!Captured([id |-> captureNames[n], window |-> <<2 * n - 1, 2 * n>>, level |-> "steady"])
  /\ Show(None, {}) /\ pc' = "upload"
  /\ UNCHANGED <<h_vars, socket_vars, replay, until, stream_vars, cancelled, finalSpeech,
                 listening, received>>

captureId == captures[D!count].id

Upload ==
  /\ pc \in {"upload", "capture_end"} /\ Active
  /\ \/ /\ IF pc = "upload" THEN Sent([type |-> "capture_start", key |-> captureId], "started")
           ELSE Sent([type |-> "capture_end", key |-> captureId, valid |-> TRUE], "stored")
        /\ until' = now + Wait
        /\ UNCHANGED <<d_vars, now>>
     \/ Lost /\ Fail /\ UNCHANGED until
  /\ UNCHANGED <<h_vars, replay, stream_vars, ui_vars, received>>

(* After B the person walks back to A; a replay compares at once.          *)
WalkBack ==
  /\ pc = "uploaded" /\ Active /\ D!count = 2 /\ ~replay
  /\ D!AwaitRepeat
  /\ Show(None, {}) /\ pc' = "prompt"
  /\ UNCHANGED <<h_vars, socket_vars, replay, until, stream_vars, cancelled, finalSpeech,
                 listening, received>>

(* A failed send leaves the reducer offline whether or not turn() went on. *)
Turn ==
  /\ pc = "uploaded" /\ Active /\ (D!count # 2 \/ replay)
  /\ \/ /\ D!Turn
        /\ Sent([type |-> "turn", key |-> D!request, ids |-> D!captureIds,
                 adjusted |-> D!count > 1, sent |-> now, deadline |-> deadline'], "reply")
        /\ Show(None, {})
     \/ Lost /\ Disconnect /\ UNCHANGED screen_vars
  /\ UNCHANGED <<h_vars, replay, until, stream_vars, cancelled, finalSpeech, listening, received>>

Ack ==
  /\ pc = "ack" /\ Active
  /\ \/ D!Ack /\ Sent([type |-> "ack", key |-> D!request], "acked")
     \/ Lost /\ Disconnect
  /\ UNCHANGED <<h_vars, replay, until, stream_vars, ui_vars, received>>

(* The guidance is on the screen; B is confirmed during the voice or after *)
(* it.                                                                     *)
Guidance ==
  /\ pc = "guidance"
  /\ IF cancelled
     THEN D!Cancel /\ label' = "cancelled" /\ UNCHANGED <<prompt, buttons, actions>>
     ELSE Show(state, IF replay THEN {} ELSE {1}) /\ UNCHANGED <<d_vars, now>>
  /\ pc' = IF voice THEN "speak" ELSE "spoken"
  /\ UNCHANGED <<h_vars, socket_vars, replay, until, stream_vars, cancelled, finalSpeech,
                 listening, received>>

(* The locals of capture_ack and speak are gone.                           *)
Unwind == until' = 0 /\ stopped' = FALSE /\ chosen' = FALSE

(* Without a tap the person still has to confirm; a replay does not.       *)
Spoken ==
  /\ pc = "spoken" /\ Active
  /\ IF chosen \/ replay THEN D!Adjust /\ pc' = "prompt"
     ELSE UNCHANGED <<d_vars, now>> /\ pc' = "confirm_b"
  /\ Unwind
  /\ UNCHANGED <<h_vars, socket_vars, replay, playback, ui_vars, received>>

ConfirmB ==
  /\ pc = "confirm_b" /\ actions # None /\ Active
  /\ actions' = None /\ D!Adjust /\ pc' = "prompt"
  /\ UNCHANGED <<h_vars, socket_vars, replay, until, stream_vars, cancelled, finalSpeech,
                 listening, prompt, buttons, label, received>>

-----------------------------------------------------------------------------
(* speak(), of the guidance or of the comparison.                          *)

speechKey == IF state = "complete" THEN "r2" ELSE "r1"

Speak ==
  /\ pc = "speak"
  /\ \/ /\ Sent([type |-> "speak", key |-> speechKey], "speech")
        /\ playback' = "begun" /\ stopped' = FALSE /\ chosen' = FALSE /\ until' = now + Wait
        /\ UNCHANGED <<d_vars, now>>
     \/ /\ CutShort("spoken") /\ Disconnect
        /\ UNCHANGED <<stream_vars, until>>
  /\ UNCHANGED <<h_vars, replay, ui_vars, received>>

(* stop_stream(): the Mac is told, unless it is done already.              *)
TellStop(next) ==
  \/ /\ playback = "ended"
     /\ UNCHANGED <<d_vars, now, socket_vars, pc>>
  \/ /\ playback # "ended"
     /\ Sent([type |-> "speech_stop", key |-> speechKey], next)
     /\ UNCHANGED <<d_vars, now>>
  \/ /\ playback # "ended"
     /\ CutShort("spoken") /\ Disconnect

(* A tap on Confirm, where one is allowed.                                 *)
TapStops ==
  IF ~replay /\ ~cancelled /\ state # "complete" /\ actions # None
  THEN chosen' = TRUE /\ actions' = None
  ELSE UNCHANGED <<chosen, actions>>

(* Bug: after speech_stop the rest of the stream is not read.              *)
BugLeaveStream ==
  /\ pc = "speech" /\ ~stopped
  /\ stopped' = TRUE /\ TapStops
  /\ IF cancelled /\ state # "complete"
     THEN pc' = "spoken" /\ UNCHANGED <<d_vars, now, socket_vars>>
     ELSE TellStop("spoken")
  /\ UNCHANGED <<h_vars, replay, until, playback, cancelled, finalSpeech, listening, prompt,
                 buttons, label, received>>

(* Playback stops for a tap on Confirm, a Cancel, or the codec, which may  *)
(* fail at any moment.  A Cancel of the session ends the stream at once;   *)
(* otherwise it is read to its end.                                        *)
StopSpeech ==
  /\ pc = "speech" /\ ~stopped
  /\ stopped' = TRUE /\ TapStops
  /\ IF cancelled /\ state # "complete"
     THEN pc' = "spoken" /\ UNCHANGED <<d_vars, now, socket_vars>>
     ELSE TellStop("speech")
  /\ UNCHANGED <<h_vars, replay, until, playback, cancelled, finalSpeech, listening, prompt,
                 buttons, label, received>>

(* Played to the end, stopped and read to the end, or given up on.         *)
SpeechOver ==
  /\ pc = "speech" /\ (playback = "ended" \/ now >= until)
  /\ playback' = IF playback = "ended" THEN "ended" ELSE "failed"
  /\ pc' = "spoken"
  /\ UNCHANGED <<d_vars, now, h_vars, socket_vars, replay, until, stopped, chosen, ui_vars, received>>

-----------------------------------------------------------------------------
(* How a run ends.                                                         *)

(* A Cancel seen by now is final, and the Mac is told if it can be.        *)
End ==
  /\ pc = "end"
  /\ IF cancelled /\ state # "complete"
     THEN /\ D!Cancel
          /\ \/ Writable(TRUE) /\ link /\ toHost' = Append(toHost, [type |-> "cancel"])
             \/ UNCHANGED toHost
     ELSE Fail /\ UNCHANGED toHost
  /\ pc' = "final"
  /\ Unwind
  /\ UNCHANGED <<h_vars, link, broken, replay, playback, ui_vars, received>>

(* show() of the outcome looks at Cancel again.                            *)
Final ==
  /\ pc = "final"
  /\ IF cancelled /\ state # "complete" THEN D!Cancel ELSE UNCHANGED <<d_vars, now>>
  /\ label' = IF state' = "cancelled" THEN "cancelled" ELSE "result"
  /\ buttons' = {}
  /\ pc' = IF state = "complete" THEN "last" ELSE "finish"
  /\ UNCHANGED <<h_vars, socket_vars, replay, until, stream_vars, cancelled, finalSpeech,
                 listening, actions, prompt, received>>

LastSpeech ==
  /\ pc = "last"
  /\ finalSpeech' = TRUE
  /\ pc' = IF voice THEN "speak" ELSE "spoken"
  /\ UNCHANGED <<d_vars, now, h_vars, socket_vars, replay, until, stream_vars, cancelled,
                 listening, screen_vars, received>>

EndSpeech ==
  /\ pc = "spoken" /\ finalSpeech
  /\ finalSpeech' = FALSE /\ pc' = "finish"
  /\ Unwind
  /\ UNCHANGED <<d_vars, now, h_vars, socket_vars, replay, playback, cancelled, listening,
                 screen_vars, received>>

(* The buttons are Start and Back again, and the socket is closed.         *)
Finish ==
  /\ pc = "finish"
  /\ pc' = "done" /\ link' = FALSE
  /\ UNCHANGED <<d_vars, now, h_vars, broken, toHost, replay, until, stream_vars, ui_vars,
                 received>>

-----------------------------------------------------------------------------
(* What the Mac sent.                                                      *)

Message == outbox[received + 1]

FromHost(m) ==
  CASE m.type = "ready" ->
         [type |-> "ready", session |-> "here", speech |-> m.speech /\ ~replay, voice |-> m.voice]
    [] m.type = "transcript" ->
         [type |-> "transcript", session |-> "here", key |-> m.key, status |-> m.status]
    [] m.type \in {"guidance", "comparison"} ->
         [type |-> m.type, session |-> "here", key |-> m.key, deadline |-> m.deadline,
          ids |-> m.ids, levels |-> D!levels, comparison |-> D!comparison]
    [] m.type = "acknowledged" ->
         [type |-> m.type, session |-> "here", key |-> m.key, state |-> m.state]

(* SpeechStream.receive(): what may follow what.                           *)
Follows(m) ==
  /\ m.type \in {"speech_start", "speech_chunk", "speech_end"} /\ m.key = speechKey
  /\ m.type = "speech_start" <=> playback = "begun"

(* What wait_reply(), capture_ack() and speak() take; a prompt takes       *)
(* nothing.                                                                *)
Expected(m) ==
  CASE pc = "hello"      -> m.type = "ready"
    [] pc = "transcript" -> m.type = "transcript" /\ m.key = questionId
    [] pc \in {"started", "stored"} ->
         /\ m.type = "capture_ack" /\ m.key = captureId
         /\ m.stage = IF pc = "started" THEN "start" ELSE "complete"
    [] pc = "reply" ->
         /\ m.type = (IF D!count = 1 THEN "guidance" ELSE "comparison")
         /\ m.key = D!request /\ m.deadline = deadline /\ m.ids = D!captureIds
    [] pc = "acked"      -> m.type = "acknowledged" /\ m.key = D!request
    [] pc = "speech"     -> playback # "ended" /\ Follows(m)
    [] OTHER             -> FALSE

OnReply(m) ==
  /\ pc \in {"hello", "transcript", "reply", "acked"}
  /\ D!Receive(FromHost(m))
  /\ pc' = CASE pc \in {"hello", "transcript"} -> "prompt"
             [] pc = "reply"                    -> "ack"
             [] pc = "acked"                    -> IF state' = "complete" THEN "end" ELSE "guidance"
  /\ UNCHANGED <<until, playback>>

OnCaptureAck(m) ==
  /\ pc \in {"started", "stored"}
  /\ pc' = IF pc = "started" THEN "capture_end" ELSE "uploaded"
  /\ until' = 0
  /\ UNCHANGED <<d_vars, now, playback>>

OnSpeech(m) ==
  /\ pc = "speech"
  /\ playback' = IF m.type = "speech_end" THEN "ended" ELSE "started"
  /\ UNCHANGED <<d_vars, now, pc, until>>

Unexpected ==
  /\ Fail /\ pc' = IF pc = "speech" THEN "spoken" ELSE "end"
  /\ UNCHANGED <<until, playback>>

Read ==
  /\ pc \in Polling /\ received < Len(outbox) /\ received' = received + 1
  /\ pc # "speech" => Active
  /\ IF Expected(Message)
     THEN OnReply(Message) \/ OnCaptureAck(Message) \/ OnSpeech(Message)
     ELSE Unexpected
  /\ UNCHANGED <<h_vars, socket_vars, replay, stopped, chosen, ui_vars>>

MediaTask ==
  \/ Stop \/ PollError \/ DeviceFails \/ Begin \/ Connect \/ Prompt \/ Act \/ TellConfirm
  \/ AskQuestion \/ StopListening \/ QuestionRecorded \/ UploadQuestion
  \/ Record \/ Recorded \/ Upload \/ WalkBack \/ Turn \/ Ack
  \/ Guidance \/ Spoken \/ ConfirmB \/ Speak \/ StopSpeech \/ SpeechOver
  \/ End \/ Final \/ LastSpeech \/ EndSpeech \/ Finish \/ Read

-----------------------------------------------------------------------------
device_vars == <<d_vars, broken, replay, pc, until, stream_vars, ui_vars, received>>

(* Part of a frame is no message: the Mac goes on waiting for the rest.    *)
HostReads ==
  /\ toHost # <<>> /\ Head(toHost) # Torn
  /\ H!Receive(Head(toHost)) /\ toHost' = Tail(toHost)
  /\ UNCHANGED device_vars

HostStep ==
  /\ H!IdleTimeout \/ H!Disconnected \/ H!Close \/ H!TaskStep \/ H!Drop
  /\ UNCHANGED <<device_vars, toHost>>

Advance ==
  /\ now < deadline \/ (pc \in {"started", "stored", "speech"} /\ now < until)
  /\ now' = now + 1
  /\ UNCHANGED <<d_vars, h_vars, socket_vars, replay, pc, until, stream_vars, ui_vars, received>>

Next == MediaTask \/ Tap \/ HostReads \/ HostStep \/ Advance

Spec == Init /\ [][Next]_vars

(* The media task never blocks outside its waits, and the service's event  *)
(* loop runs and bounds every read.  Nothing makes the person, the agent   *)
(* or the speech engine act.                                               *)
FairSpec ==
  /\ Spec
  /\ WF_vars(MediaTask) /\ WF_vars(Advance)
  /\ WF_vars(H!IdleTimeout /\ UNCHANGED <<device_vars, toHost>>)
  /\ WF_vars(H!Disconnected /\ UNCHANGED <<device_vars, toHost>>)
  /\ WF_vars(H!Close /\ UNCHANGED <<device_vars, toHost>>)

-----------------------------------------------------------------------------
(* A tap acts on the screen it was made on: one made on Stop, or on the    *)
(* screen before, is never taken as Record, Use or Retry (show() empties   *)
(* the queue when it offers a choice).                                     *)
TapIsForThePrompt ==
  pc \in {"choose", "confirm_b"} \/ (pc = "speech" /\ state = "adjust") =>
    actions = None \/ actions.prompt = state

(* From the reply on, the two sides mean the same by it: the captures the  *)
(* Mac compared are the device's, under the question the device shows.     *)
SameEvidence ==
  state \in {"acknowledging", "adjust", "complete"} =>
    asked.ids = D!captureIds /\ asked.question = question

(* The Mac refuses the device only where their messages cross: a cancel    *)
(* after the last acknowledgement, an ack that arrives past the deadline,  *)
(* or what follows a reading the device gave up on.                        *)
NothingRefused ==
  CASE refused \in {"none", "idle"} -> TRUE
    [] refused = "cancel"           -> acknowledged = "r2"
    [] refused = "ack"              -> now >= expires
    [] OTHER                        -> playback = "failed"

(* Nothing is written behind a frame cut short by a timeout or a Cancel,   *)
(* not even the notice of that Cancel: the Mac would take its bytes for    *)
(* the rest of the frame ("Never append another frame after any            *)
(* failed/partial write", investigation.cpp:327).                          *)
FramesAreWhole == \A i \in 1..Len(toHost) - 1 : toHost[i] # Torn

(* A run always ends and gives the buttons and the media task back, with   *)
(* nobody at the device and whatever the Mac does.                         *)
RunEnds == <>(pc = "done")
=============================================================================
