---------------------------- MODULE ExplainSession ----------------------------
(***************************************************************************)
(* Explain, end to end: investigation_explain_analysis on the device's     *)
(* media task (investigation.cpp), the reducer it drives (D), the Mac      *)
(* session that answers it (H), and the connection between them.           *)
(*                                                                         *)
(* The optional voice note is uploaded and transcribed, its words shown if *)
(* the caller has a dialog, and the analysis is then explained and, when   *)
(* the Mac can, spoken.  Each call of the device that talks to the socket  *)
(* is a step; toHost is what the device sent and the Mac has not read, and *)
(* received counts what the device has read of the Mac's outbox.           *)
(*                                                                         *)
(* stop_speech belongs to the screen: here a stop may come at any moment   *)
(* of the playback.                                                        *)
(*                                                                         *)
(* A connection that cannot be made is one that dies before its first      *)
(* message.  Messages are whole: investigation_wire.h joins the frames.    *)
(***************************************************************************)
EXTENDS Naturals, Sequences, FiniteSets

CONSTANTS
  None,
  Transcriber, Speaker,  \* what the Mac service is configured with
  MaxChunks              \* speech_chunk messages of one reply, at most

Note == "q1"             \* the voice note's question_id
Explain == "explain"     \* the request id
Wait == 1                \* every time budget, in ticks of the clock

ASSUME ExplainConstants ==
  /\ None \notin {Note, Explain}
  /\ Transcriber \in BOOLEAN /\ Speaker \in BOOLEAN
  /\ MaxChunks \in Nat

VARIABLES
  state, speech, voice, questions, questionId, transcript, status, question,
  captures, deadline, ackSent, now,                        \* the reducer
  phase, questionIds, heard, operatorQuestion, seen, ids, requests, pending, asked, task,
  expires, replies, acknowledged, spoken, speaking, speechStop, stream, speechTask,
  handler, released, refused, link, outbox,                \* the Mac session
  pc,          \* where the media task is in investigation_explain_analysis
  note,        \* note != nullptr
  dialog,      \* hooks.show_transcript is set
  until,       \* the deadline of the wait it is in: dialog, reply or speech
  out,         \* out.transcript, out.text and out.error
  playback,    \* SpeechStream: "idle", "begun", "started", "ended"
  stopSent,    \* speech_stop was sent for it
  toHost,
  received

D == INSTANCE InvestigationProtocol WITH
       Ids <- {Note}, Session <- "here", Sessions <- {"here"}, Instants <- {},
       MaxQuestions <- 5, ConnectWait <- Wait, UploadWait <- Wait, ReplyWait <- Wait
H == INSTANCE HostSession WITH
       Ids <- {Note}, Requests <- {Explain}, MaxQuestions <- 5, clock <- now

d_vars == <<state, speech, voice, questions, questionId, transcript, status, question,
            captures, deadline, ackSent>>
h_vars == <<phase, questionIds, heard, operatorQuestion, seen, ids, requests, pending, asked, task,
            expires, replies, acknowledged, spoken, speaking, speechStop, stream, speechTask,
            handler, released, refused, outbox>>
stream_vars == <<playback, stopSent>>
call_vars == <<note, dialog>>
vars == <<d_vars, now, h_vars, link, pc, call_vars, until, out, stream_vars, toHost,
          received>>

Empty == [transcript |-> None, text |-> None, error |-> "none"]

Init ==
  /\ D!Init /\ H!Init
  /\ pc = "start" /\ note \in BOOLEAN /\ dialog \in BOOLEAN
  /\ until = 0 /\ out = Empty /\ playback = "idle" /\ stopSent = FALSE
  /\ toHost = <<>> /\ received = 0

-----------------------------------------------------------------------------
(* The socket.                                                             *)

(* Returning destroys the Socket, which closes the connection.             *)
Finish(error) ==
  /\ pc' = "done" /\ link' = FALSE
  /\ out' = [out EXCEPT !.error = error]

(* A send into a connection that just died may still succeed locally; one  *)
(* into a live connection may stall for 10 s.                              *)
Send(ms, next) ==
  \/ /\ toHost' = IF link THEN toHost \o ms ELSE toHost
     /\ pc' = next
     /\ UNCHANGED <<link, out>>
  \/ /\ Finish("dropped")
     /\ UNCHANGED toHost

Waiting == pc \in {"hello", "transcript", "dialog", "reply", "speech"}

(* The next whole message of the Mac.                                      *)
Message == outbox[received + 1]

(* The reducer ignores the fields it does not have; the session matches.   *)
FromHost(m) ==
  IF m.type = "ready" THEN [type |-> "ready", session |-> "here", speech |-> m.speech,
                            voice |-> m.voice]
  ELSE IF m.type = "transcript" THEN [type |-> "transcript", session |-> "here", key |-> m.key,
                                      status |-> m.status]
  ELSE [type |-> m.type, session |-> "here"]

-----------------------------------------------------------------------------
(* The media task.                                                         *)

Start ==
  /\ pc = "start"
  /\ D!Ask
  /\ Send(<<[type |-> "hello"]>>, "hello")
  /\ UNCHANGED <<h_vars, call_vars, until, stream_vars, received>>

(* active() and wait_reply(): the reducer's deadline, or a dead socket.    *)
ReplyTimeout ==
  /\ pc \in {"hello", "transcript"}
  /\ D!Tick
  /\ Finish("no_answer")
  /\ UNCHANGED <<h_vars, call_vars, until, stream_vars, toHost, received>>

PollError ==
  /\ Waiting /\ ~link
  /\ IF pc \in {"dialog", "reply"} THEN UNCHANGED d_vars /\ now' = now ELSE D!Disconnect
  /\ Finish(IF pc = "speech" THEN "none" ELSE "dropped")
  /\ UNCHANGED <<h_vars, call_vars, until, stream_vars, toHost, received>>

StartNote ==
  /\ pc = "note"
  /\ D!StartQuestion
  /\ pc' = "recorded"
  /\ UNCHANGED <<h_vars, link, call_vars, until, out, stream_vars, toHost, received>>

(* question_recorded() and the question_start of upload_question().        *)
UploadNote ==
  /\ pc = "recorded"
  /\ D!QuestionRecorded(Note)
  /\ Send(<<[type |-> "question_start", key |-> Note]>>, "upload")
  /\ UNCHANGED <<h_vars, call_vars, until, stream_vars, received>>

(* Its chunks and question_end; the deadline is looked at before each.     *)
EndNote ==
  /\ pc = "upload"
  /\ \/ /\ D!Tick
        /\ Finish("note") /\ UNCHANGED toHost
     \/ /\ ~D!expired
        /\ Send(<<[type |-> "question_end", key |-> Note, valid |-> TRUE]>>, "transcript")
        /\ UNCHANGED <<d_vars, now>>
  /\ UNCHANGED <<h_vars, call_vars, until, stream_vars, received>>

(* poll_choice(): 1 goes on, 0 and 2 (record again) return.                *)
Choose ==
  /\ pc = "dialog"
  /\ \/ /\ pc' = IF state = "confirming" THEN "confirm" ELSE "ask"
        /\ UNCHANGED <<link, out>>
     \/ Finish("none")
  /\ UNCHANGED <<d_vars, now, h_vars, call_vars, until, stream_vars, toHost, received>>

(* Nobody chooses: the wait ends by itself.                                *)
DialogTimeout ==
  /\ pc = "dialog" /\ now >= until
  /\ Finish("none")
  /\ UNCHANGED <<d_vars, now, h_vars, call_vars, until, stream_vars, toHost, received>>

(* The heard words become the device's, and the Mac is told; a failed send *)
(* returns with them already in out.                                       *)
ConfirmWith(sent) ==
  /\ pc = "confirm"
  /\ D!ConfirmQuestion(TRUE)
  /\ LET words == [out EXCEPT !.transcript = transcript]
     IN  \/ /\ toHost' = IF link THEN toHost \o sent ELSE toHost
            /\ pc' = "ask" /\ out' = words /\ UNCHANGED link
         \/ /\ pc' = "done" /\ link' = FALSE
            /\ out' = [words EXCEPT !.error = "dropped"] /\ UNCHANGED toHost
  /\ UNCHANGED <<h_vars, call_vars, until, stream_vars, received>>

(* Bug: the transcript is confirmed as rejected, or not at all.            *)
BugConfirmRejects ==
  ConfirmWith(<<[type |-> "question_confirm", key |-> Note, accepted |-> FALSE]>>)
BugConfirmForgotten == ConfirmWith(<<>>)

Confirm ==
  ConfirmWith(<<[type |-> "question_confirm", key |-> Note, accepted |-> TRUE]>>)

AskAgent ==
  /\ pc = "ask"
  /\ Send(<<[type |-> "analysis_explain", key |-> Explain]>>, "reply")
  /\ until' = now + Wait
  /\ UNCHANGED <<d_vars, now, h_vars, call_vars, stream_vars, received>>

(* Bug: the wait for the agent has no end while the socket lives.          *)
BugNoReplyTimeout ==
  /\ pc = "reply" /\ now >= until /\ ~link
  /\ Finish("late")
  /\ UNCHANGED <<d_vars, now, h_vars, call_vars, until, stream_vars, toHost, received>>

WaitTimeout ==
  /\ pc = "reply" /\ now >= until
  /\ Finish("late")
  /\ UNCHANGED <<d_vars, now, h_vars, call_vars, until, stream_vars, toHost, received>>

Speak ==
  /\ pc = "speak"
  /\ \/ /\ toHost' = IF link THEN Append(toHost, [type |-> "speak", key |-> Explain]) ELSE toHost
        /\ pc' = "speech" /\ playback' = "begun" /\ until' = now + Wait
        /\ UNCHANGED <<d_vars, now, link, out>>
     \/ /\ D!Disconnect /\ Finish("none") /\ UNCHANGED <<toHost, playback, until>>
  /\ UNCHANGED <<h_vars, call_vars, stopSent, received>>

(* The person, a codec that failed to open or a failed write ends the      *)
(* playback; the stream is still read to its end.                          *)
StopSpeech ==
  /\ pc = "speech" /\ playback # "ended" /\ ~stopSent
  /\ stopSent' = TRUE
  /\ \/ /\ toHost' = IF link THEN Append(toHost, [type |-> "speech_stop", key |-> Explain])
                     ELSE toHost
        /\ UNCHANGED <<d_vars, now, pc, link, out>>
     \/ D!Disconnect /\ Finish("none") /\ UNCHANGED toHost
  /\ UNCHANGED <<h_vars, call_vars, until, playback, received>>

(* SpeechStream.receive(): what may follow what.                           *)
Follows(m) ==
  /\ m.type \in {"speech_start", "speech_chunk", "speech_end"} /\ m.key = Explain
  /\ m.type = "speech_start" <=> playback = "begun"

(* Played to the end, stopped after speech_end, or out of time.            *)
SpeechOver ==
  /\ pc = "speech" /\ (playback = "ended" \/ now >= until)
  /\ Finish("none")
  /\ UNCHANGED <<d_vars, now, h_vars, call_vars, until, stream_vars, toHost, received>>

(* What the wait takes.  Anything else ends the call; outside the dialog   *)
(* and the wait for the agent the reducer is told.                         *)
Expected(m) ==
  CASE pc = "hello"      -> m.type = "ready"
    [] pc = "transcript" -> m.type = "transcript" /\ m.key = questionId
    [] pc = "dialog"     -> FALSE
    [] pc = "reply"      -> m.type \in {"incomplete", "analysis_reply"}
    [] pc = "speech"     -> playback # "ended" /\ Follows(m)

OnReady(m) ==
  /\ pc = "hello"
  /\ D!Receive(FromHost(m))
  /\ IF state' = "ready_a"
     THEN pc' = (IF note /\ speech' THEN "note" ELSE "ask") /\ UNCHANGED <<link, out>>
     ELSE Finish("no_answer")
  /\ UNCHANGED <<until, playback>>

OnTranscript(m) ==
  /\ pc = "transcript"
  /\ D!Receive(FromHost(m))
  /\ IF D!terminal' THEN Finish("note")
     ELSE /\ pc' = IF dialog THEN "dialog" ELSE IF state' = "confirming" THEN "confirm" ELSE "ask"
          /\ UNCHANGED <<link, out>>
  /\ until' = now + Wait /\ UNCHANGED playback

(* The reading is shown, then spoken if the Mac can.                       *)
OnAgent(m) ==
  /\ pc = "reply"
  /\ IF m.type = "incomplete" THEN Finish("agent")
     ELSE /\ out' = [out EXCEPT !.text = m.key]
          /\ IF voice THEN pc' = "speak" /\ UNCHANGED link ELSE pc' = "done" /\ link' = FALSE
  /\ UNCHANGED <<d_vars, now, until, playback>>

OnSpeech(m) ==
  /\ pc = "speech"
  /\ playback' = IF m.type = "speech_end" THEN "ended" ELSE "started"
  /\ UNCHANGED <<d_vars, now, link, pc, until, out>>

Unexpected ==
  /\ IF pc \in {"dialog", "reply"} THEN UNCHANGED d_vars /\ now' = now ELSE D!Fail
  /\ Finish(IF pc = "speech" THEN "none" ELSE "unexpected")
  /\ UNCHANGED <<until, playback>>

Read ==
  /\ Waiting /\ received < Len(outbox) /\ received' = received + 1
  /\ IF Expected(Message)
     THEN OnReady(Message) \/ OnTranscript(Message) \/ OnAgent(Message) \/ OnSpeech(Message)
     ELSE Unexpected
  /\ UNCHANGED <<h_vars, call_vars, stopSent, toHost>>

MediaTask ==
  \/ Start \/ ReplyTimeout \/ PollError \/ StartNote \/ UploadNote \/ EndNote
  \/ DialogTimeout \/ Confirm \/ AskAgent \/ WaitTimeout \/ Speak \/ SpeechOver \/ Read

-----------------------------------------------------------------------------
device_vars == <<d_vars, pc, call_vars, until, out, stream_vars, received>>

HostReads ==
  /\ toHost # <<>> /\ H!Receive(Head(toHost)) /\ toHost' = Tail(toHost)
  /\ UNCHANGED device_vars

HostStep ==
  /\ H!IdleTimeout \/ H!Disconnected \/ H!Close \/ H!TaskStep \/ H!Drop
  /\ UNCHANGED <<device_vars, toHost>>

(* Time matters only to a wait, and need not pass its end.                 *)
Advance ==
  /\ now < deadline \/ (pc \in {"dialog", "reply", "speech"} /\ now < until)
  /\ now' = now + 1
  /\ UNCHANGED <<d_vars, h_vars, link, pc, call_vars, until, out, stream_vars, toHost,
                 received>>

Next == MediaTask \/ Choose \/ StopSpeech \/ HostReads \/ HostStep \/ Advance

Spec == Init /\ [][Next]_vars

(* The media task never blocks outside these waits, time passes, and the   *)
(* service's event loop runs; nothing makes the person, the agent or the   *)
(* speech engine act.                                                      *)
FairSpec ==
  /\ Spec
  /\ WF_vars(MediaTask) /\ WF_vars(Advance)
  /\ WF_vars(H!Disconnected /\ UNCHANGED <<device_vars, toHost>>)
  /\ WF_vars(H!Close /\ UNCHANGED <<device_vars, toHost>>)

-----------------------------------------------------------------------------
(* Nothing the device sends in an explanation is refused by the Mac: only  *)
(* silence ends the session from that side.                                *)
NothingRefused == refused \in {"none", "idle"}

(* The words shown as the operator's are the words the agent was given,    *)
(* and none were given that were not shown.                                *)
ShownWordsAreUsed == out.text # None => asked.question = out.transcript

(* The Mac never sends what the device is not waiting for: nothing during  *)
(* the dialog, nothing after the speech, no late or second answer.         *)
NoSurprise == out.error # "unexpected" /\ (playback # "idle" => state # "incomplete")

(* The media task, which also owns the camera, the codec and every other   *)
(* request of the screens, always comes back from the call.                *)
CallReturns == <>(pc = "done")
=============================================================================
