----------------------------- MODULE HostSession -----------------------------
(***************************************************************************)
(* One connection of the Mac service (tools/investigation_service.py):     *)
(* MockSession, the tasks it starts, and the handler of serve_mock that    *)
(* feeds it messages and closes it.                                        *)
(*                                                                         *)
(* asyncio runs one callback at a time and a handler's state changes all   *)
(* come before its first await, so each message is one step; what          *)
(* interleaves is the messages, the end of a provider, transcriber or      *)
(* speech engine call, the death of the connection and close().            *)
(*                                                                         *)
(* Sending on a dead connection raises.  In the handler that ends the      *)
(* session; in a task it ends the task with an exception (task = "dead"),  *)
(* which close() meets again when it drains the task.                      *)
(*                                                                         *)
(* Chunks, message budgets and archive limits are left out; evidence that  *)
(* fails verification is a capture_end or question_end with valid = FALSE. *)
(***************************************************************************)
EXTENDS Naturals, Sequences, FiniteSets

CONSTANTS
  Ids,           \* capture and question ids
  Requests,      \* request ids
  None,          \* no request, no id
  Transcriber,   \* a speech-to-text engine is configured
  Speaker,       \* a speech output engine is configured
  MaxQuestions,  \* MAX_QUESTIONS
  MaxChunks,     \* speech_chunk messages of one reply, at most
  Wait           \* milliseconds a turn allows for its reply (bound)

ASSUME HostConstants ==
  /\ None \notin Ids \cup Requests
  /\ Transcriber \in BOOLEAN /\ Speaker \in BOOLEAN
  /\ MaxQuestions \in Nat /\ MaxChunks \in Nat /\ Wait \in Nat \ {0}

VARIABLES
  phase,        \* MockSession.phase
  questionIds,  \* question_ids
  heard,        \* the question whose transcript awaits confirmation
  operatorQuestion,  \* the question whose words the text model gets
  seen,         \* store.seen: every capture id ever started
  ids,          \* the complete captures, in order
  requests,     \* requests
  pending,      \* the request being answered or awaiting its ack
  asked,        \* what the pending request was built from
  task,         \* the task answering or transcribing
  expires,      \* when the pending request does
  replies,      \* requests whose checked text is kept
  acknowledged, \* the reply that may be spoken
  spoken,       \* requests spoken once
  speaking,     \* the reply being spoken
  speechStop,   \* speech_stop was received
  stream,       \* speech messages sent for it
  speechTask,   \* "none", "running" or "dead"
  handler,      \* "reading", "closing" (await socket.close), "raised", "closed"
  released,     \* close() closed the stores and recorded 'closed'
  refused,      \* type of the message the session was refused for
  link,         \* the WebSocket is open
  outbox,       \* every message sent to the device, in order
  clock         \* milliseconds

ask_vars == <<questionIds, heard, operatorQuestion>>
reply_vars == <<requests, pending, asked, expires, replies, acknowledged>>
speech_vars == <<spoken, speaking, speechStop, stream, speechTask>>
wire_vars == <<handler, released, refused, link, outbox>>
vars == <<phase, ask_vars, seen, ids, task, reply_vars, speech_vars, wire_vars, clock>>

Terminal == {"complete", "cancelled", "offline", "incomplete"}
Recording == {"recording_a", "recording_b", "recording_repeat"}

Init ==
  /\ phase = "new"
  /\ questionIds = <<>> /\ heard = None /\ operatorQuestion = None
  /\ seen = {} /\ ids = <<>>
  /\ requests = {} /\ pending = None /\ asked = None /\ expires = 0
  /\ replies = {} /\ acknowledged = None
  /\ task = "none"
  /\ spoken = {} /\ speaking = None /\ speechStop = FALSE /\ stream = 0
  /\ speechTask = "none"
  /\ handler = "reading" /\ released = FALSE /\ refused = "none"
  /\ link = TRUE /\ outbox = <<>>
  /\ clock = 0

-----------------------------------------------------------------------------
(* emit() from the handler: on a dead connection it raises, and the tasks  *)
(* get no turn before close() cancels them.                                *)
Answer(m) ==
  /\ outbox' = IF link THEN Append(outbox, m) ELSE outbox
  /\ handler' = IF link THEN "reading" ELSE "raised"
  /\ UNCHANGED <<released, refused, link>>

(* A handled message without an answer.                                    *)
Silent == UNCHANGED wire_vars

Ready == [type |-> "ready", speech |-> Transcriber, voice |-> Speaker]
Incomplete == [type |-> "incomplete"]

(* What holds of every message but hello before its own checks.            *)
Admitted(m) ==
  /\ phase # "new"
  /\ speaking = None \/ m.type \in {"speech_stop", "cancel"}

Running == phase \notin Terminal

MayHello(m) == m.type = "hello" /\ phase = "new"

OnHello(m) ==
  /\ MayHello(m)
  /\ phase' = "await_a"
  /\ Answer(Ready)
  /\ UNCHANGED <<ask_vars, seen, ids, task, reply_vars, speech_vars, clock>>

MayCancel(m) == m.type = "cancel" /\ phase \notin {"complete", "cancelled"}

(* Cancelling a task that already died does not revive it.                 *)
Stopped(t) == IF t = "dead" THEN "dead" ELSE "none"

(* Bug: the tasks are left running.                                        *)
BugCancelKeepsTasks(m) ==
  /\ MayCancel(m)
  /\ phase' = "cancelled" /\ pending' = None
  /\ Answer([type |-> "cancelled"])
  /\ UNCHANGED <<ask_vars, seen, ids, requests, asked, expires, replies, acknowledged, task,
                 speech_vars, clock>>

OnCancel(m) ==
  /\ MayCancel(m)
  /\ phase' = "cancelled" /\ pending' = None
  /\ task' = Stopped(task)
  /\ speechTask' = Stopped(speechTask) /\ speaking' = None
  /\ Answer([type |-> "cancelled"])
  /\ UNCHANGED <<ask_vars, seen, ids, requests, asked, expires, replies, acknowledged,
                 spoken, speechStop, stream, clock>>

-----------------------------------------------------------------------------
(* The spoken question.                                                    *)

(* Bug: a question is taken whatever was captured or asked before.         *)
BugAskLater(m) ==
  /\ m.type = "question_start" /\ Transcriber
  /\ phase \in {"await_a", "adjust"}
  /\ Len(questionIds) < MaxQuestions
  /\ \A i \in 1..Len(questionIds) : questionIds[i] # m.key
  /\ m.key \notin seen

MayAsk(m) ==
  /\ m.type = "question_start" /\ Running
  /\ Transcriber /\ phase = "await_a" /\ ids = <<>>
  /\ Len(questionIds) < MaxQuestions
  /\ \A i \in 1..Len(questionIds) : questionIds[i] # m.key
  /\ m.key \notin seen

OnQuestionStart(m) ==
  /\ MayAsk(m)
  /\ questionIds' = Append(questionIds, m.key)
  /\ phase' = "question_upload"
  /\ Silent
  /\ UNCHANGED <<heard, operatorQuestion, seen, ids, task, reply_vars, speech_vars, clock>>

(* The bytes arrived and were verified, or the session is refused.         *)
MayEndQuestion(m) ==
  /\ m.type = "question_end" /\ Running
  /\ phase = "question_upload" /\ m.key = questionIds[Len(questionIds)] /\ m.valid

OnQuestionEnd(m) ==
  /\ MayEndQuestion(m)
  /\ phase' = "transcribing" /\ task' = "transcribe"
  /\ Silent
  /\ UNCHANGED <<ask_vars, seen, ids, reply_vars, speech_vars, clock>>

MayConfirm(m) ==
  /\ m.type = "question_confirm" /\ Running
  /\ phase = "await_confirm" /\ heard # None /\ m.key = heard

OnConfirm(m) ==
  /\ MayConfirm(m)
  /\ operatorQuestion' = IF m.accepted THEN heard ELSE operatorQuestion
  /\ heard' = None /\ phase' = "await_a"
  /\ Silent
  /\ UNCHANGED <<questionIds, seen, ids, task, reply_vars, speech_vars, clock>>

-----------------------------------------------------------------------------
(* Captures.                                                               *)

(* Bug: captures are counted, but not held back while the model answers.   *)
BugCaptureAnyPhase(m) ==
  /\ m.type = "capture_start" /\ Running
  /\ m.key \notin seen /\ Cardinality(seen) < 3
  /\ \A i \in 1..Len(questionIds) : questionIds[i] # m.key

(* Bug: B may follow A without the guidance.                               *)
BugSkipGuidance(m) ==
  /\ m.type = "capture_start" /\ Running
  /\ phase \in {"await_a", "guide_ready", "adjust"} \/ (phase = "compare_ready" /\ Len(ids) = 2)
  /\ m.key \notin seen /\ Cardinality(seen) < 3
  /\ \A i \in 1..Len(questionIds) : questionIds[i] # m.key

MayCapture(m) ==
  /\ m.type = "capture_start" /\ Running
  /\ phase \in {"await_a", "adjust"} \/ (phase = "compare_ready" /\ Len(ids) = 2)
  /\ m.key \notin seen /\ Cardinality(seen) < 3
  /\ \A i \in 1..Len(questionIds) : questionIds[i] # m.key

OnCaptureStart(m) ==
  /\ MayCapture(m)
  /\ seen' = seen \cup {m.key}
  /\ phase' = <<"recording_a", "recording_b", "recording_repeat">>[Len(ids) + 1]
  /\ Answer([type |-> "capture_ack", key |-> m.key, stage |-> "start"])
  /\ UNCHANGED <<ask_vars, ids, task, reply_vars, speech_vars, clock>>

(* The store knows which capture is active: the last one started, the only *)
(* member of seen that is not yet complete.                                *)
MayEndCapture(m) ==
  /\ m.type = "capture_end" /\ phase \in Recording /\ m.valid
  /\ m.key \in seen /\ \A i \in 1..Len(ids) : ids[i] # m.key

OnCaptureEnd(m) ==
  /\ MayEndCapture(m)
  /\ ids' = Append(ids, m.key)
  /\ phase' = IF ids = <<>> THEN "guide_ready" ELSE "compare_ready"
  /\ Answer([type |-> "capture_ack", key |-> m.key, stage |-> "complete"])
  /\ UNCHANGED <<ask_vars, seen, task, reply_vars, speech_vars, clock>>

-----------------------------------------------------------------------------
(* Requests: a turn over the captures, or one explanation of an analysis.  *)

(* Bug: the comparison may reuse the id of the guidance request.           *)
BugReusedRequest(m) ==
  /\ m.type = "turn" /\ Running
  /\ phase \in {"guide_ready", "compare_ready"} /\ pending = None
  /\ Cardinality(requests) < 2
  /\ m.ids = ids /\ m.adjusted = (Len(ids) > 1)

MayTurn(m) ==
  /\ m.type = "turn" /\ Running
  /\ phase \in {"guide_ready", "compare_ready"} /\ pending = None
  /\ m.key \notin requests /\ Cardinality(requests) < 2
  /\ m.ids = ids /\ m.adjusted = (Len(ids) > 1)

OnTurn(m) ==
  /\ MayTurn(m)
  /\ pending' = m.key /\ requests' = requests \cup {m.key}
  /\ asked' = [ids |-> ids, question |-> operatorQuestion, deadline |-> m.deadline]
  /\ expires' = clock + (m.deadline - m.sent)
  /\ phase' = "pending" /\ task' = "respond"
  /\ Silent
  /\ UNCHANGED <<ask_vars, seen, ids, replies, acknowledged, speech_vars, clock>>

MayExplain(m) ==
  /\ m.type = "analysis_explain" /\ Running
  /\ phase = "await_a" /\ ids = <<>> /\ pending = None /\ requests = {}

OnExplain(m) ==
  /\ MayExplain(m)
  /\ pending' = m.key /\ requests' = {m.key}
  /\ asked' = [ids |-> <<>>, question |-> operatorQuestion, deadline |-> 0]
  /\ phase' = "pending" /\ task' = "explain"
  /\ Silent
  /\ UNCHANGED <<ask_vars, seen, ids, expires, replies, acknowledged, speech_vars, clock>>

MayAck(m) ==
  /\ m.type = "ack" /\ Running
  /\ phase = "await_ack" /\ pending # None
  /\ clock < expires
  /\ m.key = pending

OnAck(m) ==
  /\ MayAck(m)
  /\ pending' = None /\ acknowledged' = m.key
  /\ phase' = IF Len(ids) = 1 THEN "adjust" ELSE "complete"
  /\ Answer([type |-> "acknowledged", key |-> m.key, state |-> phase'])
  /\ UNCHANGED <<ask_vars, seen, ids, task, requests, asked, expires, replies, speech_vars, clock>>

-----------------------------------------------------------------------------
(* Speech.                                                                 *)

(* Bug: any kept reply may be spoken, acknowledged or not, again or not.   *)
BugSpeakAnyReply(m) ==
  m.type = "speak" /\ Speaker /\ m.key \in replies

MaySpeak(m) ==
  /\ m.type = "speak" /\ Speaker
  /\ phase \in {"adjust", "complete"} /\ m.key = acknowledged /\ m.key \notin spoken

OnSpeak(m) ==
  /\ MaySpeak(m)
  /\ spoken' = spoken \cup {m.key} /\ speaking' = m.key
  /\ speechStop' = FALSE /\ stream' = 0
  /\ speechTask' = "running"
  /\ Silent
  /\ UNCHANGED <<phase, ask_vars, seen, ids, task, reply_vars, clock>>

(* A stop may cross the end of the stream; only a reply that was never     *)
(* spoken is refused.                                                      *)
MayStop(m) == m.type = "speech_stop" /\ m.key \in spoken

OnSpeechStop(m) ==
  /\ MayStop(m)
  /\ speechStop' = (speechStop \/ speaking = m.key)
  /\ Silent
  /\ UNCHANGED <<phase, ask_vars, seen, ids, task, reply_vars, spoken, speaking, stream,
                 speechTask, clock>>

-----------------------------------------------------------------------------
(* The handler's loop.                                                     *)

(* Bug: the speaking reply holds back nothing.                             *)
BugAcceptWhileSpeaking(m) ==
  \/ MayHello(m)
  \/ /\ phase # "new"
     /\ MayCancel(m) \/ MayAsk(m) \/ MayEndQuestion(m) \/ MayConfirm(m) \/ MayCapture(m)
        \/ MayEndCapture(m) \/ MayTurn(m) \/ MayExplain(m) \/ MayAck(m) \/ MaySpeak(m)
        \/ MayStop(m)

Legal(m) ==
  \/ MayHello(m)
  \/ /\ Admitted(m)
     /\ MayCancel(m) \/ MayAsk(m) \/ MayEndQuestion(m) \/ MayConfirm(m) \/ MayCapture(m)
        \/ MayEndCapture(m) \/ MayTurn(m) \/ MayExplain(m) \/ MayAck(m) \/ MaySpeak(m)
        \/ MayStop(m)

Handle(m) ==
  \/ OnHello(m) \/ OnCancel(m) \/ OnQuestionStart(m) \/ OnQuestionEnd(m) \/ OnConfirm(m)
  \/ OnCaptureStart(m) \/ OnCaptureEnd(m) \/ OnTurn(m) \/ OnExplain(m) \/ OnAck(m)
  \/ OnSpeak(m) \/ OnSpeechStop(m)

(* A refused message, or none for too long: the handler marks the session  *)
(* incomplete, whatever it was, and closes the socket.                     *)
Refuse(why) ==
  /\ phase' = IF phase = "new" THEN phase ELSE "incomplete"
  /\ handler' = "closing" /\ link' = FALSE /\ refused' = why
  /\ UNCHANGED <<ask_vars, seen, ids, task, reply_vars, speech_vars, released, outbox, clock>>

Receive(m) ==
  /\ handler = "reading"
  /\ IF Legal(m) THEN Handle(m) ELSE Refuse(m.type)

IdleTimeout == handler = "reading" /\ Refuse("idle")

(* recv() raises once the connection is gone.                              *)
Disconnected ==
  /\ handler = "reading" /\ ~link
  /\ handler' = "raised"
  /\ UNCHANGED <<phase, ask_vars, seen, ids, task, reply_vars, speech_vars, released, refused,
                 link, outbox, clock>>

(* Bug: close() waits for the tasks without cancelling them.               *)
BugCloseWaits ==
  /\ handler \in {"closing", "raised"} /\ task \in {"none", "dead"} /\ speechTask \in {"none", "dead"}
  /\ handler' = "closed" /\ link' = FALSE /\ speaking' = None
  /\ phase' = IF phase \in Terminal THEN phase ELSE "offline"
  /\ pending' = None /\ released' = TRUE
  /\ UNCHANGED <<ask_vars, seen, ids, requests, asked, expires, replies, acknowledged, spoken,
                 speechStop, stream, task, speechTask, refused, outbox, clock>>

(* close(): cancel both tasks, drain them, close the stores and record the *)
(* end.  Draining a task that died re-raises its exception, and the rest   *)
(* of close() is skipped; the handler is over either way.                  *)
Close ==
  /\ handler \in {"closing", "raised"}
  /\ handler' = "closed" /\ link' = FALSE
  /\ task' = Stopped(task) /\ speechTask' = Stopped(speechTask) /\ speaking' = None
  /\ IF "dead" \in {task, speechTask} \/ phase = "new"
     THEN UNCHANGED <<phase, pending, released>>
     ELSE /\ phase' = IF phase \in Terminal THEN phase ELSE "offline"
          /\ pending' = None /\ released' = TRUE
  /\ UNCHANGED <<ask_vars, seen, ids, requests, asked, expires, replies, acknowledged, spoken,
                 speechStop, stream, refused, outbox, clock>>

-----------------------------------------------------------------------------
(* The tasks.  Say(m, s) is emit() at the end of a task.                   *)
Say(m) ==
  /\ outbox' = IF link THEN Append(outbox, m) ELSE outbox
  /\ task' = IF link THEN "none" ELSE "dead"
  /\ UNCHANGED <<handler, released, refused, link>>

(* respond and explain send the reply inside their try block: a dead       *)
(* connection makes them fail, and their own failure report dies with it.  *)
Failed ==
  /\ phase' = "incomplete" /\ pending' = None
  /\ Say(Incomplete)
  /\ UNCHANGED <<requests, asked, expires, acknowledged>>

Reply ==
  [type |-> IF Len(asked.ids) = 1 THEN "guidance" ELSE "comparison",
   key |-> pending, ids |-> asked.ids, deadline |-> asked.deadline]

Respond ==
  /\ task = "respond" /\ phase = "pending" /\ clock < expires
  /\ replies' = replies \cup {pending}
  /\ IF link THEN /\ phase' = "await_ack" /\ Say(Reply)
                  /\ UNCHANGED <<requests, pending, asked, expires, acknowledged>>
     ELSE Failed
  /\ UNCHANGED <<ask_vars, seen, ids, speech_vars, clock>>

(* The provider failed, or the request's time is up.                       *)
RespondFails ==
  /\ task = "respond"
  /\ Failed
  /\ UNCHANGED <<replies, ask_vars, seen, ids, speech_vars, clock>>

(* A reply to a request that is no longer the pending one is dropped.      *)
RespondDropped ==
  /\ task \in {"respond", "explain"} /\ phase # "pending"
  /\ task' = "none"
  /\ UNCHANGED <<phase, ask_vars, seen, ids, reply_vars, speech_vars, wire_vars, clock>>

Explain ==
  /\ task = "explain" /\ phase = "pending"
  /\ replies' = replies \cup {pending}
  /\ IF link THEN /\ phase' = "complete" /\ pending' = None /\ acknowledged' = pending
                  /\ Say([type |-> "analysis_reply", key |-> pending])
                  /\ UNCHANGED <<requests, asked, expires>>
     ELSE /\ phase' = "incomplete" /\ pending' = None /\ acknowledged' = pending
          /\ Say(Incomplete)
          /\ UNCHANGED <<requests, asked, expires>>
  /\ UNCHANGED <<ask_vars, seen, ids, speech_vars, clock>>

ExplainFails ==
  /\ task = "explain"
  /\ Failed
  /\ UNCHANGED <<replies, ask_vars, seen, ids, speech_vars, clock>>

(* Bug: the empty transcript of a failed engine is sent, then sent again.  *)
BugTranscribeAgain(status) ==
  /\ task = "transcribe" /\ phase \in {"transcribing", "await_a"}
  /\ heard' = IF status = "heard" THEN questionIds[Len(questionIds)] ELSE None
  /\ phase' = IF status = "heard" THEN "await_confirm" ELSE "await_a"
  /\ outbox' = Append(outbox, [type |-> "transcript", key |-> questionIds[Len(questionIds)],
                               status |-> status])
  /\ task' = IF status = "failed" /\ phase = "transcribing" THEN "transcribe" ELSE "none"
  /\ UNCHANGED <<questionIds, operatorQuestion, seen, ids, reply_vars, speech_vars, handler,
                 released, refused, link, clock>>

(* Ten seconds bound the engine, so one of the three always comes.         *)
Transcribe(status) ==
  /\ task = "transcribe"
  /\ IF phase = "transcribing"
     THEN /\ heard' = IF status = "heard" THEN questionIds[Len(questionIds)] ELSE None
          /\ phase' = IF status = "heard" THEN "await_confirm" ELSE "await_a"
          /\ Say([type |-> "transcript", key |-> questionIds[Len(questionIds)],
                  status |-> status])
     ELSE task' = "none" /\ UNCHANGED <<phase, heard, wire_vars>>
  /\ UNCHANGED <<questionIds, operatorQuestion, seen, ids, reply_vars, speech_vars, clock>>

(* speak(): start, chunks, end.  speaking is cleared before speech_end is  *)
(* sent.  A stop ends the engine's stream early.                           *)
SpeechSend(m) ==
  /\ speaking # None /\ link
  /\ outbox' = Append(outbox, m)
  /\ UNCHANGED <<phase, ask_vars, seen, ids, task, reply_vars, spoken, speechStop, handler,
                 released, refused, link, clock>>

SpeechStart ==
  /\ stream = 0 /\ stream' = 1
  /\ SpeechSend([type |-> "speech_start", key |-> speaking])
  /\ UNCHANGED <<speaking, speechTask>>

SpeechChunk ==
  /\ stream \in 1..MaxChunks /\ stream' = stream + 1
  /\ SpeechSend([type |-> "speech_chunk", key |-> speaking])
  /\ UNCHANGED <<speaking, speechTask>>

SpeechEnd(status) ==
  /\ stream > 0
  /\ speaking' = None /\ speechTask' = "none"
  /\ SpeechSend([type |-> "speech_end", key |-> speaking,
                 status |-> IF status = "complete" /\ speechStop THEN "stopped" ELSE status])
  /\ UNCHANGED stream

SpeechDies ==
  /\ speaking # None /\ ~link
  /\ speaking' = None /\ speechTask' = "dead"
  /\ UNCHANGED <<phase, ask_vars, seen, ids, task, reply_vars, spoken, speechStop, stream,
                 wire_vars, clock>>

TaskStep ==
  /\ handler # "raised"
  /\ \/ Respond \/ RespondFails \/ RespondDropped \/ Explain \/ ExplainFails
     \/ \E status \in {"heard", "empty", "failed"} : Transcribe(status)
     \/ SpeechStart \/ SpeechChunk \/ SpeechDies
     \/ \E status \in {"complete", "failed"} : SpeechEnd(status)

(* The connection dies between two messages.                               *)
Drop ==
  /\ link /\ link' = FALSE
  /\ UNCHANGED <<phase, ask_vars, seen, ids, task, reply_vars, speech_vars, handler, released,
                 refused, outbox, clock>>

Advance ==
  /\ phase \in {"pending", "await_ack"} /\ clock < expires
  /\ clock' = clock + 1
  /\ UNCHANGED <<phase, ask_vars, seen, ids, task, reply_vars, speech_vars, wire_vars>>

-----------------------------------------------------------------------------
(* A client that sends anything, in any order.                             *)
Messages ==
  [type : {"hello", "cancel"}]
    \cup [type : {"question_start", "capture_start"}, key : Ids]
    \cup [type : {"question_end", "capture_end"}, key : Ids, valid : BOOLEAN]
    \cup [type : {"question_confirm"}, key : Ids, accepted : BOOLEAN]
    \cup [type : {"turn"}, key : Requests, ids : {ids, <<>>}, adjusted : BOOLEAN,
          sent : {0}, deadline : {Wait}]
    \cup [type : {"ack", "speak", "speech_stop", "analysis_explain"}, key : Requests]

Next ==
  \/ \E m \in Messages : Receive(m)
  \/ IdleTimeout \/ Disconnected \/ Close
  \/ TaskStep
  \/ Drop \/ Advance

Spec == Init /\ [][Next]_vars

(* Every read is bounded (30 s, or 600 s while the person is busy) and the *)
(* event loop runs what is ready.  Nothing bounds a speech engine, and     *)
(* nothing makes a client send.                                            *)
FairSpec == Spec /\ WF_vars(IdleTimeout) /\ WF_vars(Disconnected) /\ WF_vars(Close)

-----------------------------------------------------------------------------
Sent(types) == {i \in 1..Len(outbox) : outbox[i].type \in types}
TurnReplies == {"guidance", "comparison"}
Answers == TurnReplies \cup {"analysis_reply"}

(* From the turn to its ack a request has the session to itself: no        *)
(* capture, question or late transcript slips in while the model answers,  *)
(* so the reply that is acknowledged is about the evidence and the words   *)
(* of that moment (receive(), capture(), question()).                      *)
RequestIsFrozen ==
  Running =>
    /\ pending # None <=> phase \in {"pending", "await_ack"}
    /\ pending # None => asked.ids = ids /\ asked.question = operatorQuestion

(* Nothing follows "cancelled" on the wire: no reply, transcript, failure  *)
(* report or speech of a task that was running when the device cancelled.  *)
CancelIsLast == \A i \in Sent({"cancelled"}) : i = Len(outbox)

(* A spoken reply is contiguous on the wire: after speech_start come only  *)
(* its chunks until its speech_end, unless the device cancels.             *)
StreamContiguous ==
  \A i \in Sent({"speech_chunk", "speech_end"}) :
    outbox[i - 1].type \in {"speech_start", "speech_chunk"} /\ outbox[i - 1].key = outbox[i].key

(* No request gets two answers, whatever the device resends, and a reply   *)
(* is spoken at most once, and only after the device was told that it was  *)
(* accepted: after its "acknowledged", or as the analysis reply.           *)
AnsweredOnce ==
  /\ \A i, j \in Sent(Answers) : outbox[i].key = outbox[j].key => i = j
  /\ \A i \in Sent({"speech_start"}) :
       /\ \E j \in Sent({"acknowledged", "analysis_reply"}) : j < i /\ outbox[j].key = outbox[i].key
       /\ \A j \in Sent({"speech_start"}) : outbox[j].key = outbox[i].key => j = i

(* A complete session is an explanation of one analysis, or guidance over  *)
(* A and then a comparison over every capture, both acknowledged.          *)
CompleteHasEvidence ==
  phase = "complete" =>
    IF ids = <<>>
    THEN Cardinality(Sent(Answers)) = 1 /\ Sent({"analysis_reply"}) # {}
    ELSE \E i \in Sent({"guidance"}), j \in Sent({"comparison"}) :
           /\ i < j /\ Len(ids) \in {2, 3}
           /\ outbox[i].ids = SubSeq(ids, 1, 1) /\ outbox[j].ids = ids
           /\ requests = {outbox[i].key, outbox[j].key} /\ acknowledged = outbox[j].key

(* The operator's words are settled once evidence or a request exists, and *)
(* while the link is up they are a transcript the device was sent.         *)
QuestionSettled ==
  [][operatorQuestion' # operatorQuestion =>
       /\ ids = <<>> /\ seen = {} /\ requests = {}
       /\ link => \E i \in Sent({"transcript"}) :
            outbox[i].key = operatorQuestion' /\ outbox[i].status = "heard"]_vars

(* The service holds one session at a time: each one ends and frees the    *)
(* slot, even when the device falls silent or the speech engine hangs.     *)
SlotIsFreed == <>(handler = "closed")
=============================================================================
