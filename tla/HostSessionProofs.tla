-------------------------- MODULE HostSessionProofs --------------------------
(***************************************************************************)
(* The Mac session, for any ids, requests, budgets and waits, and any      *)
(* number of speech chunks.                                                *)
(***************************************************************************)
EXTENDS HostSession, FiniteSetTheorems, TLAPS

(* What was sent is a sequence, whatever was sent.                         *)
Wire == outbox \in Seq({outbox[i] : i \in DOMAIN outbox})

(* What each variable may hold.                                            *)
Types ==
  /\ stream \in Nat
  /\ pending \in Requests \cup {None} /\ acknowledged \in Requests \cup {None}
  /\ speaking \in Requests \cup {None} /\ spoken \subseteq Requests
  /\ task \in {"none", "dead", "respond", "explain", "transcribe"}

(* A task has an answer to give only in the phase that waits for it, or    *)
(* after the session was refused under it.                                 *)
TaskInv ==
  /\ task \in {"respond", "explain"} => phase \in {"pending", "incomplete"}
  /\ task = "transcribe" => phase \in {"transcribing", "incomplete"}
  /\ phase = "adjust" => Len(ids) = 1

(* "cancelled" is the last message, and nothing is left that could send.    *)
CancelInv ==
  \A i \in 1..Len(outbox) : outbox[i].type = "cancelled" =>
    /\ i = Len(outbox) /\ task \in {"none", "dead"} /\ speaking = None
    /\ phase = "cancelled" \/ (phase = "incomplete" /\ ~link)

(* A chunk or an end is never the first message.                           *)
Framed ==
  \A i \in Sent({"speech_chunk", "speech_end"}) :
    /\ i > 1 /\ outbox[i - 1].type \in {"speech_start", "speech_chunk"}
    /\ outbox[i - 1].key = outbox[i].key

(* While a reply is spoken, what was sent last is its stream.              *)
StreamInv ==
  /\ speaking # None /\ link => phase \in {"adjust", "complete"}
  /\ speaking # None /\ link /\ stream > 0 =>
       /\ Len(outbox) > 0 /\ outbox[Len(outbox)].type \in {"speech_start", "speech_chunk"}
       /\ outbox[Len(outbox)].key = speaking

(* The request being answered has no answer yet.                           *)
AnswerInv ==
  /\ pending # None => pending \in requests
  /\ \A i \in Sent(Answers) :
       outbox[i].key \in requests /\ (phase = "pending" => outbox[i].key # pending)
  /\ \A i, j \in Sent(Answers) : outbox[i].key = outbox[j].key => i = j

(* The device was told that r was accepted.                                *)
Told(r) == \E j \in Sent({"acknowledged", "analysis_reply"}) : outbox[j].key = r

(* A start comes after the acceptance of its reply, and once.              *)
Started ==
  \A i \in Sent({"speech_start"}) :
    /\ \E j \in Sent({"acknowledged", "analysis_reply"}) : j < i /\ outbox[j].key = outbox[i].key
    /\ \A j \in Sent({"speech_start"}) : outbox[j].key = outbox[i].key => j = i

(* What speak() relies on: its reply was accepted and is counted as spoken. *)
SpokenInv ==
  /\ speaking # None => speaking \in spoken
  /\ link /\ acknowledged # None => Told(acknowledged)
  /\ link /\ speaking # None => Told(speaking)
  /\ \A i \in Sent({"speech_start"}) :
       outbox[i].key \in spoken /\ (outbox[i].key = speaking => stream > 0)

(* Before the first capture or request.                                    *)
Asking == {"new", "await_a", "question_upload", "transcribing", "await_confirm"}

QuestionInv ==
  /\ phase \in Asking => ids = <<>> /\ seen = {} /\ requests = {}
  /\ phase = "await_confirm" /\ heard # None /\ link =>
       \E i \in Sent({"transcript"}) : outbox[i].key = heard /\ outbox[i].status = "heard"

(* Request r was answered by guidance over A.                              *)
Guidance(r) ==
  \E i \in Sent({"guidance"}) : outbox[i].ids = SubSeq(ids, 1, 1) /\ outbox[i].key = r

(* Request q was, and after it r by a comparison over every capture.       *)
Comparison(q, r) ==
  \E i \in Sent({"guidance"}), j \in Sent({"comparison"}) :
    /\ outbox[i].ids = SubSeq(ids, 1, 1) /\ outbox[i].key = q
    /\ i < j /\ outbox[j].ids = ids /\ outbox[j].key = r

(* The only answer is the reading of an analysis.                          *)
OneReading == \E k \in Sent({"analysis_reply"}) : Sent(Answers) = {k}

(* How many captures each phase has behind it.                             *)
CapturesInv ==
  /\ ids \in Seq(Ids)
  /\ phase = "recording_a" => ids = <<>> /\ requests = {}
  /\ phase = "guide_ready" => Len(ids) = 1 /\ requests = {}
  /\ phase = "recording_b" => Len(ids) = 1
  /\ phase = "recording_repeat" => Len(ids) = 2
  /\ phase = "compare_ready" => Len(ids) \in {2, 3}

(* The only request was answered by guidance.                              *)
GuidanceBehind == \E r \in Requests : requests = {r} /\ Guidance(r)

(* The only request waits for its guidance, then for the ack of it.        *)
GuidancePending ==
  \E r \in Requests : requests = {r} /\ r = pending /\ (phase = "await_ack" => Guidance(r))

(* The second waits for its comparison, then for the ack of that.          *)
ComparisonPending ==
  \E q, r \in Requests : /\ requests = {q, r} /\ r = pending /\ Guidance(q)
                         /\ phase = "await_ack" => Comparison(q, r)

(* Both were answered, and the second one acknowledged.                    *)
BothAcknowledged ==
  \E q, r \in Requests : requests = {q, r} /\ r = acknowledged /\ Comparison(q, r)

(* What the wire shows in each phase about the requests so far.            *)
EvidenceInv ==
  /\ phase \in {"adjust", "recording_b", "recording_repeat", "compare_ready"} => GuidanceBehind
  /\ phase \in {"pending", "await_ack"} =>
       \/ ids = <<>> /\ requests = {pending} /\ phase = "pending" /\ task # "respond"
       \/ Len(ids) = 1 /\ task # "explain" /\ GuidancePending
       \/ Len(ids) \in {2, 3} /\ task # "explain" /\ ComparisonPending
  /\ phase = "complete" =>
       (ids = <<>> /\ OneReading) \/ (Len(ids) \in {2, 3} /\ BothAcknowledged)

(* The inductive invariant.                                                *)
IInv == /\ Wire /\ Types /\ TaskInv /\ RequestIsFrozen /\ CancelInv /\ Framed /\ StreamInv
        /\ AnswerInv /\ Started /\ SpokenInv /\ QuestionInv /\ CapturesInv /\ EvidenceInv

-----------------------------------------------------------------------------
(* What a step adds to the wire: one message at its end.                   *)
Sends(m) ==
  /\ Len(outbox) \in Nat /\ Len(outbox') = Len(outbox) + 1
  /\ outbox'[Len(outbox) + 1] = m
  /\ \A i \in 1..Len(outbox) : outbox'[i] = outbox[i]

(* On a dead connection nothing is added.                                  *)
Emits(m) == IF link THEN Sends(m) ELSE outbox' = outbox

(* What every handled message satisfies before its own guard.              *)
Held(m) == m.type = "hello" \/ Admitted(m)

(* Append, for a sequence of anything.                                     *)
LEMMA Appended ==
  ASSUME NEW m, Wire, outbox' = Append(outbox, m)
  PROVE  Wire' /\ Sends(m)
<1> DEFINE S == {outbox[i] : i \in DOMAIN outbox}
           T == S \cup {m}
<1>1. outbox \in Seq(S)
  BY DEF Wire
<1>2. outbox \in Seq(T) /\ m \in T
  BY <1>1
<1>3. Append(outbox, m) \in Seq(T)
  BY <1>2
<1> HIDE DEF S, T
<1>4. Sends(m)
  BY <1>2, <1>3 DEF Sends
<1>5. Wire'
  BY <1>3 DEF Wire
<1> QED BY <1>4, <1>5

(* emit() of a handler, of a task and of speak().                          *)
LEMMA AnswerSends ==
  ASSUME Wire, NEW m, Answer(m)
  PROVE  Emits(m) /\ Wire' /\ link' = link
<1>1. CASE link
  BY <1>1, Appended DEF Answer, Emits
<1>2. CASE ~link
  BY <1>2 DEF Answer, Emits, Wire
<1> QED BY <1>1, <1>2

(* A task that cannot send dies.                                           *)
LEMMA SaySends ==
  ASSUME Wire, NEW m, Say(m)
  PROVE  Emits(m) /\ Wire' /\ link' = link /\ task' \in {"none", "dead"} /\ (link => task' = "none")
<1>1. CASE link
  BY <1>1, Appended DEF Say, Emits
<1>2. CASE ~link
  BY <1>2 DEF Say, Emits, Wire
<1> QED BY <1>1, <1>2

(* speak() sends only while the connection is up.                          *)
LEMMA SpeechSends ==
  ASSUME Wire, NEW m, SpeechSend(m)
  PROVE  Sends(m) /\ Wire' /\ link' = link
BY Appended DEF SpeechSend

(* The steps: a message handled, a message refused or none in time, the    *)
(* end of the connection, and the tasks.                                   *)
LEMMA StepCases ==
  ASSUME [Next]_vars
  PROVE  \/ \E m \in Messages : Held(m) /\ Handle(m)
         \/ \E why : Refuse(why)
         \/ Disconnected \/ Close \/ Respond \/ RespondFails \/ RespondDropped
         \/ Explain \/ ExplainFails \/ SpeechStart \/ SpeechChunk \/ SpeechDies
         \/ Drop \/ Advance
         \/ \E status \in {"heard", "empty", "failed"} : Transcribe(status)
         \/ \E status \in {"complete", "failed"} : SpeechEnd(status)
         \/ UNCHANGED vars
<1>1. CASE \E m \in Messages : Receive(m)
  BY <1>1 DEF Receive, Legal, Held, MayHello
<1>2. CASE IdleTimeout
  BY <1>2 DEF IdleTimeout
<1>3. CASE TaskStep
  BY <1>3 DEF TaskStep
<1> QED BY <1>1, <1>2, <1>3 DEF Next

(* A capture starts as A, B or the repeat.                                 *)
LEMMA CaptureStarts ==
  ASSUME IInv, NEW m, OnCaptureStart(m)
  PROVE  /\ phase' \in Recording /\ MayCapture(m)
         /\ Answer([type |-> "capture_ack", key |-> m.key, stage |-> "start"])
         /\ seen' = seen \cup {m.key}
         /\ UNCHANGED <<ask_vars, ids, task, reply_vars, speech_vars, clock>>
<1>1. CASE ids = <<>>
  BY <1>1 DEF OnCaptureStart, Recording
<1>2. CASE Len(ids) = 1
  BY <1>2 DEF OnCaptureStart, Recording
<1>3. CASE Len(ids) = 2
  BY <1>3 DEF OnCaptureStart, Recording
<1>4. phase = "await_a" => ids = <<>>
  BY DEF IInv, QuestionInv, Asking
<1> QED BY <1>1, <1>2, <1>3, <1>4 DEF IInv, TaskInv, OnCaptureStart, MayCapture

(* A step sends nothing, one message that is not speech, or is one of      *)
(* speak().                                                                *)
Other == \E m : Sends(m) /\ m.type \notin {"speech_start", "speech_chunk", "speech_end"}
Speech == SpeechStart \/ SpeechChunk \/ \E status : SpeechEnd(status)
Wired == Wire' /\ (outbox' = outbox \/ Other \/ Speech)

(* A sequence that is not touched stays one.                               *)
LEMMA Unsent ==
  ASSUME Wire, outbox' = outbox
  PROVE  Wire'
BY DEF Wire

(* Every step does what Wired says.                                        *)
LEMMA WireStep ==
  ASSUME IInv, [Next]_vars
  PROVE  Wired
<1> USE HostConstants, Unsent DEF IInv, Wired, Other, Speech, Emits, Held, Admitted, Messages,
        Silent, ask_vars, reply_vars, speech_vars, wire_vars
<1>1. ASSUME NEW m \in Messages, Held(m), Handle(m) PROVE Wired
  <2>1. CASE OnHello(m)
    BY <1>1, <2>1, AnswerSends DEF OnHello, MayHello, Ready
  <2>2. CASE OnCancel(m)
    BY <1>1, <2>2, AnswerSends DEF OnCancel, MayCancel, Stopped
  <2>3. CASE OnQuestionStart(m)
    BY <1>1, <2>3 DEF OnQuestionStart, MayAsk
  <2>4. CASE OnQuestionEnd(m)
    BY <1>1, <2>4 DEF OnQuestionEnd, MayEndQuestion
  <2>5. CASE OnConfirm(m)
    BY <1>1, <2>5 DEF OnConfirm, MayConfirm
  <2>6. CASE OnCaptureStart(m)
    BY <1>1, <2>6, AnswerSends DEF OnCaptureStart, MayCapture
  <2>7. CASE OnCaptureEnd(m)
    BY <1>1, <2>7, AnswerSends DEF OnCaptureEnd, MayEndCapture
  <2>8. CASE OnTurn(m)
    BY <1>1, <2>8 DEF OnTurn, MayTurn
  <2>9. CASE OnExplain(m)
    BY <1>1, <2>9 DEF OnExplain, MayExplain
  <2>10. CASE OnAck(m)
    BY <1>1, <2>10, AnswerSends DEF OnAck, MayAck
  <2>11. CASE OnSpeak(m)
    BY <1>1, <2>11 DEF OnSpeak, MaySpeak
  <2>12. CASE OnSpeechStop(m)
    BY <1>1, <2>12 DEF OnSpeechStop, MayStop
  <2> QED BY <1>1, <2>1, <2>2, <2>3, <2>4, <2>5, <2>6, <2>7, <2>8, <2>9, <2>10, <2>11, <2>12 DEF
           Handle
<1>2. ASSUME NEW why, Refuse(why) PROVE Wired
  BY <1>2 DEF Refuse
<1>3. CASE Disconnected
  BY <1>3 DEF Disconnected
<1>4. CASE Close
  BY <1>4 DEF Close, Stopped
<1>5. CASE Respond
  BY <1>5, SaySends DEF Respond, Failed, Reply, Incomplete
<1>6. CASE RespondFails
  BY <1>6, SaySends DEF RespondFails, Failed, Incomplete
<1>7. CASE RespondDropped
  BY <1>7 DEF RespondDropped
<1>8. CASE Explain
  BY <1>8, SaySends DEF Explain, Incomplete
<1>9. CASE ExplainFails
  BY <1>9, SaySends DEF ExplainFails, Failed, Incomplete
<1>10. CASE SpeechStart
  BY <1>10, SpeechSends DEF SpeechStart, SpeechSend
<1>11. CASE SpeechChunk
  BY <1>11, SpeechSends DEF SpeechChunk, SpeechSend
<1>12. CASE SpeechDies
  BY <1>12 DEF SpeechDies
<1>13. CASE Drop
  BY <1>13 DEF Drop
<1>14. CASE Advance
  BY <1>14 DEF Advance
<1>15. ASSUME NEW status \in {"heard", "empty", "failed"}, Transcribe(status) PROVE Wired
  BY <1>15, SaySends DEF Transcribe
<1>16. ASSUME NEW status \in {"complete", "failed"}, SpeechEnd(status) PROVE Wired
  BY <1>16, SpeechSends DEF SpeechEnd, SpeechSend
<1>17. CASE UNCHANGED vars
  BY <1>17 DEF vars
<1> QED BY StepCases, <1>1, <1>2, <1>3, <1>4, <1>5, <1>6, <1>7, <1>8, <1>9, <1>10, <1>11, <1>12,
           <1>13, <1>14, <1>15, <1>16, <1>17

(* Every variable keeps its values.                                        *)
LEMMA TypesStep ==
  ASSUME IInv, [Next]_vars
  PROVE  Types'
<1> USE HostConstants DEF IInv, Types, TaskInv, Held, Admitted, Messages, Silent, ask_vars,
        reply_vars, speech_vars, wire_vars
<1>1. ASSUME NEW m \in Messages, Held(m), Handle(m) PROVE Types'
  <2>1. CASE OnHello(m)
    BY <1>1, <2>1, AnswerSends DEF OnHello, MayHello, Ready
  <2>2. CASE OnCancel(m)
    BY <1>1, <2>2, AnswerSends DEF OnCancel, MayCancel, Stopped
  <2>3. CASE OnQuestionStart(m)
    BY <1>1, <2>3 DEF OnQuestionStart, MayAsk
  <2>4. CASE OnQuestionEnd(m)
    BY <1>1, <2>4 DEF OnQuestionEnd, MayEndQuestion
  <2>5. CASE OnConfirm(m)
    BY <1>1, <2>5 DEF OnConfirm, MayConfirm
  <2>6. CASE OnCaptureStart(m)
    BY <1>1, <2>6, AnswerSends DEF OnCaptureStart, MayCapture
  <2>7. CASE OnCaptureEnd(m)
    BY <1>1, <2>7, AnswerSends DEF OnCaptureEnd, MayEndCapture
  <2>8. CASE OnTurn(m)
    BY <1>1, <2>8 DEF OnTurn, MayTurn
  <2>9. CASE OnExplain(m)
    BY <1>1, <2>9 DEF OnExplain, MayExplain
  <2>10. CASE OnAck(m)
    BY <1>1, <2>10, AnswerSends DEF OnAck, MayAck
  <2>11. CASE OnSpeak(m)
    BY <1>1, <2>11 DEF OnSpeak, MaySpeak
  <2>12. CASE OnSpeechStop(m)
    BY <1>1, <2>12 DEF OnSpeechStop, MayStop
  <2> QED BY <1>1, <2>1, <2>2, <2>3, <2>4, <2>5, <2>6, <2>7, <2>8, <2>9, <2>10, <2>11, <2>12 DEF
           Handle
<1>2. ASSUME NEW why, Refuse(why) PROVE Types'
  BY <1>2 DEF Refuse
<1>3. CASE Disconnected
  BY <1>3 DEF Disconnected
<1>4. CASE Close
  BY <1>4 DEF Close, Stopped
<1>5. CASE Respond
  BY <1>5, SaySends DEF Respond, Failed, Reply, Incomplete
<1>6. CASE RespondFails
  BY <1>6, SaySends DEF RespondFails, Failed, Incomplete
<1>7. CASE RespondDropped
  BY <1>7 DEF RespondDropped
<1>8. CASE Explain
  BY <1>8, SaySends DEF Explain, Incomplete
<1>9. CASE ExplainFails
  BY <1>9, SaySends DEF ExplainFails, Failed, Incomplete
<1>10. CASE SpeechStart
  BY <1>10, SpeechSends DEF SpeechStart, SpeechSend
<1>11. CASE SpeechChunk
  BY <1>11, SpeechSends DEF SpeechChunk, SpeechSend
<1>12. CASE SpeechDies
  BY <1>12 DEF SpeechDies
<1>13. CASE Drop
  BY <1>13 DEF Drop
<1>14. CASE Advance
  BY <1>14 DEF Advance
<1>15. ASSUME NEW status \in {"heard", "empty", "failed"}, Transcribe(status) PROVE Types'
  BY <1>15, SaySends DEF Transcribe
<1>16. ASSUME NEW status \in {"complete", "failed"}, SpeechEnd(status) PROVE Types'
  BY <1>16, SpeechSends DEF SpeechEnd, SpeechSend
<1>17. CASE UNCHANGED vars
  BY <1>17 DEF vars
<1> QED BY StepCases, <1>1, <1>2, <1>3, <1>4, <1>5, <1>6, <1>7, <1>8, <1>9, <1>10, <1>11, <1>12,
           <1>13, <1>14, <1>15, <1>16, <1>17

(* A handler that leaves a waiting phase ends its task.                    *)
LEMMA TaskInvStep ==
  ASSUME IInv, [Next]_vars
  PROVE  TaskInv'
<1> USE HostConstants DEF IInv, Types, TaskInv, Running, Terminal, Recording, Held, Admitted,
        Messages, Silent, ask_vars, reply_vars, speech_vars, wire_vars
<1>1. ASSUME NEW m \in Messages, Held(m), Handle(m) PROVE TaskInv'
  <2>1. CASE OnHello(m)
    BY <1>1, <2>1, AnswerSends DEF OnHello, MayHello, Ready
  <2>2. CASE OnCancel(m)
    BY <1>1, <2>2, AnswerSends DEF OnCancel, MayCancel, Stopped
  <2>3. CASE OnQuestionStart(m)
    BY <1>1, <2>3 DEF OnQuestionStart, MayAsk
  <2>4. CASE OnQuestionEnd(m)
    BY <1>1, <2>4 DEF OnQuestionEnd, MayEndQuestion
  <2>5. CASE OnConfirm(m)
    BY <1>1, <2>5 DEF OnConfirm, MayConfirm
  <2>6. CASE OnCaptureStart(m)
    BY <1>1, <2>6, AnswerSends, CaptureStarts DEF MayCapture
  <2>7. CASE OnCaptureEnd(m)
    BY <1>1, <2>7, AnswerSends DEF OnCaptureEnd, MayEndCapture
  <2>8. CASE OnTurn(m)
    BY <1>1, <2>8 DEF OnTurn, MayTurn
  <2>9. CASE OnExplain(m)
    BY <1>1, <2>9 DEF OnExplain, MayExplain
  <2>10. CASE OnAck(m)
    BY <1>1, <2>10, AnswerSends DEF OnAck, MayAck
  <2>11. CASE OnSpeak(m)
    BY <1>1, <2>11 DEF OnSpeak, MaySpeak
  <2>12. CASE OnSpeechStop(m)
    BY <1>1, <2>12 DEF OnSpeechStop, MayStop
  <2> QED BY <1>1, <2>1, <2>2, <2>3, <2>4, <2>5, <2>6, <2>7, <2>8, <2>9, <2>10, <2>11, <2>12 DEF
           Handle
<1>2. ASSUME NEW why, Refuse(why) PROVE TaskInv'
  BY <1>2 DEF Refuse
<1>3. CASE Disconnected
  BY <1>3 DEF Disconnected
<1>4. CASE Close
  BY <1>4 DEF Close, Stopped
<1>5. CASE Respond
  BY <1>5, SaySends DEF Respond, Failed, Reply, Incomplete
<1>6. CASE RespondFails
  BY <1>6, SaySends DEF RespondFails, Failed, Incomplete
<1>7. CASE RespondDropped
  BY <1>7 DEF RespondDropped
<1>8. CASE Explain
  BY <1>8, SaySends DEF Explain, Incomplete
<1>9. CASE ExplainFails
  BY <1>9, SaySends DEF ExplainFails, Failed, Incomplete
<1>10. CASE SpeechStart
  BY <1>10, SpeechSends DEF SpeechStart, SpeechSend
<1>11. CASE SpeechChunk
  BY <1>11, SpeechSends DEF SpeechChunk, SpeechSend
<1>12. CASE SpeechDies
  BY <1>12 DEF SpeechDies
<1>13. CASE Drop
  BY <1>13 DEF Drop
<1>14. CASE Advance
  BY <1>14 DEF Advance
<1>15. ASSUME NEW status \in {"heard", "empty", "failed"}, Transcribe(status) PROVE TaskInv'
  BY <1>15, SaySends DEF Transcribe
<1>16. ASSUME NEW status \in {"complete", "failed"}, SpeechEnd(status) PROVE TaskInv'
  BY <1>16, SpeechSends DEF SpeechEnd, SpeechSend
<1>17. CASE UNCHANGED vars
  BY <1>17 DEF vars
<1> QED BY StepCases, <1>1, <1>2, <1>3, <1>4, <1>5, <1>6, <1>7, <1>8, <1>9, <1>10, <1>11, <1>12,
           <1>13, <1>14, <1>15, <1>16, <1>17

(* The pending request keeps the session to itself.                        *)
LEMMA FrozenStep ==
  ASSUME IInv, [Next]_vars
  PROVE  RequestIsFrozen'
<1> USE HostConstants DEF IInv, Types, TaskInv, RequestIsFrozen, Running, Terminal, Recording,
        Held, Admitted, Messages, Silent, ask_vars, reply_vars, speech_vars, wire_vars
<1>1. ASSUME NEW m \in Messages, Held(m), Handle(m) PROVE RequestIsFrozen'
  <2>1. CASE OnHello(m)
    BY <1>1, <2>1, AnswerSends DEF OnHello, MayHello, Ready
  <2>2. CASE OnCancel(m)
    BY <1>1, <2>2, AnswerSends DEF OnCancel, MayCancel, Stopped
  <2>3. CASE OnQuestionStart(m)
    BY <1>1, <2>3 DEF OnQuestionStart, MayAsk
  <2>4. CASE OnQuestionEnd(m)
    BY <1>1, <2>4 DEF OnQuestionEnd, MayEndQuestion
  <2>5. CASE OnConfirm(m)
    BY <1>1, <2>5 DEF OnConfirm, MayConfirm
  <2>6. CASE OnCaptureStart(m)
    BY <1>1, <2>6, AnswerSends, CaptureStarts DEF MayCapture
  <2>7. CASE OnCaptureEnd(m)
    BY <1>1, <2>7, AnswerSends DEF OnCaptureEnd, MayEndCapture
  <2>8. CASE OnTurn(m)
    BY <1>1, <2>8 DEF OnTurn, MayTurn
  <2>9. CASE OnExplain(m)
    BY <1>1, <2>9 DEF OnExplain, MayExplain
  <2>10. CASE OnAck(m)
    BY <1>1, <2>10, AnswerSends DEF OnAck, MayAck
  <2>11. CASE OnSpeak(m)
    BY <1>1, <2>11 DEF OnSpeak, MaySpeak
  <2>12. CASE OnSpeechStop(m)
    BY <1>1, <2>12 DEF OnSpeechStop, MayStop
  <2> QED BY <1>1, <2>1, <2>2, <2>3, <2>4, <2>5, <2>6, <2>7, <2>8, <2>9, <2>10, <2>11, <2>12 DEF
           Handle
<1>2. ASSUME NEW why, Refuse(why) PROVE RequestIsFrozen'
  BY <1>2 DEF Refuse
<1>3. CASE Disconnected
  BY <1>3 DEF Disconnected
<1>4. CASE Close
  BY <1>4 DEF Close, Stopped
<1>5. CASE Respond
  BY <1>5, SaySends DEF Respond, Failed, Reply, Incomplete
<1>6. CASE RespondFails
  BY <1>6, SaySends DEF RespondFails, Failed, Incomplete
<1>7. CASE RespondDropped
  BY <1>7 DEF RespondDropped
<1>8. CASE Explain
  BY <1>8, SaySends DEF Explain, Incomplete
<1>9. CASE ExplainFails
  BY <1>9, SaySends DEF ExplainFails, Failed, Incomplete
<1>10. CASE SpeechStart
  BY <1>10, SpeechSends DEF SpeechStart, SpeechSend
<1>11. CASE SpeechChunk
  BY <1>11, SpeechSends DEF SpeechChunk, SpeechSend
<1>12. CASE SpeechDies
  BY <1>12 DEF SpeechDies
<1>13. CASE Drop
  BY <1>13 DEF Drop
<1>14. CASE Advance
  BY <1>14 DEF Advance
<1>15. ASSUME NEW status \in {"heard", "empty", "failed"}, Transcribe(status) PROVE RequestIsFrozen'
  BY <1>15, SaySends DEF Transcribe
<1>16. ASSUME NEW status \in {"complete", "failed"}, SpeechEnd(status) PROVE RequestIsFrozen'
  BY <1>16, SpeechSends DEF SpeechEnd, SpeechSend
<1>17. CASE UNCHANGED vars
  BY <1>17 DEF vars
<1> QED BY StepCases, <1>1, <1>2, <1>3, <1>4, <1>5, <1>6, <1>7, <1>8, <1>9, <1>10, <1>11, <1>12,
           <1>13, <1>14, <1>15, <1>16, <1>17

(* cancel() ends both tasks, so nothing follows its message.               *)
LEMMA CancelStep ==
  ASSUME IInv, [Next]_vars
  PROVE  CancelInv'
<1> USE HostConstants DEF IInv, Types, TaskInv, CancelInv, StreamInv, Emits, Sends, Terminal,
        Recording, Running, Held, Admitted, Messages, Silent, ask_vars, reply_vars, speech_vars,
        wire_vars
<1>1. ASSUME NEW m \in Messages, Held(m), Handle(m) PROVE CancelInv'
  <2>1. CASE OnHello(m)
    BY <1>1, <2>1, AnswerSends DEF OnHello, MayHello, Ready
  <2>2. CASE OnCancel(m)
    BY <1>1, <2>2, AnswerSends DEF OnCancel, MayCancel, Stopped
  <2>3. CASE OnQuestionStart(m)
    BY <1>1, <2>3 DEF OnQuestionStart, MayAsk
  <2>4. CASE OnQuestionEnd(m)
    BY <1>1, <2>4 DEF OnQuestionEnd, MayEndQuestion
  <2>5. CASE OnConfirm(m)
    BY <1>1, <2>5 DEF OnConfirm, MayConfirm
  <2>6. CASE OnCaptureStart(m)
    <3>1. /\ phase' \in Recording
          /\ Emits([type |-> "capture_ack", key |-> m.key, stage |-> "start"])
          /\ link' = link /\ UNCHANGED <<ids, task, reply_vars, speech_vars>>
      BY <1>1, <2>6, AnswerSends, CaptureStarts
    <3>2. Running /\ speaking = None /\ phase \in {"await_a", "adjust", "compare_ready"}
      BY <1>1, <2>6 DEF OnCaptureStart, MayCapture, Held, Admitted
    <3> QED BY <3>1, <3>2 DEF reply_vars, speech_vars
  <2>7. CASE OnCaptureEnd(m)
    BY <1>1, <2>7, AnswerSends DEF OnCaptureEnd, MayEndCapture
  <2>8. CASE OnTurn(m)
    BY <1>1, <2>8 DEF OnTurn, MayTurn
  <2>9. CASE OnExplain(m)
    BY <1>1, <2>9 DEF OnExplain, MayExplain
  <2>10. CASE OnAck(m)
    BY <1>1, <2>10, AnswerSends DEF OnAck, MayAck
  <2>11. CASE OnSpeak(m)
    BY <1>1, <2>11 DEF OnSpeak, MaySpeak
  <2>12. CASE OnSpeechStop(m)
    BY <1>1, <2>12 DEF OnSpeechStop, MayStop
  <2> QED BY <1>1, <2>1, <2>2, <2>3, <2>4, <2>5, <2>6, <2>7, <2>8, <2>9, <2>10, <2>11, <2>12 DEF
           Handle
<1>2. ASSUME NEW why, Refuse(why) PROVE CancelInv'
  BY <1>2 DEF Refuse
<1>3. CASE Disconnected
  BY <1>3 DEF Disconnected
<1>4. CASE Close
  BY <1>4 DEF Close, Stopped
<1>5. CASE Respond
  BY <1>5, SaySends DEF Respond, Failed, Reply, Incomplete
<1>6. CASE RespondFails
  BY <1>6, SaySends DEF RespondFails, Failed, Incomplete
<1>7. CASE RespondDropped
  BY <1>7 DEF RespondDropped
<1>8. CASE Explain
  BY <1>8, SaySends DEF Explain, Incomplete
<1>9. CASE ExplainFails
  BY <1>9, SaySends DEF ExplainFails, Failed, Incomplete
<1>10. CASE SpeechStart
  BY <1>10, SpeechSends DEF SpeechStart, SpeechSend
<1>11. CASE SpeechChunk
  BY <1>11, SpeechSends DEF SpeechChunk, SpeechSend
<1>12. CASE SpeechDies
  BY <1>12 DEF SpeechDies
<1>13. CASE Drop
  BY <1>13 DEF Drop
<1>14. CASE Advance
  BY <1>14 DEF Advance
<1>15. ASSUME NEW status \in {"heard", "empty", "failed"}, Transcribe(status) PROVE CancelInv'
  BY <1>15, SaySends DEF Transcribe
<1>16. ASSUME NEW status \in {"complete", "failed"}, SpeechEnd(status) PROVE CancelInv'
  BY <1>16, SpeechSends DEF SpeechEnd, SpeechSend
<1>17. CASE UNCHANGED vars
  BY <1>17 DEF vars
<1> QED BY StepCases, <1>1, <1>2, <1>3, <1>4, <1>5, <1>6, <1>7, <1>8, <1>9, <1>10, <1>11, <1>12,
           <1>13, <1>14, <1>15, <1>16, <1>17

(* A chunk or an end follows its start or a chunk of the same reply.       *)
LEMMA FramedStep ==
  ASSUME IInv, [Next]_vars
  PROVE  Framed'
<1> USE DEF IInv, Framed, Sent
<1>1. CASE outbox' = outbox
  BY <1>1
<1>2. CASE Other
  BY <1>2 DEF Other, Sends
<1>3. CASE SpeechStart
  BY <1>3, SpeechSends DEF SpeechStart, Sends
<1>4. CASE SpeechChunk
  BY <1>4, SpeechSends DEF SpeechChunk, SpeechSend, StreamInv, Sends
<1>5. ASSUME NEW status, SpeechEnd(status) PROVE Framed'
  BY <1>5, SpeechSends DEF SpeechEnd, SpeechSend, StreamInv, Sends, Types
<1> QED BY <1>1, <1>2, <1>3, <1>4, <1>5, WireStep DEF Wired, Speech

(* While a reply is spoken only a cancel, a stop and speak() are let in.   *)
LEMMA StreamStep ==
  ASSUME IInv, [Next]_vars
  PROVE  StreamInv'
<1> USE HostConstants DEF IInv, Types, TaskInv, StreamInv, Emits, Sends, Terminal, Recording,
        Running, Held, Admitted, Messages, Silent, ask_vars, reply_vars, speech_vars, wire_vars
<1>1. ASSUME NEW m \in Messages, Held(m), Handle(m) PROVE StreamInv'
  <2>1. CASE OnHello(m)
    BY <1>1, <2>1, AnswerSends DEF OnHello, MayHello, Ready
  <2>2. CASE OnCancel(m)
    BY <1>1, <2>2, AnswerSends DEF OnCancel, MayCancel, Stopped
  <2>3. CASE OnQuestionStart(m)
    BY <1>1, <2>3 DEF OnQuestionStart, MayAsk
  <2>4. CASE OnQuestionEnd(m)
    BY <1>1, <2>4 DEF OnQuestionEnd, MayEndQuestion
  <2>5. CASE OnConfirm(m)
    BY <1>1, <2>5 DEF OnConfirm, MayConfirm
  <2>6. CASE OnCaptureStart(m)
    BY <1>1, <2>6, AnswerSends, CaptureStarts DEF MayCapture
  <2>7. CASE OnCaptureEnd(m)
    BY <1>1, <2>7, AnswerSends DEF OnCaptureEnd, MayEndCapture
  <2>8. CASE OnTurn(m)
    BY <1>1, <2>8 DEF OnTurn, MayTurn
  <2>9. CASE OnExplain(m)
    BY <1>1, <2>9 DEF OnExplain, MayExplain
  <2>10. CASE OnAck(m)
    BY <1>1, <2>10, AnswerSends DEF OnAck, MayAck
  <2>11. CASE OnSpeak(m)
    BY <1>1, <2>11 DEF OnSpeak, MaySpeak
  <2>12. CASE OnSpeechStop(m)
    BY <1>1, <2>12 DEF OnSpeechStop, MayStop
  <2> QED BY <1>1, <2>1, <2>2, <2>3, <2>4, <2>5, <2>6, <2>7, <2>8, <2>9, <2>10, <2>11, <2>12 DEF
           Handle
<1>2. ASSUME NEW why, Refuse(why) PROVE StreamInv'
  BY <1>2 DEF Refuse
<1>3. CASE Disconnected
  BY <1>3 DEF Disconnected
<1>4. CASE Close
  BY <1>4 DEF Close, Stopped
<1>5. CASE Respond
  BY <1>5, SaySends DEF Respond, Failed, Reply, Incomplete
<1>6. CASE RespondFails
  BY <1>6, SaySends DEF RespondFails, Failed, Incomplete
<1>7. CASE RespondDropped
  BY <1>7 DEF RespondDropped
<1>8. CASE Explain
  BY <1>8, SaySends DEF Explain, Incomplete
<1>9. CASE ExplainFails
  BY <1>9, SaySends DEF ExplainFails, Failed, Incomplete
<1>10. CASE SpeechStart
  BY <1>10, SpeechSends DEF SpeechStart, SpeechSend
<1>11. CASE SpeechChunk
  BY <1>11, SpeechSends DEF SpeechChunk, SpeechSend
<1>12. CASE SpeechDies
  BY <1>12 DEF SpeechDies
<1>13. CASE Drop
  BY <1>13 DEF Drop
<1>14. CASE Advance
  BY <1>14 DEF Advance
<1>15. ASSUME NEW status \in {"heard", "empty", "failed"}, Transcribe(status) PROVE StreamInv'
  BY <1>15, SaySends DEF Transcribe
<1>16. ASSUME NEW status \in {"complete", "failed"}, SpeechEnd(status) PROVE StreamInv'
  BY <1>16, SpeechSends DEF SpeechEnd, SpeechSend
<1>17. CASE UNCHANGED vars
  BY <1>17 DEF vars
<1> QED BY StepCases, <1>1, <1>2, <1>3, <1>4, <1>5, <1>6, <1>7, <1>8, <1>9, <1>10, <1>11, <1>12,
           <1>13, <1>14, <1>15, <1>16, <1>17

(* A request is answered while it is pending, and pending once.            *)
LEMMA AnswerStep ==
  ASSUME IInv, [Next]_vars
  PROVE  AnswerInv'
<1> USE HostConstants DEF IInv, Types, TaskInv, RequestIsFrozen, AnswerInv, Answers,
        TurnReplies, Sent, Emits, Sends, Terminal, Recording, Running, Held, Admitted, Messages,
        Silent, ask_vars, reply_vars, speech_vars, wire_vars
<1>1. ASSUME NEW m \in Messages, Held(m), Handle(m) PROVE AnswerInv'
  <2>1. CASE OnHello(m)
    BY <1>1, <2>1, AnswerSends, SMTT(20) DEF OnHello, MayHello, Ready
  <2>2. CASE OnCancel(m)
    BY <1>1, <2>2, AnswerSends DEF OnCancel, MayCancel, Stopped
  <2>3. CASE OnQuestionStart(m)
    BY <1>1, <2>3 DEF OnQuestionStart, MayAsk
  <2>4. CASE OnQuestionEnd(m)
    BY <1>1, <2>4 DEF OnQuestionEnd, MayEndQuestion
  <2>5. CASE OnConfirm(m)
    BY <1>1, <2>5 DEF OnConfirm, MayConfirm
  <2>6. CASE OnCaptureStart(m)
    <3>1. /\ phase' \in Recording
          /\ Emits([type |-> "capture_ack", key |-> m.key, stage |-> "start"])
          /\ link' = link /\ UNCHANGED <<ids, task, reply_vars, speech_vars>>
      BY <1>1, <2>6, AnswerSends, CaptureStarts
    <3>2. Running /\ speaking = None /\ phase \in {"await_a", "adjust", "compare_ready"}
      BY <1>1, <2>6 DEF OnCaptureStart, MayCapture, Held, Admitted
    <3> QED BY <3>1, <3>2 DEF reply_vars, speech_vars
  <2>7. CASE OnCaptureEnd(m)
    BY <1>1, <2>7, AnswerSends DEF OnCaptureEnd, MayEndCapture
  <2>8. CASE OnTurn(m)
    BY <1>1, <2>8 DEF OnTurn, MayTurn
  <2>9. CASE OnExplain(m)
    BY <1>1, <2>9 DEF OnExplain, MayExplain
  <2>10. CASE OnAck(m)
    BY <1>1, <2>10, AnswerSends DEF OnAck, MayAck
  <2>11. CASE OnSpeak(m)
    BY <1>1, <2>11 DEF OnSpeak, MaySpeak
  <2>12. CASE OnSpeechStop(m)
    BY <1>1, <2>12 DEF OnSpeechStop, MayStop
  <2> QED BY <1>1, <2>1, <2>2, <2>3, <2>4, <2>5, <2>6, <2>7, <2>8, <2>9, <2>10, <2>11, <2>12 DEF
           Handle
<1>2. ASSUME NEW why, Refuse(why) PROVE AnswerInv'
  BY <1>2 DEF Refuse
<1>3. CASE Disconnected
  BY <1>3 DEF Disconnected
<1>4. CASE Close
  BY <1>4 DEF Close, Stopped
<1>5. CASE Respond
  BY <1>5, SaySends DEF Respond, Failed, Reply, Incomplete
<1>6. CASE RespondFails
  BY <1>6, SaySends DEF RespondFails, Failed, Incomplete
<1>7. CASE RespondDropped
  BY <1>7 DEF RespondDropped
<1>8. CASE Explain
  BY <1>8, SaySends DEF Explain, Incomplete
<1>9. CASE ExplainFails
  BY <1>9, SaySends DEF ExplainFails, Failed, Incomplete
<1>10. CASE SpeechStart
  BY <1>10, SpeechSends DEF SpeechStart, SpeechSend
<1>11. CASE SpeechChunk
  BY <1>11, SpeechSends DEF SpeechChunk, SpeechSend
<1>12. CASE SpeechDies
  BY <1>12 DEF SpeechDies
<1>13. CASE Drop
  BY <1>13 DEF Drop
<1>14. CASE Advance
  BY <1>14 DEF Advance
<1>15. ASSUME NEW status \in {"heard", "empty", "failed"}, Transcribe(status) PROVE AnswerInv'
  BY <1>15, SaySends DEF Transcribe
<1>16. ASSUME NEW status \in {"complete", "failed"}, SpeechEnd(status) PROVE AnswerInv'
  BY <1>16, SpeechSends DEF SpeechEnd, SpeechSend
<1>17. CASE UNCHANGED vars
  BY <1>17 DEF vars
<1> QED BY StepCases, <1>1, <1>2, <1>3, <1>4, <1>5, <1>6, <1>7, <1>8, <1>9, <1>10, <1>11, <1>12,
           <1>13, <1>14, <1>15, <1>16, <1>17

(* A start follows its acknowledgement, and is the only one of its reply.  *)
LEMMA StartedStep ==
  ASSUME IInv, [Next]_vars
  PROVE  Started'
<1> USE DEF IInv, Started, Sent
<1>1. CASE outbox' = outbox
  BY <1>1
<1>2. CASE Other
  BY <1>2 DEF Other, Sends
<1>3. CASE SpeechStart
  <2>1. Sends([type |-> "speech_start", key |-> speaking])
    BY <1>3, SpeechSends DEF SpeechStart
  <2>2. \A j \in Sent({"speech_start"}) : outbox[j].key # speaking
    BY <1>3 DEF SpeechStart, SpokenInv, Types
  <2>3. \E j \in Sent({"acknowledged", "analysis_reply"}) : outbox[j].key = speaking
    BY <1>3 DEF SpeechStart, SpeechSend, SpokenInv, Told
  <2> QED BY <2>1, <2>2, <2>3 DEF Sends
<1>4. CASE SpeechChunk
  BY <1>4, SpeechSends, SMTT(20) DEF SpeechChunk, Sends
<1>5. ASSUME NEW status, SpeechEnd(status) PROVE Started'
  BY <1>5, SpeechSends DEF SpeechEnd, Sends
<1> QED BY <1>1, <1>2, <1>3, <1>4, <1>5, WireStep DEF Wired, Speech

(* A reply is spoken after the device was told, and speak() runs once.     *)
LEMMA SpokenStep ==
  ASSUME IInv, [Next]_vars
  PROVE  SpokenInv'
<1> USE HostConstants DEF IInv, Types, TaskInv, RequestIsFrozen, SpokenInv, Told, Sent, Emits,
        Sends, Terminal, Recording, Running, Held, Admitted, Messages, Silent, ask_vars,
        reply_vars, speech_vars, wire_vars
<1>1. ASSUME NEW m \in Messages, Held(m), Handle(m) PROVE SpokenInv'
  <2>1. CASE OnHello(m)
    BY <1>1, <2>1, AnswerSends DEF OnHello, MayHello, Ready
  <2>2. CASE OnCancel(m)
    <3>1. Emits([type |-> "cancelled"]) /\ link' = link
      BY <2>2, AnswerSends DEF OnCancel
    <3>2. speaking' = None /\ UNCHANGED <<acknowledged, spoken, stream>>
      BY <2>2 DEF OnCancel
    <3>3. \A i \in Sent({"speech_start"})' : i \in Sent({"speech_start"}) /\ outbox'[i] = outbox[i]
      BY <3>1
    <3>4. link' /\ acknowledged' # None => Told(acknowledged)'
      BY <3>1, <3>2
    <3>5. \A i \in Sent({"speech_start"}) : outbox[i].key \in spoken /\ outbox[i].key # None
      BY DEF Types
    <3> QED BY <3>2, <3>3, <3>4, <3>5
  <2>3. CASE OnQuestionStart(m)
    BY <1>1, <2>3 DEF OnQuestionStart, MayAsk
  <2>4. CASE OnQuestionEnd(m)
    BY <1>1, <2>4 DEF OnQuestionEnd, MayEndQuestion
  <2>5. CASE OnConfirm(m)
    BY <1>1, <2>5 DEF OnConfirm, MayConfirm
  <2>6. CASE OnCaptureStart(m)
    <3>1. /\ phase' \in Recording
          /\ Emits([type |-> "capture_ack", key |-> m.key, stage |-> "start"])
          /\ link' = link /\ UNCHANGED <<ids, task, reply_vars, speech_vars>>
      BY <1>1, <2>6, AnswerSends, CaptureStarts
    <3>2. Running /\ speaking = None /\ phase \in {"await_a", "adjust", "compare_ready"}
      BY <1>1, <2>6 DEF OnCaptureStart, MayCapture, Held, Admitted
    <3> QED BY <3>1, <3>2 DEF reply_vars, speech_vars
  <2>7. CASE OnCaptureEnd(m)
    BY <1>1, <2>7, AnswerSends DEF OnCaptureEnd, MayEndCapture
  <2>8. CASE OnTurn(m)
    BY <1>1, <2>8 DEF OnTurn, MayTurn
  <2>9. CASE OnExplain(m)
    BY <1>1, <2>9 DEF OnExplain, MayExplain
  <2>10. CASE OnAck(m)
    BY <1>1, <2>10, AnswerSends DEF OnAck, MayAck
  <2>11. CASE OnSpeak(m)
    BY <1>1, <2>11 DEF OnSpeak, MaySpeak
  <2>12. CASE OnSpeechStop(m)
    BY <1>1, <2>12 DEF OnSpeechStop, MayStop
  <2> QED BY <1>1, <2>1, <2>2, <2>3, <2>4, <2>5, <2>6, <2>7, <2>8, <2>9, <2>10, <2>11, <2>12 DEF
           Handle
<1>2. ASSUME NEW why, Refuse(why) PROVE SpokenInv'
  BY <1>2 DEF Refuse
<1>3. CASE Disconnected
  BY <1>3 DEF Disconnected
<1>4. CASE Close
  BY <1>4 DEF Close, Stopped
<1>5. CASE Respond
  BY <1>5, SaySends DEF Respond, Failed, Reply, Incomplete
<1>6. CASE RespondFails
  BY <1>6, SaySends DEF RespondFails, Failed, Incomplete
<1>7. CASE RespondDropped
  BY <1>7 DEF RespondDropped
<1>8. CASE Explain
  BY <1>8, SaySends DEF Explain, Incomplete
<1>9. CASE ExplainFails
  BY <1>9, SaySends DEF ExplainFails, Failed, Incomplete
<1>10. CASE SpeechStart
  BY <1>10, SpeechSends DEF SpeechStart, SpeechSend
<1>11. CASE SpeechChunk
  BY <1>11, SpeechSends DEF SpeechChunk, SpeechSend
<1>12. CASE SpeechDies
  BY <1>12 DEF SpeechDies
<1>13. CASE Drop
  BY <1>13 DEF Drop
<1>14. CASE Advance
  BY <1>14 DEF Advance
<1>15. ASSUME NEW status \in {"heard", "empty", "failed"}, Transcribe(status) PROVE SpokenInv'
  BY <1>15, SaySends DEF Transcribe
<1>16. ASSUME NEW status \in {"complete", "failed"}, SpeechEnd(status) PROVE SpokenInv'
  BY <1>16, SpeechSends DEF SpeechEnd, SpeechSend
<1>17. CASE UNCHANGED vars
  BY <1>17 DEF vars
<1> QED BY StepCases, <1>1, <1>2, <1>3, <1>4, <1>5, <1>6, <1>7, <1>8, <1>9, <1>10, <1>11, <1>12,
           <1>13, <1>14, <1>15, <1>16, <1>17

(* Questions come before captures and requests.                            *)
LEMMA QuestionStep ==
  ASSUME IInv, [Next]_vars
  PROVE  QuestionInv'
<1> USE HostConstants DEF IInv, Types, TaskInv, QuestionInv, RequestIsFrozen, Asking, Sent,
        Emits, Sends, Terminal, Recording, Running, Held, Admitted, Messages, Silent, ask_vars,
        reply_vars, speech_vars, wire_vars
<1>1. ASSUME NEW m \in Messages, Held(m), Handle(m) PROVE QuestionInv'
  <2>1. CASE OnHello(m)
    BY <1>1, <2>1, AnswerSends DEF OnHello, MayHello, Ready
  <2>2. CASE OnCancel(m)
    BY <1>1, <2>2, AnswerSends DEF OnCancel, MayCancel, Stopped
  <2>3. CASE OnQuestionStart(m)
    BY <1>1, <2>3 DEF OnQuestionStart, MayAsk
  <2>4. CASE OnQuestionEnd(m)
    BY <1>1, <2>4 DEF OnQuestionEnd, MayEndQuestion
  <2>5. CASE OnConfirm(m)
    BY <1>1, <2>5 DEF OnConfirm, MayConfirm
  <2>6. CASE OnCaptureStart(m)
    BY <1>1, <2>6, AnswerSends, CaptureStarts DEF MayCapture
  <2>7. CASE OnCaptureEnd(m)
    BY <1>1, <2>7, AnswerSends DEF OnCaptureEnd, MayEndCapture
  <2>8. CASE OnTurn(m)
    BY <1>1, <2>8 DEF OnTurn, MayTurn
  <2>9. CASE OnExplain(m)
    BY <1>1, <2>9 DEF OnExplain, MayExplain
  <2>10. CASE OnAck(m)
    BY <1>1, <2>10, AnswerSends DEF OnAck, MayAck
  <2>11. CASE OnSpeak(m)
    BY <1>1, <2>11 DEF OnSpeak, MaySpeak
  <2>12. CASE OnSpeechStop(m)
    BY <1>1, <2>12 DEF OnSpeechStop, MayStop
  <2> QED BY <1>1, <2>1, <2>2, <2>3, <2>4, <2>5, <2>6, <2>7, <2>8, <2>9, <2>10, <2>11, <2>12 DEF
           Handle
<1>2. ASSUME NEW why, Refuse(why) PROVE QuestionInv'
  BY <1>2 DEF Refuse
<1>3. CASE Disconnected
  BY <1>3 DEF Disconnected
<1>4. CASE Close
  BY <1>4 DEF Close, Stopped
<1>5. CASE Respond
  BY <1>5, SaySends DEF Respond, Failed, Reply, Incomplete
<1>6. CASE RespondFails
  BY <1>6, SaySends DEF RespondFails, Failed, Incomplete
<1>7. CASE RespondDropped
  BY <1>7 DEF RespondDropped
<1>8. CASE Explain
  BY <1>8, SaySends DEF Explain, Incomplete
<1>9. CASE ExplainFails
  BY <1>9, SaySends DEF ExplainFails, Failed, Incomplete
<1>10. CASE SpeechStart
  BY <1>10, SpeechSends DEF SpeechStart, SpeechSend
<1>11. CASE SpeechChunk
  BY <1>11, SpeechSends DEF SpeechChunk, SpeechSend
<1>12. CASE SpeechDies
  BY <1>12 DEF SpeechDies
<1>13. CASE Drop
  BY <1>13 DEF Drop
<1>14. CASE Advance
  BY <1>14 DEF Advance
<1>15. ASSUME NEW status \in {"heard", "empty", "failed"}, Transcribe(status) PROVE QuestionInv'
  BY <1>15, SaySends DEF Transcribe
<1>16. ASSUME NEW status \in {"complete", "failed"}, SpeechEnd(status) PROVE QuestionInv'
  BY <1>16, SpeechSends DEF SpeechEnd, SpeechSend
<1>17. CASE UNCHANGED vars
  BY <1>17 DEF vars
<1> QED BY StepCases, <1>1, <1>2, <1>3, <1>4, <1>5, <1>6, <1>7, <1>8, <1>9, <1>10, <1>11, <1>12,
           <1>13, <1>14, <1>15, <1>16, <1>17

(* speak() sends a message of its own.                                     *)
LEMMA SpeechIs ==
  ASSUME IInv, Speech
  PROVE  \E m : Sends(m) /\ m.type \in {"speech_start", "speech_chunk", "speech_end"}
<1>1. CASE SpeechStart
  BY <1>1, SpeechSends DEF SpeechStart, IInv
<1>2. CASE SpeechChunk
  BY <1>2, SpeechSends DEF SpeechChunk, IInv
<1>3. ASSUME NEW status, SpeechEnd(status)
      PROVE  \E m : Sends(m) /\ m.type \in {"speech_start", "speech_chunk", "speech_end"}
  <2> DEFINE e == [type |-> "speech_end", key |-> speaking,
                   status |-> IF status = "complete" /\ speechStop THEN "stopped" ELSE status]
  <2>1. SpeechSend(e)
    BY <1>3 DEF SpeechEnd
  <2>2. e.type = "speech_end"
    OBVIOUS
  <2> HIDE DEF e
  <2>3. Sends(e)
    BY <2>1, SpeechSends DEF IInv
  <2> QED BY <2>2, <2>3
<1> QED BY <1>1, <1>2, <1>3 DEF Speech

(* Nothing on the wire is lost or changed.                                 *)
LEMMA Grows ==
  ASSUME IInv, [Next]_vars
  PROVE  /\ Len(outbox) \in Nat /\ Len(outbox') \in Nat /\ Len(outbox) <= Len(outbox')
         /\ \A i \in 1..Len(outbox) : outbox'[i] = outbox[i]
<1>1. Len(outbox) \in Nat
  BY DEF IInv, Wire
<1>2. CASE outbox' = outbox
  BY <1>1, <1>2
<1>3. CASE Other
  BY <1>3 DEF Other, Sends
<1>4. CASE Speech
  BY <1>4, SpeechIs DEF Sends
<1> QED BY <1>1, <1>2, <1>3, <1>4, WireStep DEF Wired

(* So what was answered stays answered, as long as the captures it is      *)
(* about stay the same: all of them, or A.                                 *)
LEMMA AnswersStay ==
  ASSUME IInv, [Next]_vars
  PROVE  /\ SubSeq(ids', 1, 1) = SubSeq(ids, 1, 1) => \A r : Guidance(r) => Guidance(r)'
         /\ ids' = ids => \A q, r : Comparison(q, r) => Comparison(q, r)'
<1>1. \A types : \A i \in Sent(types) : i \in Sent(types)' /\ outbox'[i] = outbox[i]
  BY Grows DEF Sent
<1>2. ASSUME SubSeq(ids', 1, 1) = SubSeq(ids, 1, 1), NEW r, Guidance(r) PROVE Guidance(r)'
  BY <1>1, <1>2 DEF Guidance
<1>3. ASSUME ids' = ids, NEW q, NEW r, Comparison(q, r) PROVE Comparison(q, r)'
  BY <1>1, <1>3 DEF Comparison
<1> QED BY <1>2, <1>3

(* Speech adds no answer.                                                  *)
LEMMA ReadingStays ==
  ASSUME IInv, outbox' = outbox \/ Speech, OneReading
  PROVE  OneReading'
<1>1. CASE outbox' = outbox
  BY <1>1 DEF OneReading, Sent
<1>2. CASE Speech
  <2>1. \E m : Sends(m) /\ m.type \in {"speech_start", "speech_chunk", "speech_end"}
    BY <1>2, SpeechIs
  <2>2. Sent(Answers)' = Sent(Answers) /\ Sent({"analysis_reply"})' = Sent({"analysis_reply"})
    BY <2>1 DEF Sends, Sent, Answers, TurnReplies
  <2> QED BY <2>2 DEF OneReading
<1> QED BY <1>1, <1>2

(* Captures are counted by the phases.                                     *)
LEMMA CapturesStep ==
  ASSUME IInv, [Next]_vars
  PROVE  CapturesInv'
<1> USE HostConstants DEF IInv, Types, TaskInv, QuestionInv, CapturesInv, RequestIsFrozen, Asking,
        Terminal, Recording, Running, Held, Admitted, Messages, Silent, ask_vars, reply_vars,
        speech_vars, wire_vars
<1>1. ASSUME NEW m \in Messages, Held(m), Handle(m) PROVE CapturesInv'
  <2>1. CASE OnHello(m)
    BY <1>1, <2>1, AnswerSends DEF OnHello, MayHello, Ready
  <2>2. CASE OnCancel(m)
    BY <1>1, <2>2, AnswerSends DEF OnCancel, MayCancel, Stopped
  <2>3. CASE OnQuestionStart(m)
    BY <1>1, <2>3 DEF OnQuestionStart, MayAsk
  <2>4. CASE OnQuestionEnd(m)
    BY <1>1, <2>4 DEF OnQuestionEnd, MayEndQuestion
  <2>5. CASE OnConfirm(m)
    BY <1>1, <2>5 DEF OnConfirm, MayConfirm
  <2>6. CASE OnCaptureStart(m)
    <3>1. /\ phase' = <<"recording_a", "recording_b", "recording_repeat">>[Len(ids) + 1]
          /\ UNCHANGED <<ids, requests>>
      BY <2>6 DEF OnCaptureStart
    <3>2. phase = "await_a" \/ phase = "adjust" \/ (phase = "compare_ready" /\ Len(ids) = 2)
      BY <2>6 DEF OnCaptureStart, MayCapture
    <3>3. CASE phase = "await_a"
      BY <3>1, <3>3
    <3>4. CASE Len(ids) = 1
      BY <3>1, <3>4
    <3>5. CASE Len(ids) = 2
      BY <3>1, <3>5
    <3> QED BY <3>2, <3>3, <3>4, <3>5
  <2>7. CASE OnCaptureEnd(m)
    BY <1>1, <2>7, AnswerSends DEF OnCaptureEnd, MayEndCapture
  <2>8. CASE OnTurn(m)
    BY <1>1, <2>8 DEF OnTurn, MayTurn
  <2>9. CASE OnExplain(m)
    BY <1>1, <2>9 DEF OnExplain, MayExplain
  <2>10. CASE OnAck(m)
    BY <1>1, <2>10, AnswerSends DEF OnAck, MayAck
  <2>11. CASE OnSpeak(m)
    BY <1>1, <2>11 DEF OnSpeak, MaySpeak
  <2>12. CASE OnSpeechStop(m)
    BY <1>1, <2>12 DEF OnSpeechStop, MayStop
  <2> QED BY <1>1, <2>1, <2>2, <2>3, <2>4, <2>5, <2>6, <2>7, <2>8, <2>9, <2>10, <2>11, <2>12 DEF
           Handle
<1>2. ASSUME NEW why, Refuse(why) PROVE CapturesInv'
  BY <1>2 DEF Refuse
<1>3. CASE Disconnected
  BY <1>3 DEF Disconnected
<1>4. CASE Close
  BY <1>4 DEF Close, Stopped
<1>5. CASE Respond
  BY <1>5, SaySends DEF Respond, Failed, Reply, Incomplete
<1>6. CASE RespondFails
  BY <1>6, SaySends DEF RespondFails, Failed, Incomplete
<1>7. CASE RespondDropped
  BY <1>7 DEF RespondDropped
<1>8. CASE Explain
  BY <1>8, SaySends DEF Explain, Incomplete
<1>9. CASE ExplainFails
  BY <1>9, SaySends DEF ExplainFails, Failed, Incomplete
<1>10. CASE SpeechStart
  BY <1>10, SpeechSends DEF SpeechStart, SpeechSend
<1>11. CASE SpeechChunk
  BY <1>11, SpeechSends DEF SpeechChunk, SpeechSend
<1>12. CASE SpeechDies
  BY <1>12 DEF SpeechDies
<1>13. CASE Drop
  BY <1>13 DEF Drop
<1>14. CASE Advance
  BY <1>14 DEF Advance
<1>15. ASSUME NEW status \in {"heard", "empty", "failed"}, Transcribe(status) PROVE CapturesInv'
  BY <1>15, SaySends DEF Transcribe
<1>16. ASSUME NEW status \in {"complete", "failed"}, SpeechEnd(status) PROVE CapturesInv'
  BY <1>16, SpeechSends DEF SpeechEnd, SpeechSend
<1>17. CASE UNCHANGED vars
  BY <1>17 DEF vars
<1> QED BY StepCases, <1>1, <1>2, <1>3, <1>4, <1>5, <1>6, <1>7, <1>8, <1>9, <1>10, <1>11, <1>12,
           <1>13, <1>14, <1>15, <1>16, <1>17

(* Between the answers nothing changes what was answered.                  *)
LEMMA EvidenceStays ==
  ASSUME IInv, [Next]_vars, UNCHANGED <<phase, ids, requests, pending, acknowledged>>,
         task' \in {task, "none", "dead"},
         outbox' = outbox \/ Speech \/ phase # "complete"
  PROVE  EvidenceInv'
<1>1. /\ \A r : Guidance(r) => Guidance(r)'
      /\ \A q, r : Comparison(q, r) => Comparison(q, r)'
  BY AnswersStay
<1>2. phase = "complete" /\ OneReading => OneReading'
  BY ReadingStays
<1>3. GuidanceBehind => GuidanceBehind'
  BY <1>1 DEF GuidanceBehind
<1>4. GuidancePending => GuidancePending'
  BY <1>1 DEF GuidancePending
<1>5. ComparisonPending => ComparisonPending'
  BY <1>1 DEF ComparisonPending
<1>6. BothAcknowledged => BothAcknowledged'
  BY <1>1 DEF BothAcknowledged
<1> QED BY <1>2, <1>3, <1>4, <1>5, <1>6 DEF IInv, EvidenceInv

(* The phases that have an answer behind them, or wait for one.            *)
Evident == {"adjust", "recording_b", "recording_repeat", "compare_ready", "pending", "await_ack",
            "complete"}

(* The others claim nothing.                                               *)
LEMMA NoEvidence ==
  ASSUME phase' \notin Evident
  PROVE  EvidenceInv'
BY DEF EvidenceInv, Evident

(* A message handled keeps the answers tied to their captures: guidance    *)
(* comes with A alone, a comparison with what was added since, and         *)
(* "complete" only when its acknowledgement does.                          *)
LEMMA EvidenceHandled ==
  ASSUME IInv, [Next]_vars, NEW m \in Messages, Held(m), Handle(m)
  PROVE  EvidenceInv'
<1> USE DEF Evident, Held, Admitted, Silent, ask_vars, reply_vars, speech_vars, wire_vars
<1>1. CASE OnHello(m)
  BY <1>1, NoEvidence DEF OnHello
<1>2. CASE OnCancel(m)
  BY <1>2, NoEvidence DEF OnCancel
<1>3. CASE OnQuestionStart(m)
  BY <1>3, NoEvidence DEF OnQuestionStart
<1>4. CASE OnQuestionEnd(m)
  BY <1>4, NoEvidence DEF OnQuestionEnd
<1>5. CASE OnConfirm(m)
  BY <1>5, NoEvidence DEF OnConfirm
<1>6. CASE OnCaptureStart(m)
  <2>1. /\ phase' = <<"recording_a", "recording_b", "recording_repeat">>[Len(ids) + 1]
        /\ UNCHANGED <<ids, requests>>
    BY <1>6 DEF OnCaptureStart
  <2>2. phase = "await_a" \/ phase = "adjust" \/ (phase = "compare_ready" /\ Len(ids) = 2)
    BY <1>6 DEF OnCaptureStart, MayCapture
  <2>3. CASE phase = "await_a"
    <3>1. phase' = "recording_a"
      BY <2>1, <2>3 DEF IInv, QuestionInv, Asking
    <3> QED BY <3>1, NoEvidence
  <2>4. CASE phase \in {"adjust", "compare_ready"}
    <3>1. phase' \in {"recording_b", "recording_repeat"}
      <4>1. Len(ids) = 1 \/ Len(ids) = 2
        BY <2>2, <2>4 DEF IInv, TaskInv
      <4>2. CASE Len(ids) = 1
        BY <2>1, <4>2
      <4>3. CASE Len(ids) = 2
        BY <2>1, <4>3
      <4> QED BY <4>1, <4>2, <4>3
    <3>2. PICK r \in Requests : requests = {r} /\ Guidance(r)
      BY <2>4 DEF IInv, EvidenceInv, GuidanceBehind
    <3>3. GuidanceBehind'
      BY <2>1, <3>2, AnswersStay DEF GuidanceBehind
    <3> QED BY <3>1, <3>3 DEF EvidenceInv
  <2> QED BY <2>2, <2>3, <2>4
<1>7. CASE OnCaptureEnd(m)
  <2>1. /\ phase \in Recording /\ ids' = Append(ids, m.key) /\ UNCHANGED requests
        /\ phase' = IF ids = <<>> THEN "guide_ready" ELSE "compare_ready"
    BY <1>7 DEF OnCaptureEnd, MayEndCapture
  <2>2. CASE ids = <<>>
    BY <2>1, <2>2, NoEvidence
  <2>3. CASE ids # <<>>
    <3>1. phase \in {"recording_b", "recording_repeat"}
      BY <2>1, <2>3 DEF Recording, IInv, CapturesInv
    <3>2. PICK r \in Requests : requests = {r} /\ Guidance(r)
      BY <3>1 DEF IInv, EvidenceInv, GuidanceBehind
    <3>3. ids \in Seq(Ids) /\ m.key \in Ids
      BY <1>7 DEF IInv, CapturesInv, OnCaptureEnd, MayEndCapture, Messages
    <3>4. SubSeq(ids', 1, 1) = SubSeq(ids, 1, 1)
      BY <2>1, <2>3, <3>3
    <3>5. GuidanceBehind'
      BY <2>1, <3>2, <3>4, AnswersStay DEF GuidanceBehind
    <3> QED BY <2>1, <2>3, <3>5 DEF EvidenceInv
  <2> QED BY <2>2, <2>3
<1>8. CASE OnTurn(m)
  <2>1. /\ phase \in {"guide_ready", "compare_ready"} /\ phase' = "pending" /\ task' = "respond"
        /\ pending' = m.key /\ requests' = requests \cup {m.key} /\ UNCHANGED ids
    BY <1>8 DEF OnTurn, MayTurn
  <2>2. CASE phase = "guide_ready"
    <3>1. Len(ids') = 1 /\ requests' = {m.key} /\ m.key \in Requests
      BY <1>8, <2>1, <2>2 DEF IInv, CapturesInv, Messages, OnTurn, MayTurn
    <3>2. GuidancePending'
      BY <2>1, <3>1 DEF GuidancePending
    <3> QED BY <2>1, <3>1, <3>2 DEF EvidenceInv
  <2>3. CASE phase = "compare_ready"
    <3>1. Len(ids') \in {2, 3}
      BY <2>1, <2>3 DEF IInv, CapturesInv
    <3>2. PICK r \in Requests : requests = {r} /\ Guidance(r)
      BY <2>3 DEF IInv, EvidenceInv, GuidanceBehind
    <3>3. requests' = {r, m.key} /\ m.key \in Requests /\ Guidance(r)'
      BY <1>8, <2>1, <3>2, AnswersStay DEF Messages, OnTurn, MayTurn
    <3>4. ComparisonPending'
      BY <2>1, <3>3 DEF ComparisonPending
    <3> QED BY <2>1, <3>1, <3>4 DEF EvidenceInv
  <2> QED BY <2>1, <2>2, <2>3
<1>9. CASE OnExplain(m)
  <2>1. /\ phase' = "pending" /\ task' = "explain" /\ ids' = <<>>
        /\ pending' = m.key /\ requests' = {m.key}
    BY <1>9 DEF OnExplain, MayExplain
  <2> QED BY <2>1 DEF EvidenceInv
<1>10. CASE OnAck(m)
  <2>1. /\ phase = "await_ack" /\ phase' = IF Len(ids) = 1 THEN "adjust" ELSE "complete"
        /\ pending \in Requests /\ acknowledged' = pending /\ UNCHANGED <<ids, requests>>
    BY <1>10 DEF OnAck, MayAck, IInv, Types
  <2>2. CASE Len(ids) = 1
    <3>1. GuidancePending
      BY <2>1, <2>2 DEF IInv, EvidenceInv
    <3>2. GuidanceBehind'
      BY <2>1, <3>1, AnswersStay DEF GuidancePending, GuidanceBehind
    <3> QED BY <2>1, <2>2, <3>2 DEF EvidenceInv
  <2>3. CASE Len(ids) # 1
    <3>1. Len(ids) \in {2, 3} /\ ComparisonPending
      BY <2>1, <2>3 DEF IInv, EvidenceInv
    <3>2. BothAcknowledged'
      BY <2>1, <3>1, AnswersStay DEF ComparisonPending, BothAcknowledged
    <3> QED BY <2>1, <2>3, <3>1, <3>2 DEF EvidenceInv
  <2> QED BY <2>2, <2>3
<1>11. CASE OnSpeak(m)
  BY <1>11, EvidenceStays DEF OnSpeak
<1>12. CASE OnSpeechStop(m)
  BY <1>12, EvidenceStays DEF OnSpeechStop
<1> QED BY <1>1, <1>2, <1>3, <1>4, <1>5, <1>6, <1>7, <1>8, <1>9, <1>10, <1>11, <1>12 DEF Handle

(* The end of respond() sends the answer about the captures it was asked   *)
(* about, and the end of explain() completes the session.                  *)
LEMMA EvidenceAnswered ==
  ASSUME IInv, [Next]_vars, Respond \/ Explain
  PROVE  EvidenceInv'
<1> DEFINE NewReply == Len(outbox) + 1
<1>1. CASE ~link
  <2>1. phase' = "incomplete"
    BY <1>1 DEF Respond, Explain, Failed
  <2> QED BY <2>1, NoEvidence DEF Evident
<1>2. CASE link /\ Respond
  <2>1. /\ task = "respond" /\ phase = "pending" /\ phase' = "await_ack" /\ Say(Reply)
        /\ UNCHANGED <<ids, requests, pending>>
    BY <1>2 DEF Respond
  <2>2. Sends(Reply) /\ task' = "none"
    BY <1>2, <2>1, SaySends DEF Emits, IInv
  <2>3. asked.ids = ids /\ pending \in Requests
    BY <2>1 DEF IInv, RequestIsFrozen, Running, Terminal, Types, TaskInv
  <2>4. /\ Reply.type = IF Len(ids) = 1 THEN "guidance" ELSE "comparison"
        /\ Reply.key = pending /\ Reply.ids = ids
    BY <2>3 DEF Reply
  <2>5. NewReply \in 1..Len(outbox') /\ outbox'[NewReply] = Reply
    BY <2>2 DEF Sends
  <2>6. CASE Len(ids) = 1 /\ GuidancePending
    <3>1. SubSeq(ids, 1, 1) = ids
      BY <2>6 DEF IInv, CapturesInv
    <3>2. NewReply \in Sent({"guidance"})'
      BY <2>4, <2>5, <2>6 DEF Sent
    <3>3. \A r : r = pending => Guidance(r)'
      BY <2>1, <2>4, <2>5, <2>6, <3>1, <3>2 DEF Guidance
    <3>4. GuidancePending'
      BY <2>1, <2>6, <3>3 DEF GuidancePending
    <3> QED BY <2>1, <2>2, <2>6, <3>4 DEF EvidenceInv
  <2>7. CASE Len(ids) \in {2, 3} /\ ComparisonPending
    <3>1. PICK q \in Requests, r \in Requests : requests = {q, r} /\ r = pending /\ Guidance(q)
      BY <2>7 DEF ComparisonPending
    <3>2. PICK i \in Sent({"guidance"}) : outbox[i].ids = SubSeq(ids, 1, 1) /\ outbox[i].key = q
      BY <3>1 DEF Guidance
    <3>3. i \in Sent({"guidance"})' /\ outbox'[i] = outbox[i] /\ i < NewReply
      BY <2>2 DEF Sends, Sent
    <3>4. Len(ids) # 1
      BY <2>7
    <3>5. outbox'[NewReply].type = "comparison"
      BY <2>4, <2>5, <3>4
    <3>6. NewReply \in Sent({"comparison"})'
      BY <2>5, <3>5 DEF Sent
    <3>7. Comparison(q, r)'
      BY <2>1, <2>4, <2>5, <3>1, <3>2, <3>3, <3>6 DEF Comparison
    <3>8. Guidance(q)'
      BY <2>1, <3>1, AnswersStay
    <3>9. ComparisonPending'
      BY <2>1, <3>1, <3>7, <3>8 DEF ComparisonPending
    <3> QED BY <2>1, <2>2, <2>7, <3>9 DEF EvidenceInv
  <2> QED BY <2>1, <2>6, <2>7 DEF IInv, EvidenceInv
<1>3. CASE link /\ Explain
  <2> DEFINE Reading == [type |-> "analysis_reply", key |-> pending]
  <2>1. task = "explain" /\ phase = "pending" /\ phase' = "complete" /\ Say(Reading) /\ UNCHANGED ids
    BY <1>3 DEF Explain
  <2>2. ids = <<>> /\ requests = {pending}
    <3>1. ids \in Seq(Ids)
      BY DEF IInv, CapturesInv
    <3> QED BY <2>1, <3>1 DEF IInv, EvidenceInv
  <2>3. Sent(Answers) = {}
    BY <2>1, <2>2 DEF IInv, AnswerInv
  <2>4. Sends(Reading)
    BY <1>3, <2>1, SaySends DEF Emits, IInv
  <2>5. Sent(Answers)' = {NewReply} /\ NewReply \in Sent({"analysis_reply"})'
    BY <2>3, <2>4 DEF Sends, Sent, Answers, TurnReplies
  <2> QED BY <2>1, <2>2, <2>5 DEF OneReading, EvidenceInv
<1> QED BY <1>1, <1>2, <1>3

(* An answer is about the captures of its request, and none is forgotten.  *)
LEMMA EvidenceStep ==
  ASSUME IInv, [Next]_vars
  PROVE  EvidenceInv'
<1> USE DEF Evident, Silent, ask_vars, reply_vars, speech_vars, wire_vars
<1>1. ASSUME NEW m \in Messages, Held(m), Handle(m) PROVE EvidenceInv'
  BY <1>1, EvidenceHandled
<1>2. ASSUME NEW why, Refuse(why) PROVE EvidenceInv'
  <2>1. phase' \in {"new", "incomplete"}
    BY <1>2 DEF Refuse
  <2> QED BY <2>1, NoEvidence
<1>3. CASE Disconnected \/ Drop \/ Advance \/ SpeechDies
  <2>1. UNCHANGED <<phase, ids, requests, pending, acknowledged, task, outbox>>
    BY <1>3 DEF Disconnected, Drop, Advance, SpeechDies
  <2> QED BY <2>1, EvidenceStays
<1>4. CASE Close
  <2>1. /\ UNCHANGED <<ids, requests, acknowledged, outbox>> /\ task' \in {task, "none", "dead"}
        /\ phase' \in {phase, "offline"} /\ (phase' = "offline" \/ pending' = pending \/ phase \in Terminal)
    BY <1>4 DEF Close, Stopped
  <2>2. phase \in Terminal => phase \notin {"pending", "await_ack"}
    BY DEF Terminal
  <2>3. CASE phase' = "offline"
    BY <2>3, NoEvidence
  <2>4. CASE phase' = phase /\ pending' = pending
    BY <2>1, <2>4, EvidenceStays
  <2>5. CASE phase' = phase /\ phase \in Terminal
    <3>1. phase = "complete" /\ OneReading => OneReading'
      BY <2>1, ReadingStays
    <3>2. BothAcknowledged => BothAcknowledged'
      BY <2>1, AnswersStay DEF BothAcknowledged
    <3> QED BY <2>1, <2>5, <3>1, <3>2 DEF IInv, EvidenceInv, Terminal
  <2> QED BY <2>1, <2>3, <2>4, <2>5
<1>5. CASE Respond \/ Explain
  BY <1>5, EvidenceAnswered
<1>6. CASE RespondFails \/ ExplainFails
  BY <1>6, NoEvidence DEF RespondFails, ExplainFails, Failed
<1>7. CASE RespondDropped
  BY <1>7, EvidenceStays DEF RespondDropped
<1>8. CASE Speech
  <2>1. UNCHANGED <<phase, ids, requests, pending, acknowledged, task>>
    BY <1>8 DEF Speech, SpeechStart, SpeechChunk, SpeechEnd, SpeechSend
  <2> QED BY <1>8, <2>1, EvidenceStays
<1>9. ASSUME NEW status \in {"heard", "empty", "failed"}, Transcribe(status) PROVE EvidenceInv'
  <2>1. CASE phase = "transcribing"
    BY <1>9, <2>1, NoEvidence DEF Transcribe
  <2>2. CASE phase # "transcribing"
    BY <1>9, <2>2, EvidenceStays DEF Transcribe
  <2> QED BY <2>1, <2>2
<1>10. CASE UNCHANGED vars
  BY <1>10, EvidenceStays DEF vars
<1> QED BY StepCases, <1>1, <1>2, <1>3, <1>4, <1>5, <1>6, <1>7, <1>8, <1>9, <1>10 DEF Speech

-----------------------------------------------------------------------------
(* The invariant holds at the start: nothing was sent, asked or spoken.    *)
LEMMA InitIInv == Init => IInv
<1> SUFFICES ASSUME Init PROVE IInv
  OBVIOUS
<1> USE HostConstants DEF Init
<1>1. outbox = <<>> /\ Len(outbox) = 0
  OBVIOUS
<1>2. Wire /\ Types /\ TaskInv /\ RequestIsFrozen
  BY <1>1 DEF Wire, Types, TaskInv, RequestIsFrozen, Running, Terminal
<1>3. CancelInv /\ Framed /\ StreamInv /\ AnswerInv /\ Started /\ SpokenInv
  BY <1>1 DEF CancelInv, Framed, StreamInv, AnswerInv, Started, SpokenInv, Sent
<1>4. QuestionInv
  BY DEF QuestionInv, Asking
<1>5. CapturesInv /\ EvidenceInv
  BY DEF CapturesInv, EvidenceInv
<1> QED BY <1>2, <1>3, <1>4, <1>5 DEF IInv

(* Every step keeps it.                                                    *)
THEOREM InvariantHolds == Spec => []IInv
<1>1. IInv /\ [Next]_vars => IInv'
  <2> SUFFICES ASSUME IInv, [Next]_vars PROVE IInv'
    OBVIOUS
  <2> QED BY WireStep, TypesStep, TaskInvStep, FrozenStep, CancelStep, FramedStep, StreamStep,
             AnswerStep, StartedStep, SpokenStep, QuestionStep, CapturesStep, EvidenceStep DEF IInv, Wired
<1> QED BY InitIInv, <1>1, PTL DEF Spec

(* From its turn to its ack a request has the session to itself:           *)
(* receive(), capture() and question() hold everything else back.          *)
THEOREM RequestHasTheSession == Spec => []RequestIsFrozen
<1>1. IInv => RequestIsFrozen
  BY DEF IInv
<1> QED BY InvariantHolds, <1>1, PTL

(* cancel() leaves no task that could still send: "cancelled" is the last  *)
(* message of the connection.                                              *)
THEOREM CancelEndsTheWire == Spec => []CancelIsLast
<1>1. IInv => CancelIsLast
  BY DEF IInv, CancelInv, CancelIsLast, Sent
<1> QED BY InvariantHolds, <1>1, PTL

(* speak() holds the wire from speech_start to speech_end, however many    *)
(* chunks it sends.                                                        *)
THEOREM StreamIsWhole == Spec => []StreamContiguous
<1>1. IInv => StreamContiguous
  BY DEF IInv, Framed, StreamContiguous
<1> QED BY InvariantHolds, <1>1, PTL

(* respond() and explain() answer a request once, and speak() speaks only  *)
(* a reply the device was told is accepted, once.                          *)
THEOREM NoSecondAnswer == Spec => []AnsweredOnce
<1>1. IInv => AnsweredOnce
  BY DEF IInv, AnswerInv, Started, AnsweredOnce
<1> QED BY InvariantHolds, <1>1, PTL

(* A session that is complete explained one analysis, or gave guidance     *)
(* over A and then a comparison over every capture, both of its requests   *)
(* acknowledged: nothing completes a session by another way.               *)
THEOREM CompletionHasEvidence == Spec => []CompleteHasEvidence
<1>1. IInv => CompleteHasEvidence
  <2> SUFFICES ASSUME IInv, phase = "complete"
               PROVE  IF ids = <<>>
                      THEN Cardinality(Sent(Answers)) = 1 /\ Sent({"analysis_reply"}) # {}
                      ELSE \E i \in Sent({"guidance"}), j \in Sent({"comparison"}) :
                             /\ i < j /\ Len(ids) \in {2, 3}
                             /\ outbox[i].ids = SubSeq(ids, 1, 1) /\ outbox[j].ids = ids
                             /\ requests = {outbox[i].key, outbox[j].key}
                             /\ acknowledged = outbox[j].key
    BY DEF CompleteHasEvidence
  <2>1. CASE ids = <<>> /\ OneReading
    <3>1. PICK k \in Sent({"analysis_reply"}) : Sent(Answers) = {k}
      BY <2>1 DEF OneReading
    <3>2. Cardinality({k}) = 1
      BY FS_Singleton
    <3> QED BY <2>1, <3>1, <3>2
  <2>2. CASE Len(ids) \in {2, 3} /\ BothAcknowledged
    <3>1. ids # <<>>
      BY <2>2
    <3> QED BY <2>2, <3>1 DEF BothAcknowledged, Comparison
  <2> QED BY <2>1, <2>2 DEF IInv, EvidenceInv
<1> QED BY InvariantHolds, <1>1, PTL

(* question_confirm() settles the operator's words before any evidence or  *)
(* request, and from a transcript that was sent.                           *)
THEOREM WordsAreSettled == Spec => QuestionSettled
<1>1. IInv /\ [Next]_vars =>
        (operatorQuestion' # operatorQuestion =>
           /\ ids = <<>> /\ seen = {} /\ requests = {}
           /\ link => \E i \in Sent({"transcript"}) :
                outbox[i].key = operatorQuestion' /\ outbox[i].status = "heard")
  <2> SUFFICES ASSUME IInv, [Next]_vars, operatorQuestion' # operatorQuestion
               PROVE  \E m \in Messages : OnConfirm(m)
    BY DEF OnConfirm, MayConfirm, IInv, QuestionInv, Asking
  <2> USE DEF ask_vars, Silent
  <2>1. ASSUME NEW m \in Messages, Handle(m) PROVE OnConfirm(m)
    BY <2>1 DEF Handle, OnHello, OnCancel, OnQuestionStart, OnQuestionEnd, OnCaptureStart,
       OnCaptureEnd, OnTurn, OnExplain, OnAck, OnSpeak, OnSpeechStop
  <2>2. \A why : ~Refuse(why)
    BY DEF Refuse
  <2>3. ~(Disconnected \/ Close \/ SpeechDies \/ Drop \/ Advance \/ UNCHANGED vars)
    BY DEF Disconnected, Close, SpeechDies, Drop, Advance, vars
  <2>4. ~(Respond \/ RespondFails \/ RespondDropped \/ Explain \/ ExplainFails)
    BY DEF Respond, RespondFails, RespondDropped, Explain, ExplainFails
  <2>5. \A status : ~(Transcribe(status) \/ SpeechEnd(status)) /\ ~SpeechStart /\ ~SpeechChunk
    BY DEF Transcribe, SpeechEnd, SpeechStart, SpeechChunk, SpeechSend
  <2> QED BY <2>1, <2>2, <2>3, <2>4, <2>5, StepCases
<1> QED BY InvariantHolds, <1>1, PTL DEF Spec, QuestionSettled
=============================================================================
