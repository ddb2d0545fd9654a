---------------------------- MODULE ExplainProofs ----------------------------
(***************************************************************************)
(* Explain: the session behind it, with any number of speech chunks, and   *)
(* the screen of the listening instrument in front of it.                  *)
(***************************************************************************)
EXTENDS ExplainSession, Instrument, SequenceTheorems, TLAPS

-----------------------------------------------------------------------------
(* What the two sides may say.                                             *)
HelloM == [type |-> "hello"]
StartM == [type |-> "question_start", key |-> Note]
EndM == [type |-> "question_end", key |-> Note, valid |-> TRUE]
ConfirmM == [type |-> "question_confirm", key |-> Note, accepted |-> TRUE]
ExplainM == [type |-> "analysis_explain", key |-> Explain]
SpeakM == [type |-> "speak", key |-> Explain]
StopM == [type |-> "speech_stop", key |-> Explain]

Transcripts == [type : {"transcript"}, key : {Note}, status : {"heard", "empty", "failed"}]
ReplyM == [type |-> "analysis_reply", key |-> Explain]
Chunks == [type : {"speech_start", "speech_chunk"}, key : {Explain}]
Ends == [type : {"speech_end"}, key : {Explain}, status : {"complete", "failed", "stopped"}]
Said == {H!Ready, H!Incomplete, ReplyM} \cup Transcripts \cup Chunks \cup Ends

(* Everything the Mac said has been read; or all but one message of S.     *)
AllRead == received = Len(outbox)
OneUnread(S) == Len(outbox) = received + 1 /\ Message \in S

(* The call returns words, a reading and an error, if any.                 *)
Errors == {"none", "no_answer", "dropped", "note", "late", "agent"}
Results == [transcript : {None, Note}, text : {None, Explain}, error : Errors]

Types ==
  /\ out \in Results
  /\ outbox \in Seq(Said) /\ received \in Nat /\ received <= Len(outbox)
  /\ pc \in {"start", "hello", "note", "recorded", "upload", "transcript", "dialog", "confirm",
             "ask", "reply", "speak", "speech", "done"}
  /\ stream \in Nat
  /\ refused \in {"none", "idle"}
  /\ speaking \in {None, Explain}

(* The device: what the reducer is at and what may be unread, for each     *)
(* place of the media task, whether or not the connection lives.           *)
DeviceInv ==
  /\ pc \in {"start", "note", "recorded", "upload", "dialog", "confirm", "ask", "speak"} => AllRead
  /\ pc = "start" => received = 0 /\ state = "idle"
  /\ pc = "hello" => state = "connecting" /\ (AllRead \/ OneUnread({H!Ready}))
  /\ pc = "recorded" => state = "asking"
  /\ pc \in {"upload", "transcript"} => state = "transcribing" /\ questionId = Note
  /\ pc = "transcript" => AllRead \/ OneUnread(Transcripts)
  /\ pc = "dialog" => state \in {"confirming", "ready_a"}
  /\ pc = "confirm" => state = "confirming"
  /\ state = "confirming" => transcript = Note
  /\ pc \in {"note", "ask", "reply", "speak", "speech"} => state = "ready_a"
  /\ pc = "reply" => AllRead \/ OneUnread({H!Incomplete, ReplyM})
  /\ pc \notin {"speech", "done"} => playback = "idle" /\ ~stopSent
  /\ playback # "idle" => state # "incomplete"
  /\ pc \in {"note", "recorded", "upload"} => Transcriber
  /\ speech => Transcriber
  /\ voice => Speaker
  /\ pc = "speak" => Speaker

(* A reply is spoken as start, chunks, end, of which the device has read a *)
(* beginning.                                                              *)
SpeechInv == pc = "speech" =>
  /\ playback \in {"begun", "started", "ended"}
  /\ playback = "ended" => AllRead
  /\ \A i \in received + 1..Len(outbox) :
       /\ outbox[i] \in Chunks \cup Ends
       /\ outbox[i].type = "speech_start" <=> i = received + 1 /\ playback = "begun"
       /\ outbox[i] \in Ends => i = Len(outbox)

(* The Mac: what it may still have to read in each of its phases.          *)
Fresh == questionIds = <<>> /\ heard = None /\ requests = {} /\ pending = None
Asked == questionIds = <<Note>> /\ requests = {} /\ pending = None
Silence == spoken = {} /\ speaking = None

HostInv ==
  /\ ids = <<>> /\ seen = {}
  /\ link => handler = "reading"
  /\ task \in {"none", "transcribe", "explain", "dead"}
  /\ handler = "reading" =>
       /\ task = "explain" => phase = "pending"
       /\ \/ phase = "new" /\ toHost \in {<<>>, <<HelloM>>} /\ Fresh /\ Silence
          \/ /\ phase = "await_a" /\ Fresh /\ Silence
             /\ \/ toHost \in {<<>>, <<ExplainM>>}
                \/ toHost \in {<<StartM>>, <<StartM, EndM>>} /\ Transcriber
          \/ phase = "question_upload" /\ toHost \in {<<>>, <<EndM>>} /\ Asked /\ Silence
          \/ phase = "transcribing" /\ toHost = <<>> /\ Asked /\ Silence
          \/ /\ phase = "await_confirm" /\ toHost \in {<<>>, <<ConfirmM>>, <<ConfirmM, ExplainM>>}
             /\ Asked /\ Silence /\ heard = Note
          \/ phase = "await_a" /\ toHost \in {<<>>, <<ExplainM>>} /\ Asked /\ Silence
          \/ phase = "pending" /\ toHost = <<>> /\ Silence /\ pending = Explain /\ requests # {}
          \/ phase = "incomplete" /\ toHost = <<>> /\ Silence
          \/ /\ phase = "complete" /\ acknowledged = Explain
             /\ \/ Silence /\ toHost = <<>>
                \/ Silence /\ Speaker /\ toHost \in {<<SpeakM>>, <<SpeakM, StopM>>}
                \/ spoken = {Explain} /\ toHost \in {<<>>, <<StopM>>}

(* While the connection lives, where the device is says where the Mac is.  *)
Sync == link =>
  /\ pc # "done"
  /\ pc = "start" => phase = "new" /\ toHost = <<>>
  /\ pc = "hello" => \/ phase = "new" /\ toHost = <<HelloM>> /\ AllRead
                     \/ phase = "await_a" /\ questionIds = <<>> /\ toHost = <<>> /\ ~AllRead
  /\ pc \in {"note", "recorded"} => phase = "await_a" /\ questionIds = <<>> /\ toHost = <<>>
  /\ pc = "upload" => \/ phase = "await_a" /\ toHost = <<StartM>>
                      \/ phase = "question_upload" /\ toHost = <<>>
  /\ pc = "transcript" =>
       \/ phase = "await_a" /\ toHost = <<StartM, EndM>> /\ AllRead
       \/ phase = "question_upload" /\ toHost = <<EndM>> /\ AllRead
       \/ phase = "transcribing" /\ toHost = <<>> /\ AllRead
       \/ phase = "await_confirm" /\ toHost = <<>> /\ ~AllRead /\ Message.status = "heard"
       \/ phase = "await_a" /\ toHost = <<>> /\ ~AllRead /\ Message.status # "heard"
  /\ pc \in {"dialog", "confirm"} =>
       /\ toHost = <<>>
       /\ phase = IF state = "confirming" THEN "await_confirm" ELSE "await_a"
  /\ pc = "ask" => \/ phase = "await_a" /\ toHost = <<>>
                   \/ phase = "await_confirm" /\ toHost = <<ConfirmM>>
  /\ pc = "reply" =>
       \/ phase = "await_a" /\ toHost = <<ExplainM>> /\ AllRead
       \/ phase = "await_confirm" /\ toHost = <<ConfirmM, ExplainM>> /\ AllRead
       \/ phase = "pending" /\ toHost = <<>> /\ AllRead
       \/ phase = "complete" /\ toHost = <<>> /\ ~AllRead /\ Message = ReplyM /\ Silence
       \/ phase = "incomplete" /\ toHost = <<>> /\ ~AllRead /\ Message = H!Incomplete
  /\ pc = "speak" => phase = "complete" /\ toHost = <<>> /\ Silence
  /\ pc = "speech" =>
       /\ phase = "complete"
       /\ spoken = {} => toHost # <<>> /\ AllRead /\ playback = "begun"
       /\ toHost \in {<<StopM>>, <<SpeakM, StopM>>} => stopSent
       /\ speaking # None => stream = 0 <=> AllRead /\ playback = "begun"
       /\ speaking # None =>
            playback # "ended" /\ \A i \in received + 1..Len(outbox) : outbox[i] \notin Ends

(* The words: the agent is asked with those the device has shown.          *)
WordsInv ==
  /\ pc \notin {"speak", "speech", "done"} => out.text = None
  /\ pc \notin {"ask", "reply", "speak", "speech", "done"} =>
       out.transcript = None /\ (link => operatorQuestion = None)
  /\ link /\ pc \in {"ask", "reply"} =>
       CASE phase = "await_confirm" -> out.transcript = Note
         [] phase = "await_a"       -> out.transcript = operatorQuestion
         [] OTHER                   -> asked.question = out.transcript
  /\ out.text # None \/ (pc = "reply" /\ ~AllRead /\ Message = ReplyM) =>
       requests # {} /\ asked.question = out.transcript

(* The inductive invariant.                                                *)
ExplainInv == Types /\ DeviceInv /\ SpeechInv /\ HostInv /\ Sync /\ WordsInv

(* Queues of one and of two messages.                                      *)
LEMMA Queues ==
  ASSUME NEW a, NEW b
  PROVE  /\ <<a>> # <<>> /\ <<a, b>> # <<>> /\ <<a, b>> # <<a>> /\ <<a>> # <<b, a>>
         /\ Head(<<a>>) = a /\ Tail(<<a>>) = <<>>
         /\ Head(<<a, b>>) = a /\ Tail(<<a, b>>) = <<b>>
         /\ <<>> \o <<a>> = <<a>> /\ <<a>> \o <<b>> = <<a, b>>
         /\ Append(<<>>, a) = <<a>> /\ Append(<<a>>, b) = <<a, b>>
<1>1. /\ <<a>> # <<>> /\ <<a, b>> # <<>> /\ <<a, b>> # <<a>> /\ <<a>> # <<b, a>>
      /\ Head(<<a>>) = a /\ Head(<<a, b>>) = a
  OBVIOUS
<1>2. Tail(<<a>>) = <<>> /\ Tail(<<a, b>>) = <<b>>
  OBVIOUS
<1>3. <<a>> \in Seq({a, b}) /\ b \in {a, b} /\ <<a, b>> \in Seq({a, b})
  OBVIOUS
<1>4. Append(<<>>, a) = <<a>> /\ <<>> \o <<a>> = <<a>>
  BY <1>3, ConcatEmptySeq
<1>5. Append(<<a>>, b) = <<a, b>>
  <2> DEFINE S == {a, b}
  <2>1. Len(<<a>>) = 1 /\ Len(<<a, b>>) = 2
    OBVIOUS
  <2> HIDE DEF S
  <2>2. Append(<<a>>, b) \in Seq(S) /\ Len(Append(<<a>>, b)) = 2
    BY <1>3, <2>1 DEF S
  <2>3. \A i \in 1..2 : Append(<<a>>, b)[i] = <<a, b>>[i]
    BY <1>3, <2>1
  <2> QED BY <1>3, <2>1, <2>2, <2>3, SeqEqual DEF S
<1>6. <<a>> \o <<b>> = <<a, b>>
  BY <1>3, <1>5, AppendIsConcat
<1> QED BY <1>1, <1>2, <1>4, <1>5, <1>6

(* No two kinds of message are the same.                                   *)
LEMMA Different ==
  /\ HelloM.type = "hello" /\ StartM.type = "question_start" /\ EndM.type = "question_end"
  /\ ConfirmM.type = "question_confirm" /\ ExplainM.type = "analysis_explain"
  /\ SpeakM.type = "speak" /\ StopM.type = "speech_stop"
  /\ StartM.key = Note /\ EndM.key = Note /\ EndM.valid /\ ConfirmM.key = Note /\ ConfirmM.accepted
  /\ ExplainM.key = Explain /\ SpeakM.key = Explain /\ StopM.key = Explain
BY DEF HelloM, StartM, EndM, ConfirmM, ExplainM, SpeakM, StopM

(* One more message of the Mac.                                            *)
LEMMA Grows ==
  ASSUME Types, NEW m \in Said, outbox' = Append(outbox, m), received' = received
  PROVE  /\ outbox' \in Seq(Said) /\ Len(outbox) \in Nat /\ Len(outbox') = Len(outbox) + 1
         /\ outbox'[Len(outbox) + 1] = m
         /\ \A i \in 1..Len(outbox) : outbox'[i] = outbox[i]
         /\ received \in Nat /\ received' <= Len(outbox') /\ ~AllRead'
         /\ AllRead => Message' = m /\ \A S : m \in S => OneUnread(S)'
<1> HIDE DEF Said
<1>1. /\ outbox' \in Seq(Said) /\ Len(outbox) \in Nat /\ Len(outbox') = Len(outbox) + 1
      /\ outbox'[Len(outbox) + 1] = m
      /\ \A i \in 1..Len(outbox) : outbox'[i] = outbox[i]
      /\ received \in Nat /\ received <= Len(outbox)
  BY DEF Types
<1>2. received' <= Len(outbox') /\ ~AllRead'
  BY <1>1 DEF AllRead
<1>3. AllRead => Message' = m
  BY <1>1 DEF AllRead, Message
<1>4. AllRead => Len(outbox') = received' + 1
  BY <1>1 DEF AllRead
<1>5. ASSUME AllRead, NEW S, m \in S PROVE OneUnread(S)'
  BY <1>3, <1>4, <1>5 DEF OneUnread
<1> QED BY <1>1, <1>2, <1>3, <1>5

(* The Mac does nothing the device could notice.                           *)
LEMMA Unnoticed ==
  ASSUME Types, DeviceInv, SpeechInv, UNCHANGED <<device_vars, outbox>>
  PROVE  /\ DeviceInv' /\ SpeechInv' /\ AllRead' = AllRead /\ Message' = Message
         /\ stream' \in Nat /\ refused' \in {"none", "idle"} /\ speaking' \in {None, Explain} => Types'
<1> USE DEF device_vars, d_vars, stream_vars
<1>1. AllRead' = AllRead /\ Message' = Message /\ \A S : OneUnread(S)' <=> OneUnread(S)
  BY DEF AllRead, Message, OneUnread
<1>2. DeviceInv'
  BY <1>1 DEF DeviceInv
<1>3. SpeechInv'
  BY <1>1 DEF SpeechInv
<1>4. stream' \in Nat /\ refused' \in {"none", "idle"} /\ speaking' \in {None, Explain} => Types'
  BY DEF Types
<1> QED BY <1>1, <1>2, <1>3, <1>4

(* What the Mac may do with a message it takes.                            *)
LEMMA Taken ==
  ASSUME HostInv, HostReads
  PROVE  /\ handler = "reading" /\ toHost # <<>> /\ toHost' = Tail(toHost) /\ UNCHANGED device_vars
         /\ \/ Head(toHost) = HelloM /\ H!OnHello(HelloM)
            \/ Head(toHost) = StartM /\ H!OnQuestionStart(StartM)
            \/ Head(toHost) = EndM /\ H!OnQuestionEnd(EndM)
            \/ Head(toHost) = ConfirmM /\ H!OnConfirm(ConfirmM)
            \/ Head(toHost) = ExplainM /\ H!OnExplain(ExplainM)
            \/ Head(toHost) = SpeakM /\ H!OnSpeak(SpeakM)
            \/ Head(toHost) = StopM /\ H!OnSpeechStop(StopM)
<1> DEFINE m == Head(toHost)
<1>1. handler = "reading" /\ toHost # <<>> /\ toHost' = Tail(toHost) /\ UNCHANGED device_vars
  BY DEF HostReads, H!Receive
<1>2. IF H!Legal(m) THEN H!Handle(m) ELSE H!Refuse(m.type)
  BY DEF HostReads, H!Receive
<1>3. \/ m = HelloM /\ H!MayHello(m)
      \/ m = StartM /\ H!Admitted(m) /\ H!MayAsk(m)
      \/ m = EndM /\ H!Admitted(m) /\ H!MayEndQuestion(m)
      \/ m = ConfirmM /\ H!Admitted(m) /\ H!MayConfirm(m)
      \/ m = ExplainM /\ H!Admitted(m) /\ H!MayExplain(m)
      \/ m = SpeakM /\ H!Admitted(m) /\ H!MaySpeak(m)
      \/ m = StopM /\ H!Admitted(m) /\ H!MayStop(m)
  <2> USE <1>1, Different, Queues DEF H!Admitted, H!Running, H!Terminal, Silence, Fresh, Asked
  <2>1. CASE phase = "new"
    BY <2>1 DEF HostInv, H!MayHello
  <2>2. CASE phase = "await_a" /\ Fresh /\ toHost \in {<<StartM>>, <<StartM, EndM>>}
    <3>1. m = StartM
      BY <2>2
    <3>2. Silence /\ Transcriber
      BY <2>2 DEF HostInv
    <3>3. H!MayAsk(m)
      BY <2>2, <3>1, <3>2 DEF HostInv, H!MayAsk
    <3> QED BY <2>2, <3>1, <3>2, <3>3
  <2>3. CASE phase = "await_a" /\ toHost = <<ExplainM>>
    BY <2>3 DEF HostInv, H!MayExplain
  <2>4. CASE phase = "question_upload"
    <3>1. m = EndM /\ Asked /\ Silence
      BY <2>4 DEF HostInv
    <3>2. questionIds[Len(questionIds)] = Note
      BY <3>1
    <3> QED BY <2>4, <3>1, <3>2 DEF H!MayEndQuestion
  <2>5. CASE phase = "await_confirm"
    BY <2>5, ExplainConstants DEF HostInv, H!MayConfirm
  <2>6. CASE phase = "complete" /\ Silence
    BY <2>6 DEF HostInv, H!MaySpeak
  <2>7. CASE phase = "complete" /\ spoken = {Explain} /\ toHost = <<StopM>>
    BY <2>7 DEF H!MayStop
  <2> QED BY <2>1, <2>2, <2>3, <2>4, <2>5, <2>6, <2>7 DEF HostInv
<1>4. H!Legal(m) /\ H!Handle(m)
  BY <1>2, <1>3 DEF H!Legal
<1>5. m.type # "cancel" /\ m.type # "turn"
  BY <1>3, Different
<1> QED
  BY <1>1, <1>3, <1>4, <1>5, Different
  DEF H!Handle, H!OnHello, H!MayHello, H!OnCancel, H!MayCancel, H!OnQuestionStart, H!MayAsk,
      H!OnQuestionEnd, H!MayEndQuestion, H!OnConfirm, H!MayConfirm, H!OnCaptureStart, H!MayCapture,
      H!OnCaptureEnd, H!MayEndCapture, H!OnTurn, H!MayTurn, H!OnExplain, H!MayExplain, H!OnAck,
      H!MayAck, H!OnSpeak, H!MaySpeak, H!OnSpeechStop, H!MayStop

-----------------------------------------------------------------------------
(* The Mac takes a message.  One case for each kind.                       *)
LEMMA TakesHello ==
  ASSUME ExplainInv, HostReads, Head(toHost) = HelloM, H!OnHello(HelloM)
  PROVE  ExplainInv'
<1> USE DEF ExplainInv, h_vars
<1>1. /\ handler = "reading" /\ toHost # <<>> /\ toHost' = Tail(toHost) /\ UNCHANGED device_vars
      /\ phase = "new" /\ phase' = "await_a" /\ H!Answer(H!Ready) /\ link' = link
      /\ UNCHANGED <<questionIds, heard, operatorQuestion, seen, ids, requests, pending, asked, task,
                     acknowledged, spoken, speaking, stream, refused>>
  BY Taken DEF H!OnHello, H!MayHello, H!Answer, H!ask_vars, H!reply_vars, H!speech_vars
<1>2. toHost = <<HelloM>> /\ toHost' = <<>> /\ Fresh /\ Silence
  BY <1>1, Queues DEF HostInv, Fresh, Asked
<1>3. HostInv'
  BY <1>1, <1>2 DEF HostInv, Fresh, Silence, H!Answer
<1>4. CASE ~link
  <2>1. outbox' = outbox /\ link' = FALSE
    BY <1>1, <1>4 DEF H!Answer
  <2>2. DeviceInv' /\ SpeechInv' /\ AllRead' = AllRead /\ Message' = Message /\ Types'
    BY <1>1, <2>1, Unnoticed DEF Types
  <2>3. Sync'
    BY <2>1 DEF Sync
  <2>4. WordsInv'
    BY <1>1, <2>1, <2>2 DEF WordsInv, device_vars
  <2> QED BY <1>3, <2>2, <2>3, <2>4
<1>5. CASE link
  <2>1. pc = "hello" /\ AllRead /\ operatorQuestion = None
    BY <1>1, <1>2, <1>5, Queues DEF Sync, WordsInv, Types
  <2>2. outbox' = Append(outbox, H!Ready) /\ H!Ready \in Said /\ received' = received /\ pc' = pc
    BY <1>1, <1>5 DEF H!Answer, Said, device_vars
  <2>3. /\ outbox' \in Seq(Said) /\ received \in Nat /\ received' <= Len(outbox') /\ ~AllRead'
        /\ OneUnread({H!Ready})'
    BY <2>1, <2>2, Grows
  <2>4. Types'
    BY <1>1, <2>2, <2>3 DEF Types, device_vars
  <2>5. DeviceInv' /\ SpeechInv'
    BY <1>1, <2>1, <2>2, <2>3 DEF DeviceInv, SpeechInv, device_vars, d_vars, stream_vars
  <2>6. Sync'
    BY <1>1, <1>2, <2>1, <2>2, <2>3 DEF Sync, Fresh
  <2>7. WordsInv'
    BY <1>1, <2>1, <2>2 DEF WordsInv, device_vars
  <2> QED BY <1>3, <2>4, <2>5, <2>6, <2>7
<1> QED BY <1>4, <1>5

(* The other messages are taken without an answer.                         *)
LEMMA TakesQuestionStart ==
  ASSUME ExplainInv, HostReads, Head(toHost) = StartM, H!OnQuestionStart(StartM)
  PROVE  ExplainInv'
<1> USE DEF ExplainInv
<1>1. /\ handler = "reading" /\ toHost # <<>> /\ toHost' = Tail(toHost) /\ UNCHANGED device_vars
      /\ phase = "await_a" /\ phase' = "question_upload" /\ questionIds' = Append(questionIds, Note)
      /\ UNCHANGED <<heard, operatorQuestion, seen, ids, requests, pending, asked, task,
                     acknowledged, spoken, speaking, stream, refused, handler, link, outbox>>
  BY Taken DEF H!OnQuestionStart, H!MayAsk, H!Silent, H!ask_vars, H!reply_vars, H!speech_vars,
               H!wire_vars, StartM
<1>2. Fresh /\ Silence /\ toHost \in {<<StartM>>, <<StartM, EndM>>}
  BY <1>1, Queues, Different DEF HostInv
<1>3. \/ toHost = <<StartM>> /\ toHost' = <<>>
      \/ toHost = <<StartM, EndM>> /\ toHost' = <<EndM>>
  <2>1. toHost = <<StartM>> => Tail(toHost) = <<>>
    BY Queues
  <2>2. toHost = <<StartM, EndM>> => Tail(toHost) = <<EndM>>
    BY Queues
  <2> QED BY <1>1, <1>2, <2>1, <2>2
<1>4. HostInv'
  <2>1. Asked' /\ Silence'
    BY <1>1, <1>2 DEF Fresh, Asked, Silence
  <2> QED BY <1>1, <1>3, <2>1 DEF HostInv
<1>5. DeviceInv' /\ SpeechInv' /\ AllRead' = AllRead /\ Message' = Message /\ Types'
  BY <1>1, Unnoticed DEF Types
<1>6. Sync'
  <2>1. /\ <<StartM>> \notin {<<>>, <<ExplainM>>}
        /\ <<StartM, EndM>> \notin {<<>>, <<ExplainM>>, <<StartM>>}
    BY Queues, Different
  <2>2. link => \/ pc = "upload" /\ toHost = <<StartM>>
                \/ pc = "transcript" /\ toHost = <<StartM, EndM>> /\ AllRead
    BY <1>1, <1>2, <2>1 DEF Sync, Types
  <2> QED BY <1>1, <1>3, <1>5, <2>1, <2>2 DEF Sync, device_vars
<1>7. WordsInv'
  BY <1>1, <1>2, <1>5, Queues, Different DEF WordsInv, Sync, Fresh, device_vars
<1> QED BY <1>4, <1>5, <1>6, <1>7

(* question_end: the note is complete, and is transcribed.                 *)
LEMMA TakesQuestionEnd ==
  ASSUME ExplainInv, HostReads, Head(toHost) = EndM, H!OnQuestionEnd(EndM)
  PROVE  ExplainInv'
<1> USE DEF ExplainInv
<1>1. /\ handler = "reading" /\ toHost # <<>> /\ toHost' = Tail(toHost) /\ UNCHANGED device_vars
      /\ phase = "question_upload" /\ phase' = "transcribing" /\ task' = "transcribe"
      /\ UNCHANGED <<questionIds, heard, operatorQuestion, seen, ids, requests, pending, asked,
                     acknowledged, spoken, speaking, stream, refused, handler, link, outbox>>
  BY Taken DEF H!OnQuestionEnd, H!MayEndQuestion, H!Silent, H!ask_vars, H!reply_vars, H!speech_vars,
               H!wire_vars
<1>2. Asked /\ Silence /\ toHost = <<EndM>> /\ toHost' = <<>>
  BY <1>1, Queues DEF HostInv
<1>3. HostInv'
  BY <1>1, <1>2 DEF HostInv, Asked, Silence
<1>4. DeviceInv' /\ SpeechInv' /\ AllRead' = AllRead /\ Message' = Message /\ Types'
  BY <1>1, Unnoticed DEF Types
<1>5. Sync'
  BY <1>1, <1>2, <1>4, Queues, Different DEF Sync, device_vars
<1>6. WordsInv'
  BY <1>1, <1>2, <1>4, Queues DEF WordsInv, Sync, device_vars
<1> QED BY <1>3, <1>4, <1>5, <1>6

(* question_confirm: the words are the operator's.                         *)
LEMMA TakesConfirm ==
  ASSUME ExplainInv, HostReads, Head(toHost) = ConfirmM, H!OnConfirm(ConfirmM)
  PROVE  ExplainInv'
<1> USE DEF ExplainInv
<1>1. /\ handler = "reading" /\ toHost # <<>> /\ toHost' = Tail(toHost) /\ UNCHANGED device_vars
      /\ phase = "await_confirm" /\ phase' = "await_a" /\ operatorQuestion' = heard
      /\ UNCHANGED <<questionIds, seen, ids, requests, pending, asked, task,
                     acknowledged, spoken, speaking, stream, refused, handler, link, outbox>>
  BY Taken DEF H!OnConfirm, H!MayConfirm, H!Silent, H!reply_vars, H!speech_vars, H!wire_vars,
               ConfirmM
<1>2. Asked /\ Silence /\ heard = Note /\ toHost \in {<<ConfirmM>>, <<ConfirmM, ExplainM>>}
  BY <1>1, Queues DEF HostInv
<1>3. \/ toHost = <<ConfirmM>> /\ toHost' = <<>>
      \/ toHost = <<ConfirmM, ExplainM>> /\ toHost' = <<ExplainM>>
  <2>1. toHost = <<ConfirmM>> => Tail(toHost) = <<>>
    BY Queues
  <2>2. toHost = <<ConfirmM, ExplainM>> => Tail(toHost) = <<ExplainM>>
    BY Queues
  <2> QED BY <1>1, <1>2, <2>1, <2>2
<1>4. HostInv'
  BY <1>1, <1>2, <1>3 DEF HostInv, Asked, Silence
<1>5. DeviceInv' /\ SpeechInv' /\ AllRead' = AllRead /\ Message' = Message /\ Types'
  BY <1>1, Unnoticed DEF Types
<1>6. Sync'
  <2>1. <<ConfirmM>> # <<>> /\ <<ConfirmM, ExplainM>> \notin {<<>>, <<ConfirmM>>}
    BY Queues, Different
  <2>2. link => \/ pc = "ask" /\ toHost = <<ConfirmM>>
                \/ pc = "reply" /\ toHost = <<ConfirmM, ExplainM>> /\ AllRead
    BY <1>1, <1>2, <2>1 DEF Sync, Types
  <2> QED BY <1>1, <1>3, <1>5, <2>1, <2>2 DEF Sync, device_vars
<1>7. WordsInv'
  BY <1>1, <1>2, <1>5, Queues DEF WordsInv, Sync, device_vars, Types
<1> QED BY <1>4, <1>5, <1>6, <1>7

(* analysis_explain: the agent is asked.                                   *)
LEMMA TakesExplain ==
  ASSUME ExplainInv, HostReads, Head(toHost) = ExplainM, H!OnExplain(ExplainM)
  PROVE  ExplainInv'
<1> USE DEF ExplainInv
<1>1. /\ handler = "reading" /\ toHost # <<>> /\ toHost' = Tail(toHost) /\ UNCHANGED device_vars
      /\ phase = "await_a" /\ phase' = "pending" /\ requests = {} /\ requests' = {Explain}
      /\ pending' = Explain /\ asked'.question = operatorQuestion /\ task' = "explain"
      /\ UNCHANGED <<questionIds, heard, operatorQuestion, seen, ids,
                     acknowledged, spoken, speaking, stream, refused, handler, link, outbox>>
  BY Taken DEF H!OnExplain, H!MayExplain, H!Silent, H!ask_vars, H!speech_vars, H!wire_vars, ExplainM
<1>2. Silence /\ toHost = <<ExplainM>> /\ toHost' = <<>>
  <2>1. toHost # <<StartM>> /\ toHost # <<StartM, EndM>>
    BY Queues, Different
  <2>2. Silence /\ toHost = <<ExplainM>>
    BY <1>1, <2>1 DEF HostInv
  <2> QED BY <1>1, <2>2, Queues
<1>3. HostInv'
  BY <1>1, <1>2 DEF HostInv, Silence
<1>4. DeviceInv' /\ SpeechInv' /\ AllRead' = AllRead /\ Message' = Message /\ Types'
  BY <1>1, Unnoticed DEF Types
<1>5. Sync'
  BY <1>1, <1>2, <1>4, Queues, Different DEF Sync, device_vars
<1>6. WordsInv'
  BY <1>1, <1>2, <1>4, Queues, Different DEF WordsInv, Sync, device_vars
<1> QED BY <1>3, <1>4, <1>5, <1>6

(* speak: the reading is read aloud.                                       *)
LEMMA TakesSpeak ==
  ASSUME ExplainInv, HostReads, Head(toHost) = SpeakM, H!OnSpeak(SpeakM)
  PROVE  ExplainInv'
<1> USE DEF ExplainInv
<1>1. /\ handler = "reading" /\ toHost # <<>> /\ toHost' = Tail(toHost) /\ UNCHANGED device_vars
      /\ phase = "complete" /\ spoken' = spoken \cup {Explain} /\ speaking' = Explain /\ stream' = 0
      /\ UNCHANGED <<questionIds, heard, operatorQuestion, seen, ids, requests, pending, asked, task,
                     phase, acknowledged, refused, handler, link, outbox>>
  BY Taken, Different DEF HostInv, H!OnSpeak, H!MaySpeak, H!Silent, H!ask_vars, H!reply_vars,
                          H!wire_vars, Silence
<1>2. Silence /\ toHost \in {<<SpeakM>>, <<SpeakM, StopM>>}
  BY <1>1, Queues, Different DEF HostInv
<1>3. \/ toHost = <<SpeakM>> /\ toHost' = <<>>
      \/ toHost = <<SpeakM, StopM>> /\ toHost' = <<StopM>>
  <2>1. toHost = <<SpeakM>> => Tail(toHost) = <<>>
    BY Queues
  <2>2. toHost = <<SpeakM, StopM>> => Tail(toHost) = <<StopM>>
    BY Queues
  <2> QED BY <1>1, <1>2, <2>1, <2>2
<1>4. HostInv'
  BY <1>1, <1>2, <1>3 DEF HostInv, Silence
<1>5. DeviceInv' /\ SpeechInv' /\ AllRead' = AllRead /\ Message' = Message /\ Types'
  BY <1>1, Unnoticed DEF Types
<1>6. CASE link
  <2>1. pc = "speech" /\ AllRead /\ playback = "begun"
    BY <1>1, <1>2, <1>6, Queues DEF Sync, Silence, Types
  <2>2. pc' = pc /\ playback' = playback /\ stopSent' = stopSent /\ received' = received
    BY <1>1 DEF device_vars, stream_vars
  <2>3. \A i \in received' + 1..Len(outbox') : outbox'[i] \notin Ends
    BY <1>1, <2>1, <2>2 DEF Types, AllRead
  <2>4. Sync'
    BY <1>1, <1>2, <1>3, <1>5, <1>6, <2>1, <2>2, <2>3, Queues DEF Sync
  <2>5. WordsInv'
    BY <1>1, <1>5, <2>1 DEF WordsInv, device_vars
  <2> QED BY <1>4, <1>5, <2>4, <2>5
<1>7. CASE ~link
  BY <1>1, <1>4, <1>5, <1>7 DEF WordsInv, Sync, device_vars
<1> QED BY <1>6, <1>7

(* speech_stop: but no longer than the person wants.                       *)
LEMMA TakesStop ==
  ASSUME ExplainInv, HostReads, Head(toHost) = StopM, H!OnSpeechStop(StopM)
  PROVE  ExplainInv'
<1> USE DEF ExplainInv
<1>1. /\ handler = "reading" /\ toHost # <<>> /\ toHost' = Tail(toHost) /\ UNCHANGED device_vars
      /\ UNCHANGED <<phase, questionIds, heard, operatorQuestion, seen, ids, requests, pending, asked,
                     task, acknowledged, spoken, speaking, stream, refused, handler, link, outbox>>
  BY Taken DEF H!OnSpeechStop, H!Silent, H!ask_vars, H!reply_vars, H!wire_vars
<1>2. phase = "complete" /\ spoken = {Explain} /\ toHost = <<StopM>> /\ toHost' = <<>>
  BY <1>1, Queues, Different DEF HostInv
<1>3. HostInv'
  BY <1>1, <1>2 DEF HostInv
<1>4. DeviceInv' /\ SpeechInv' /\ AllRead' = AllRead /\ Message' = Message /\ Types'
  BY <1>1, Unnoticed DEF Types
<1>5. CASE link
  <2>1. pc = "speech"
    BY <1>1, <1>2, <1>5, Queues DEF Sync, Types
  <2>2. pc' = pc /\ playback' = playback /\ stopSent' = stopSent /\ received' = received
    BY <1>1 DEF device_vars, stream_vars
  <2>3. Sync'
    BY <1>1, <1>2, <1>4, <1>5, <2>1, <2>2, Queues DEF Sync
  <2>4. WordsInv'
    BY <1>1, <1>4, <2>1 DEF WordsInv, device_vars
  <2> QED BY <1>3, <1>4, <2>3, <2>4
<1>6. CASE ~link
  BY <1>1, <1>3, <1>4, <1>6 DEF WordsInv, Sync, device_vars
<1> QED BY <1>5, <1>6

(* Whatever message it is.                                                 *)
LEMMA HostReadsKeeps ==
  ASSUME ExplainInv, HostReads
  PROVE  ExplainInv'
BY Taken, TakesHello, TakesQuestionStart, TakesQuestionEnd, TakesConfirm, TakesExplain, TakesSpeak,
   TakesStop DEF ExplainInv

-----------------------------------------------------------------------------
(* What the Mac does by itself.  Its end, or the connection's:             *)
LEMMA EndKeeps ==
  ASSUME ExplainInv, UNCHANGED <<device_vars, toHost>>,
         H!IdleTimeout \/ H!Disconnected \/ H!Close \/ H!Drop
  PROVE  ExplainInv'
<1> USE DEF ExplainInv, H!ask_vars, H!reply_vars, H!speech_vars
<1>1. /\ link' = FALSE /\ UNCHANGED <<outbox, ids, seen, requests, asked, stream, device_vars, toHost>>
      /\ refused' \in {refused, "idle"} /\ speaking' \in {speaking, None}
      /\ task' \in {"none", "transcribe", "explain", "dead"}
  BY DEF HostInv, H!IdleTimeout, H!Refuse, H!Disconnected, H!Close, H!Stopped, H!Drop
<1>2. DeviceInv' /\ SpeechInv' /\ AllRead' = AllRead /\ Message' = Message /\ Types'
  BY <1>1, Unnoticed DEF Types
<1>3. Sync' /\ WordsInv'
  BY <1>1, <1>2 DEF Sync, WordsInv, device_vars
<1>4. HostInv'
  <2>1. CASE H!Drop
    BY <1>1, <2>1 DEF HostInv, H!Drop, Fresh, Asked, Silence
  <2>2. CASE H!IdleTimeout \/ H!Disconnected \/ H!Close
    <3>1. handler' # "reading"
      BY <2>2 DEF H!IdleTimeout, H!Refuse, H!Disconnected, H!Close
    <3> QED BY <1>1, <3>1 DEF HostInv
  <2> QED BY <2>1, <2>2
<1> QED BY <1>2, <1>3, <1>4

(* A task that ends without a word, or whose words nobody hears.           *)
LEMMA UnheardKeeps ==
  ASSUME ExplainInv, UNCHANGED <<device_vars, toHost>>, UNCHANGED <<outbox, requests, asked, refused>>,
         link' = link, HostInv', stream' \in Nat, speaking' \in {None, Explain},
         link => UNCHANGED <<phase, questionIds, operatorQuestion, spoken, speaking, stream>>
  PROVE  ExplainInv'
<1> USE DEF ExplainInv
<1>1. DeviceInv' /\ SpeechInv' /\ AllRead' = AllRead /\ Message' = Message /\ Types'
  BY Unnoticed DEF Types
<1>2. Sync'
  <2>1. CASE link
    BY <1>1, <2>1 DEF Sync, device_vars, d_vars, stream_vars, Silence
  <2> QED BY <2>1 DEF Sync
<1>3. WordsInv'
  BY <1>1 DEF WordsInv, device_vars
<1> QED BY <1>1, <1>2, <1>3

(* The words of the note reach the device, if the connection lives.        *)
LEMMA TranscribeKeeps ==
  ASSUME ExplainInv, UNCHANGED <<device_vars, toHost>>, H!TaskStep,
         NEW how \in {"heard", "empty", "failed"}, H!Transcribe(how)
  PROVE  ExplainInv'
<1> USE DEF ExplainInv
<1>1. /\ link' = link /\ handler' = handler /\ task' \in {"none", "dead"}
      /\ UNCHANGED <<questionIds, operatorQuestion, seen, ids, requests, pending, asked, acknowledged,
                     spoken, speaking, stream, refused>>
  BY DEF H!Transcribe, H!Say, H!reply_vars, H!speech_vars, H!wire_vars
<1>2. CASE phase # "transcribing"
  <2>1. UNCHANGED <<phase, heard, outbox>>
    BY <1>2 DEF H!Transcribe, H!wire_vars
  <2>2. HostInv'
    BY <1>1, <2>1 DEF HostInv, Fresh, Asked, Silence
  <2> QED BY <1>1, <2>1, <2>2, UnheardKeeps DEF Types
<1>3. CASE phase = "transcribing"
  <2> DEFINE key == questionIds[Len(questionIds)]
             m == [type |-> "transcript", key |-> key, status |-> how]
  <2>1. /\ heard' = IF how = "heard" THEN key ELSE None
        /\ phase' = IF how = "heard" THEN "await_confirm" ELSE "await_a"
        /\ outbox' = IF link THEN Append(outbox, m) ELSE outbox
    BY <1>3 DEF H!Transcribe, H!Say
  <2>2. handler = "reading" => Asked /\ Silence /\ key = Note /\ toHost = <<>>
    <3>1. handler = "reading" => Asked /\ Silence /\ toHost = <<>>
      BY <1>3 DEF HostInv
    <3>2. ASSUME questionIds = <<Note>> PROVE key = Note
      BY <3>2
    <3> QED BY <3>1, <3>2 DEF Asked
  <2>3. HostInv'
    BY <1>1, <2>1, <2>2 DEF HostInv, Asked, Silence
  <2>4. CASE ~link
    BY <1>1, <2>1, <2>3, <2>4, UnheardKeeps DEF Types
  <2>5. CASE link
    <3>1. pc = "transcript" /\ AllRead /\ toHost = <<>>
      BY <1>3, <2>2, <2>5 DEF HostInv, Sync, Types
    <3>2. m \in Transcripts /\ m \in Said /\ m.status = how
      BY <2>2, <2>5 DEF HostInv, Transcripts, Said
    <3>3. outbox' = Append(outbox, m) /\ received' = received /\ pc' = pc
      BY <2>1, <2>5 DEF device_vars
    <3> HIDE DEF m
    <3>4. /\ outbox' \in Seq(Said) /\ received \in Nat /\ received' <= Len(outbox') /\ ~AllRead'
          /\ Message' = m /\ OneUnread(Transcripts)'
      BY <3>1, <3>2, <3>3, Grows
    <3>5. Types'
      BY <1>1, <3>3, <3>4 DEF Types, device_vars
    <3>6. DeviceInv' /\ SpeechInv'
      BY <3>1, <3>3, <3>4 DEF DeviceInv, SpeechInv, device_vars, d_vars, stream_vars
    <3>7. Sync'
      BY <1>1, <2>1, <2>5, <3>1, <3>2, <3>3, <3>4 DEF Sync
    <3>8. WordsInv'
      BY <1>1, <3>1, <3>3 DEF WordsInv, device_vars
    <3> QED BY <2>3, <3>5, <3>6, <3>7, <3>8
  <2> QED BY <2>4, <2>5
<1> QED BY <1>2, <1>3

(* So does the reading, or the report that there is none.                  *)
LEMMA ExplainKeeps ==
  ASSUME ExplainInv, UNCHANGED <<device_vars, toHost>>, H!TaskStep, H!Explain \/ H!ExplainFails
  PROVE  ExplainInv'
<1> USE DEF ExplainInv
<1>1. /\ link' = link /\ handler' = handler /\ task' = IF link THEN "none" ELSE "dead"
      /\ UNCHANGED <<questionIds, operatorQuestion, seen, ids, requests, asked,
                     spoken, speaking, stream, refused>>
      /\ task = "explain"
  BY DEF H!Explain, H!ExplainFails, H!Failed, H!Say, H!ask_vars, H!speech_vars
<1>2. handler = "reading" => phase = "pending" /\ toHost = <<>> /\ Silence /\ pending = Explain
  BY <1>1 DEF HostInv, Fresh, Asked
<1>3. CASE ~link
  <2>1. outbox' = outbox /\ phase' = "incomplete"
    BY <1>3 DEF H!Explain, H!ExplainFails, H!Failed, H!Say
  <2>2. HostInv'
    BY <1>1, <1>2, <1>3, <2>1 DEF HostInv, Silence
  <2> QED BY <1>1, <1>3, <2>1, <2>2, UnheardKeeps DEF Types
<1>4. CASE link
  <2>1. pc = "reply" /\ AllRead /\ toHost = <<>> /\ phase = "pending" /\ Silence /\ pending = Explain
    BY <1>2, <1>4 DEF HostInv, Sync, Types
  <2>2. asked.question = out.transcript /\ requests # {}
    <3>1. asked.question = out.transcript
      BY <1>4, <2>1 DEF WordsInv
    <3>2. requests # {}
      BY <1>4, <2>1 DEF HostInv
    <3> QED BY <3>1, <3>2
  <2>3. PICK m \in {ReplyM, H!Incomplete} :
          /\ outbox' = Append(outbox, m)
          /\ IF m = ReplyM THEN phase' = "complete" /\ acknowledged' = Explain ELSE phase' = "incomplete"
    <3>1. H!Incomplete # ReplyM
      BY DEF H!Incomplete, ReplyM
    <3>2. CASE H!Explain
      BY <1>4, <2>1, <3>2 DEF H!Explain, H!Say, ReplyM
    <3>3. CASE H!ExplainFails
      BY <1>4, <3>1, <3>3 DEF H!ExplainFails, H!Failed, H!Say
    <3> QED BY <3>2, <3>3
  <2>4. m \in Said /\ received' = received /\ pc' = pc
    BY DEF Said, device_vars
  <2>5. /\ outbox' \in Seq(Said) /\ received \in Nat /\ received' <= Len(outbox') /\ ~AllRead'
        /\ Message' = m /\ OneUnread({H!Incomplete, ReplyM})'
    BY <2>1, <2>3, <2>4, Grows
  <2>6. Types'
    BY <1>1, <2>4, <2>5 DEF Types, device_vars
  <2>7. DeviceInv' /\ SpeechInv'
    BY <2>1, <2>4, <2>5 DEF DeviceInv, SpeechInv, device_vars, d_vars, stream_vars
  <2>8. HostInv'
    BY <1>1, <1>4, <2>1, <2>3 DEF HostInv, Silence
  <2>9. Sync'
    BY <1>1, <2>1, <2>3, <2>4, <2>5 DEF Sync, Silence
  <2>10. WordsInv'
    BY <1>1, <2>1, <2>2, <2>3, <2>4, <2>5 DEF WordsInv, device_vars
  <2> QED BY <2>6, <2>7, <2>8, <2>9, <2>10
<1> QED BY <1>3, <1>4

(* And the speech, piece by piece.                                         *)
LEMMA SpeechKeeps ==
  ASSUME ExplainInv, UNCHANGED <<device_vars, toHost>>,
         \/ H!SpeechStart \/ H!SpeechChunk
         \/ \E how \in {"complete", "failed"} : H!SpeechEnd(how)
  PROVE  ExplainInv'
<1> USE DEF ExplainInv
<1>1. /\ UNCHANGED <<phase, questionIds, heard, operatorQuestion, seen, ids, task, requests, pending,
                     asked, acknowledged, spoken, handler, refused, link>>
      /\ link /\ speaking = Explain /\ speaking' \in {None, Explain}
      /\ stream' \in Nat /\ stream' > 0
  BY ExplainConstants DEF Types, H!SpeechStart, H!SpeechChunk, H!SpeechEnd, H!SpeechSend, H!ask_vars,
                          H!reply_vars
<1>2. speaking # None
  BY <1>1, ExplainConstants
<1>3. phase = "complete" /\ spoken = {Explain} /\ handler = "reading"
  BY <1>1, <1>2 DEF HostInv, Silence
<1>4. HostInv'
  BY <1>1, <1>3 DEF HostInv, Silence
<1>5. pc = "speech"
  BY <1>1, <1>2, <1>3, ExplainConstants DEF Sync, Types, Silence
<1>6. /\ stream = 0 <=> AllRead /\ playback = "begun"
      /\ playback # "ended" /\ \A i \in received + 1..Len(outbox) : outbox[i] \notin Ends
  BY <1>1, <1>2, <1>5 DEF Sync
<1>7. PICK m \in Chunks \cup Ends :
        /\ outbox' = Append(outbox, m)
        /\ m.type = "speech_start" <=> stream = 0
        /\ m \in Ends => speaking' = None
  <2>1. ASSUME H!SpeechStart
        PROVE  \E m \in Chunks : outbox' = Append(outbox, m) /\ m \notin Ends
                                 /\ m.type = "speech_start" /\ stream = 0
    BY <1>1, <2>1 DEF H!SpeechStart, H!SpeechSend, Chunks, Ends
  <2>2. ASSUME H!SpeechChunk
        PROVE  \E m \in Chunks : outbox' = Append(outbox, m) /\ m \notin Ends
                                 /\ m.type = "speech_chunk" /\ stream # 0
    BY <1>1, <2>2, ExplainConstants DEF H!SpeechChunk, H!SpeechSend, Chunks, Ends
  <2>3. ASSUME NEW how \in {"complete", "failed"}, H!SpeechEnd(how)
        PROVE  \E m \in Ends : outbox' = Append(outbox, m) /\ m.type = "speech_end" /\ stream # 0
                               /\ speaking' = None
    <3> DEFINE said == IF how = "complete" /\ speechStop THEN "stopped" ELSE how
               m == [type |-> "speech_end", key |-> speaking, status |-> said]
    <3>1. outbox' = Append(outbox, m) /\ stream > 0 /\ speaking' = None
      BY <2>3 DEF H!SpeechEnd, H!SpeechSend
    <3>2. said \in {"complete", "failed", "stopped"}
      OBVIOUS
    <3>3. m \in Ends /\ m.type = "speech_end"
      BY <1>1, <3>2 DEF Ends
    <3> QED BY <3>1, <3>3 DEF Types
  <2> QED BY <2>1, <2>2, <2>3
<1>8. m \in Said /\ received' = received /\ pc' = pc /\ playback' = playback /\ stopSent' = stopSent
  BY DEF Said, device_vars, stream_vars
<1>9. /\ outbox' \in Seq(Said) /\ Len(outbox) \in Nat /\ Len(outbox') = Len(outbox) + 1
      /\ outbox'[Len(outbox) + 1] = m
      /\ \A i \in 1..Len(outbox) : outbox'[i] = outbox[i]
      /\ received \in Nat /\ received' <= Len(outbox') /\ ~AllRead' /\ received <= Len(outbox)
  BY <1>7, <1>8, Grows DEF Types
<1>10. Types'
  BY <1>1, <1>8, <1>9 DEF Types, device_vars
<1>11. DeviceInv'
  BY <1>5, <1>8 DEF DeviceInv, device_vars, d_vars, stream_vars
<1>12. received' + 1..Len(outbox') = (received + 1..Len(outbox)) \cup {Len(outbox) + 1}
  BY <1>8, <1>9
<1>13. \A i \in received + 1..Len(outbox) : outbox'[i] = outbox[i] /\ i # Len(outbox) + 1
  BY <1>9
<1>14. Len(outbox) + 1 = received + 1 <=> AllRead
  BY <1>9 DEF AllRead
<1>15. SpeechInv'
  <2>1. ASSUME NEW i \in received + 1..Len(outbox)
        PROVE  /\ outbox'[i] \in Chunks \cup Ends
               /\ outbox'[i].type = "speech_start" <=> i = received' + 1 /\ playback' = "begun"
               /\ outbox'[i] \notin Ends
    BY <1>5, <1>6, <1>8, <1>13 DEF SpeechInv
  <2>2. /\ outbox'[Len(outbox) + 1] \in Chunks \cup Ends
        /\ outbox'[Len(outbox) + 1].type = "speech_start"
             <=> Len(outbox) + 1 = received' + 1 /\ playback' = "begun"
    BY <1>6, <1>7, <1>8, <1>9, <1>14
  <2>3. playback' \in {"begun", "started", "ended"} /\ playback' # "ended"
    BY <1>5, <1>6, <1>8 DEF SpeechInv
  <2> QED BY <1>9, <1>12, <2>1, <2>2, <2>3 DEF SpeechInv
<1>16. Sync'
  <2>1. speaking' # None => \A i \in received' + 1..Len(outbox') : outbox'[i] \notin Ends
    BY <1>6, <1>7, <1>9, <1>12, <1>13
  <2> QED BY <1>1, <1>3, <1>5, <1>6, <1>8, <1>9, <2>1 DEF Sync, device_vars
<1>17. WordsInv'
  BY <1>1, <1>5, <1>8 DEF WordsInv, device_vars
<1> QED BY <1>4, <1>10, <1>11, <1>15, <1>16, <1>17

(* Whatever the Mac does.                                                  *)
LEMMA HostStepKeeps ==
  ASSUME ExplainInv, HostStep
  PROVE  ExplainInv'
<1>1. UNCHANGED <<device_vars, toHost>>
  BY DEF HostStep
<1>2. CASE H!TaskStep
  <2> USE DEF ExplainInv, H!ask_vars, H!reply_vars, H!speech_vars, H!wire_vars
  <2>1. ~H!Respond /\ ~H!RespondFails
    BY DEF HostInv, H!Respond, H!RespondFails
  <2>2. CASE H!RespondDropped
    <3>1. HostInv'
      BY <1>1, <2>2 DEF HostInv, H!RespondDropped, Fresh, Asked, Silence
    <3> QED BY <1>1, <2>2, <3>1, UnheardKeeps DEF H!RespondDropped, Types
  <2>3. CASE H!SpeechDies
    <3>1. HostInv'
      <4>1. handler = "reading" => spoken = {Explain} /\ phase = "complete"
        BY <2>3 DEF HostInv, H!SpeechDies, Silence
      <4>2. /\ UNCHANGED <<phase, ids, seen, task, acknowledged, spoken, handler, link, toHost>> /\ ~link
        BY <1>1, <2>3 DEF H!SpeechDies
      <4> QED BY <4>1, <4>2 DEF HostInv, Silence
    <3> QED BY <1>1, <2>3, <3>1, UnheardKeeps DEF H!SpeechDies, Types
  <2> QED BY <1>1, <1>2, <2>1, <2>2, <2>3, TranscribeKeeps, ExplainKeeps, SpeechKeeps DEF H!TaskStep
<1> QED BY <1>1, <1>2, EndKeeps DEF HostStep

-----------------------------------------------------------------------------
(* The media task.  The call returns, and nothing is said any more.        *)
LEMMA GivesUp ==
  ASSUME ExplainInv, pc' = "done", link' = FALSE, UNCHANGED <<h_vars, toHost>>,
         received' \in Nat, received' <= Len(outbox),
         out' \in Results,
         out'.text # None => requests # {} /\ asked.question = out'.transcript,
         state' = "confirming" => transcript' = Note,
         playback' # "idle" => state' # "incomplete",
         speech' => Transcriber, voice' => Speaker
  PROVE  ExplainInv'
<1> USE DEF ExplainInv, h_vars
<1>1. Types' /\ SpeechInv' /\ Sync' /\ WordsInv'
  BY DEF Types, SpeechInv, Sync, WordsInv
<1>2. DeviceInv'
  BY DEF DeviceInv
<1>3. HostInv'
  BY DEF HostInv, Fresh, Asked, Silence
<1> QED BY <1>1, <1>2, <1>3

(* Where the call may return without the reading.                          *)
LEMMA FinishKeeps ==
  ASSUME ExplainInv, NEW error \in Errors, Finish(error),
         UNCHANGED <<h_vars, toHost, playback>>,
         received' \in {received, received + 1}, received' <= Len(outbox),
         \/ UNCHANGED <<state, speech, voice, transcript>>
         \/ state' \in {"incomplete", "offline"} /\ playback = "idle"
            /\ UNCHANGED <<speech, voice, transcript>>
         \/ state' = "offline" /\ UNCHANGED <<speech, voice, transcript>>
  PROVE  ExplainInv'
<1> USE DEF ExplainInv
<1>1. /\ out' \in Results /\ out'.text = out.text /\ out'.transcript = out.transcript
      /\ pc' = "done" /\ link' = FALSE
  BY DEF Finish, Types, Results
<1>2. received' \in Nat
  BY DEF Types
<1>3. out'.text # None => requests # {} /\ asked.question = out'.transcript
  BY <1>1 DEF WordsInv
<1>4. /\ state' = "confirming" => transcript' = Note
      /\ playback' # "idle" => state' # "incomplete"
      /\ speech' => Transcriber
      /\ voice' => Speaker
  BY DEF DeviceInv
<1> QED BY <1>1, <1>2, <1>3, <1>4, GivesUp

(* The call goes on, and the connection is as it was.                      *)
LEMMA GoesOn ==
  ASSUME ExplainInv, UNCHANGED <<h_vars, link, received>>,
         out' \in Results,
         pc' \in {"start", "hello", "note", "recorded", "upload", "transcript", "dialog", "confirm",
                  "ask", "reply", "speak", "speech"}
  PROVE  /\ Types' /\ AllRead' = AllRead /\ Message' = Message
         /\ \A S : OneUnread(S)' <=> OneUnread(S)
         /\ toHost' = toHost => HostInv'
         /\ link => handler = "reading"
<1> USE DEF ExplainInv, h_vars
<1>1. Types'
  BY DEF Types
<1>2. AllRead' = AllRead /\ Message' = Message
  BY DEF AllRead, Message
<1>3. \A S : OneUnread(S)' <=> OneUnread(S)
  BY <1>2 DEF OneUnread
<1>4. toHost' = toHost => HostInv'
  BY DEF HostInv, Fresh, Asked, Silence
<1>5. link => handler = "reading"
  BY DEF HostInv
<1> QED BY <1>1, <1>2, <1>3, <1>4, <1>5

(* A send that succeeds, or seems to.                                      *)
LEMMA Sending ==
  ASSUME NEW m, NEW next, Send(<<m>>, next)
  PROVE  \/ /\ pc' = next /\ UNCHANGED <<link, out>>
            /\ link => toHost' = toHost \o <<m>>
            /\ ~link => toHost' = toHost
         \/ Finish("dropped") /\ toHost' = toHost
BY DEF Send

(* The call begins with hello.                                             *)
LEMMA StartKeeps ==
  ASSUME ExplainInv, Start
  PROVE  ExplainInv'
<1> USE DEF ExplainInv
<1>1. /\ pc = "start" /\ state' = "connecting" /\ Send(<<HelloM>>, "hello")
      /\ UNCHANGED <<speech, voice, questionId, transcript, h_vars, playback, stopSent, received>>
  BY DEF Start, D!Ask, D!Enter, D!ask_vars, stream_vars, HelloM
<1>2. CASE Finish("dropped") /\ toHost' = toHost
  <2>1. playback = "idle" /\ pc' = "done" /\ link' = FALSE
    BY <1>1, <1>2 DEF DeviceInv, Finish
  <2>2. out' \in Results /\ out'.text = None
    BY <1>1, <1>2 DEF Finish, Types, Results, Errors, WordsInv
  <2> QED BY <1>1, <1>2, <2>1, <2>2, GivesUp DEF DeviceInv, Types
<1>3. CASE ~(Finish("dropped") /\ toHost' = toHost)
  <2>1. /\ pc' = "hello" /\ UNCHANGED <<link, out>>
        /\ link => toHost' = toHost \o <<HelloM>>
        /\ ~link => toHost' = toHost
    BY <1>1, <1>3, Sending
  <2>2. /\ Types' /\ AllRead' = AllRead
        /\ toHost' = toHost => HostInv'
        /\ link => handler = "reading"
    BY <1>1, <2>1, GoesOn DEF Types
  <2>3. DeviceInv' /\ SpeechInv'
    BY <1>1, <2>1, <2>2 DEF DeviceInv, SpeechInv
  <2>4. link => phase = "new" /\ toHost' = <<HelloM>>
    BY <1>1, <2>1, Queues DEF Sync
  <2>5. HostInv'
    <3>1. CASE link
      BY <1>1, <2>1, <2>4, <3>1 DEF HostInv, h_vars, Fresh, Silence
    <3> QED BY <2>1, <2>2, <3>1
  <2>6. Sync' /\ WordsInv'
    BY <1>1, <2>1, <2>2, <2>4 DEF Sync, WordsInv, h_vars, DeviceInv
  <2> QED BY <2>2, <2>3, <2>5, <2>6
<1> QED BY <1>2, <1>3

(* The note becomes the session's question.                                *)
LEMMA StartNoteKeeps ==
  ASSUME ExplainInv, StartNote
  PROVE  ExplainInv'
<1> USE DEF ExplainInv
<1>1. /\ pc = "note" /\ pc' = "recorded" /\ state' = "asking"
      /\ UNCHANGED <<speech, voice, questionId, transcript, h_vars, playback, stopSent, received, link,
                     out, toHost>>
  BY DEF StartNote, D!StartQuestion, D!ask_vars, stream_vars
<1>2. Types' /\ AllRead' = AllRead /\ HostInv'
  BY <1>1, GoesOn DEF Types
<1>3. DeviceInv' /\ SpeechInv'
  BY <1>1, <1>2 DEF DeviceInv, SpeechInv
<1>4. Sync' /\ WordsInv'
  BY <1>1, <1>2 DEF Sync, WordsInv, h_vars
<1> QED BY <1>2, <1>3, <1>4

(* question_start goes out.                                                *)
LEMMA UploadNoteKeeps ==
  ASSUME ExplainInv, UploadNote
  PROVE  ExplainInv'
<1> USE DEF ExplainInv
<1>1. /\ pc = "recorded" /\ state' = "transcribing" /\ questionId' = Note
      /\ Send(<<StartM>>, "upload")
      /\ UNCHANGED <<speech, voice, h_vars, playback, stopSent, received>>
  BY DEF UploadNote, D!QuestionRecorded, D!Enter, stream_vars, StartM
<1>2. CASE Finish("dropped") /\ toHost' = toHost
  <2>1. playback = "idle" /\ pc' = "done" /\ link' = FALSE
    BY <1>1, <1>2 DEF DeviceInv, Finish
  <2>2. out' \in Results /\ out'.text = None
    BY <1>1, <1>2 DEF Finish, Types, Results, Errors, WordsInv
  <2> QED BY <1>1, <1>2, <2>1, <2>2, GivesUp DEF DeviceInv, Types
<1>3. CASE ~(Finish("dropped") /\ toHost' = toHost)
  <2>1. /\ pc' = "upload" /\ UNCHANGED <<link, out>>
        /\ link => toHost' = toHost \o <<StartM>>
        /\ ~link => toHost' = toHost
    BY <1>1, <1>3, Sending
  <2>2. /\ Types' /\ AllRead' = AllRead
        /\ toHost' = toHost => HostInv'
        /\ link => handler = "reading"
    BY <1>1, <2>1, GoesOn DEF Types
  <2>3. DeviceInv' /\ SpeechInv' /\ Transcriber
    BY <1>1, <2>1, <2>2 DEF DeviceInv, SpeechInv
  <2>4. link => phase = "await_a" /\ questionIds = <<>> /\ toHost' = <<StartM>>
    BY <1>1, <2>1, Queues DEF Sync
  <2>5. HostInv'
    <3>1. CASE link
      <4>1. Fresh /\ Silence
        BY <2>2, <2>4, <3>1, Queues DEF HostInv, Asked
      <4> QED BY <1>1, <2>1, <2>3, <2>4, <3>1, <4>1 DEF HostInv, h_vars, Fresh, Silence
    <3> QED BY <2>1, <2>2, <3>1
  <2>6. Sync' /\ WordsInv'
    BY <1>1, <2>1, <2>2, <2>4 DEF Sync, WordsInv, h_vars, DeviceInv
  <2> QED BY <2>2, <2>3, <2>5, <2>6
<1> QED BY <1>2, <1>3

(* question_end goes out, in time or never.                                *)
LEMMA EndNoteKeeps ==
  ASSUME ExplainInv, EndNote
  PROVE  ExplainInv'
<1> USE DEF ExplainInv
<1>1. /\ pc = "upload"
      /\ UNCHANGED <<speech, voice, questionId, transcript, h_vars, playback, stopSent, received>>
  BY DEF EndNote, D!Tick, D!ask_vars, d_vars, stream_vars
<1>2. received <= Len(outbox) /\ received' = received /\ playback = "idle" /\ playback' = playback
  BY <1>1 DEF Types, DeviceInv
<1>3. CASE D!Tick /\ Finish("note") /\ toHost' = toHost
  BY <1>1, <1>2, <1>3, FinishKeeps DEF Errors, D!Tick, D!Enter
<1>4. CASE Send(<<EndM>>, "transcript") /\ UNCHANGED d_vars /\ Finish("dropped") /\ toHost' = toHost
  BY <1>1, <1>2, <1>4, FinishKeeps DEF Errors, d_vars
<1>5. CASE /\ Send(<<EndM>>, "transcript") /\ UNCHANGED d_vars
           /\ ~(Finish("dropped") /\ toHost' = toHost)
  <2>1. /\ pc' = "transcript" /\ UNCHANGED <<link, out>>
        /\ link => toHost' = toHost \o <<EndM>>
        /\ ~link => toHost' = toHost
    BY <1>5, Sending
  <2>2. /\ Types' /\ AllRead' = AllRead
        /\ toHost' = toHost => HostInv'
        /\ link => handler = "reading"
    BY <1>1, <2>1, GoesOn DEF Types
  <2>3. DeviceInv' /\ SpeechInv'
    BY <1>1, <1>5, <2>1, <2>2 DEF DeviceInv, SpeechInv, d_vars
  <2>4. link => \/ phase = "await_a" /\ toHost = <<StartM>> /\ toHost' = <<StartM, EndM>>
                \/ phase = "question_upload" /\ toHost' = <<EndM>>
    BY <1>1, <2>1, Queues DEF Sync
  <2>5. HostInv'
    <3>1. CASE link
      BY <1>1, <2>1, <2>2, <2>4, <3>1, Queues, Different
         DEF HostInv, h_vars, Fresh, Asked, Silence
    <3> QED BY <2>1, <2>2, <3>1
  <2>6. Sync' /\ WordsInv'
    BY <1>1, <2>1, <2>2, <2>4 DEF Sync, WordsInv, h_vars, DeviceInv
  <2> QED BY <2>2, <2>3, <2>5, <2>6
<1> QED BY <1>3, <1>4, <1>5 DEF EndNote, EndM, Send, Finish

(* The person uses the words, or returns.                                  *)
LEMMA ChooseKeeps ==
  ASSUME ExplainInv, Choose
  PROVE  ExplainInv'
<1> USE DEF ExplainInv
<1>1. pc = "dialog" /\ UNCHANGED <<d_vars, h_vars, playback, stopSent, received, toHost>>
  BY DEF Choose, stream_vars
<1>2. CASE Finish("none")
  BY <1>1, <1>2, FinishKeeps DEF Errors, Types, d_vars
<1>3. CASE /\ pc' = IF state = "confirming" THEN "confirm" ELSE "ask"
           /\ UNCHANGED <<link, out>>
  <2>1. Types' /\ AllRead' = AllRead /\ HostInv'
    BY <1>1, <1>3, GoesOn DEF Types
  <2>2. DeviceInv' /\ SpeechInv'
    BY <1>1, <1>3, <2>1 DEF DeviceInv, SpeechInv, d_vars
  <2>3. Sync'
    BY <1>1, <1>3, <2>1 DEF Sync, h_vars, d_vars
  <2>4. WordsInv'
    BY <1>1, <1>3, <2>1 DEF Sync, WordsInv, h_vars
  <2> QED BY <2>1, <2>2, <2>3, <2>4
<1> QED BY <1>2, <1>3 DEF Choose

(* question_confirm goes out with the words shown.                         *)
LEMMA ConfirmKeeps ==
  ASSUME ExplainInv, Confirm
  PROVE  ExplainInv'
<1> USE DEF ExplainInv
<1>1. /\ pc = "confirm" /\ state' = "ready_a" /\ transcript = Note
      /\ UNCHANGED <<speech, voice, questionId, transcript, h_vars, playback, stopSent, received>>
  BY DEF Confirm, ConfirmWith, D!ConfirmQuestion, stream_vars, DeviceInv
<1>2. PICK words \in {[out EXCEPT !.transcript = transcript]} :
        \/ /\ toHost' = IF link THEN toHost \o <<ConfirmM>> ELSE toHost
           /\ pc' = "ask" /\ out' = words /\ UNCHANGED link
        \/ /\ pc' = "done" /\ link' = FALSE
           /\ out' = [words EXCEPT !.error = "dropped"] /\ UNCHANGED toHost
  BY DEF Confirm, ConfirmWith, ConfirmM
<1>3. /\ words \in Results
      /\ words.transcript = Note /\ words.text = None
  BY <1>1 DEF Types, Results, WordsInv, DeviceInv
<1>4. CASE pc' = "done" /\ link' = FALSE /\ out' = [words EXCEPT !.error = "dropped"] /\ UNCHANGED toHost
  <2>1. out' \in Results /\ out'.text = None
    BY <1>3, <1>4 DEF Results, Errors
  <2>2. received' \in Nat /\ received' <= Len(outbox)
    BY <1>1 DEF Types
  <2> QED BY <1>1, <1>4, <2>1, <2>2, GivesUp DEF DeviceInv
<1>5. CASE /\ toHost' = IF link THEN toHost \o <<ConfirmM>> ELSE toHost
           /\ pc' = "ask" /\ out' = words /\ UNCHANGED link
  <2>1. /\ Types' /\ AllRead' = AllRead
        /\ toHost' = toHost => HostInv'
        /\ link => handler = "reading"
    BY <1>1, <1>3, <1>5, GoesOn
  <2>2. DeviceInv' /\ SpeechInv'
    BY <1>1, <1>3, <1>5, <2>1 DEF DeviceInv, SpeechInv
  <2>3. link => phase = "await_confirm" /\ toHost' = <<ConfirmM>>
    BY <1>1, <1>5, Queues DEF Sync, DeviceInv
  <2>4. HostInv'
    <3>1. CASE link
      BY <1>1, <1>5, <2>1, <2>3, <3>1 DEF HostInv, h_vars, Asked, Silence
    <3> QED BY <1>5, <2>1, <3>1
  <2>5. Sync' /\ WordsInv'
    BY <1>1, <1>3, <1>5, <2>1, <2>3 DEF Sync, WordsInv, h_vars
  <2> QED BY <2>1, <2>2, <2>4, <2>5
<1> QED BY <1>2, <1>4, <1>5

(* analysis_explain goes out.                                              *)
LEMMA AskAgentKeeps ==
  ASSUME ExplainInv, AskAgent
  PROVE  ExplainInv'
<1> USE DEF ExplainInv
<1>1. /\ pc = "ask" /\ Send(<<ExplainM>>, "reply")
      /\ UNCHANGED <<d_vars, h_vars, playback, stopSent, received>>
  BY DEF AskAgent, stream_vars, ExplainM
<1>2. CASE Finish("dropped") /\ toHost' = toHost
  BY <1>1, <1>2, FinishKeeps DEF Errors, Types, d_vars
<1>3. CASE ~(Finish("dropped") /\ toHost' = toHost)
  <2>1. /\ pc' = "reply" /\ UNCHANGED <<link, out>>
        /\ link => toHost' = toHost \o <<ExplainM>>
        /\ ~link => toHost' = toHost
    BY <1>1, <1>3, Sending
  <2>2. /\ Types' /\ AllRead' = AllRead
        /\ toHost' = toHost => HostInv'
        /\ link => handler = "reading"
    BY <1>1, <2>1, GoesOn DEF Types
  <2>3. DeviceInv' /\ SpeechInv' /\ AllRead
    BY <1>1, <2>1, <2>2 DEF DeviceInv, SpeechInv, d_vars
  <2>4. link => \/ phase = "await_a" /\ toHost = <<>> /\ toHost' = <<ExplainM>>
                \/ phase = "await_confirm" /\ toHost' = <<ConfirmM, ExplainM>>
    BY <1>1, <2>1, Queues DEF Sync
  <2>5. HostInv'
    <3>1. CASE link
      BY <1>1, <2>1, <2>2, <2>4, <3>1, Queues DEF HostInv, h_vars, Fresh, Asked, Silence
    <3> QED BY <2>1, <2>2, <3>1
  <2>6. Sync'
    BY <1>1, <2>1, <2>2, <2>3, <2>4 DEF Sync, h_vars
  <2>7. WordsInv'
    BY <1>1, <2>1, <2>2, <2>3, <2>4 DEF WordsInv, h_vars
  <2> QED BY <2>2, <2>3, <2>5, <2>6, <2>7
<1> QED BY <1>2, <1>3

(* speak goes out.                                                         *)
LEMMA SpeakKeeps ==
  ASSUME ExplainInv, Speak
  PROVE  ExplainInv'
<1> USE DEF ExplainInv
<1>1. pc = "speak" /\ UNCHANGED <<speech, voice, transcript, questionId, h_vars, stopSent, received>>
  BY DEF Speak, D!Disconnect, D!ask_vars, d_vars
<1>2. CASE D!Disconnect /\ Finish("none") /\ UNCHANGED <<toHost, playback>>
  BY <1>1, <1>2, FinishKeeps DEF Errors, Types, D!Disconnect, D!Enter
<1>3. CASE /\ toHost' = IF link THEN Append(toHost, SpeakM) ELSE toHost
           /\ pc' = "speech" /\ playback' = "begun" /\ UNCHANGED <<d_vars, link, out>>
  <2>1. /\ Types' /\ AllRead' = AllRead
        /\ toHost' = toHost => HostInv'
        /\ link => handler = "reading"
    BY <1>1, <1>3, GoesOn DEF Types
  <2>2. AllRead /\ Speaker
    BY <1>1 DEF DeviceInv
  <2>3. DeviceInv' /\ SpeechInv'
    BY <1>1, <1>3, <2>1, <2>2 DEF DeviceInv, SpeechInv, AllRead, Types, d_vars
  <2>4. link => phase = "complete" /\ Silence /\ toHost' = <<SpeakM>>
    BY <1>1, <1>3, Queues DEF Sync
  <2>5. HostInv'
    <3>1. CASE link
      <4>1. acknowledged = Explain
        BY <2>1, <2>4, <3>1 DEF HostInv
      <4> QED BY <1>1, <1>3, <2>2, <2>4, <3>1, <4>1 DEF HostInv, h_vars, Silence
    <3> QED BY <1>3, <2>1, <3>1
  <2>6. Sync'
    <3>1. <<SpeakM>> \notin {<<StopM>>, <<SpeakM, StopM>>}
      BY Queues, Different
    <3> QED BY <1>1, <1>3, <2>1, <2>2, <2>4, <3>1, Queues DEF Sync, Silence, h_vars
  <2>7. WordsInv'
    BY <1>1, <1>3, <2>1 DEF WordsInv, h_vars
  <2> QED BY <2>1, <2>3, <2>5, <2>6, <2>7
<1> QED BY <1>2, <1>3 DEF Speak, SpeakM

(* speech_stop goes out, once.                                             *)
LEMMA StopSpeechKeeps ==
  ASSUME ExplainInv, StopSpeech
  PROVE  ExplainInv'
<1> USE DEF ExplainInv
<1>1. /\ pc = "speech" /\ ~stopSent /\ stopSent' = TRUE
      /\ UNCHANGED <<speech, voice, transcript, questionId, h_vars, playback, received>>
  BY DEF StopSpeech, D!Disconnect, D!ask_vars, d_vars
<1>2. CASE D!Disconnect /\ Finish("none") /\ UNCHANGED toHost
  BY <1>1, <1>2, FinishKeeps DEF Errors, Types, D!Disconnect, D!Enter
<1>3. CASE /\ toHost' = IF link THEN Append(toHost, StopM) ELSE toHost
           /\ UNCHANGED <<d_vars, pc, link, out>>
  <2>1. /\ Types' /\ AllRead' = AllRead
        /\ toHost' = toHost => HostInv'
        /\ link => handler = "reading"
    BY <1>1, <1>3, GoesOn DEF Types
  <2>2. DeviceInv'
    BY <1>1, <1>3, <2>1 DEF DeviceInv, d_vars
  <2>3. SpeechInv'
    BY <1>1, <1>3, <2>1 DEF SpeechInv, h_vars
  <2>4. link => /\ phase = "complete" /\ acknowledged = Explain
                /\ \/ Silence /\ Speaker /\ toHost' = <<SpeakM, StopM>>
                   \/ spoken = {Explain} /\ toHost' = <<StopM>>
    <3>1. link => /\ phase = "complete" /\ (spoken = {} => toHost # <<>>)
                  /\ toHost \notin {<<StopM>>, <<SpeakM, StopM>>}
      BY <1>1 DEF Sync
    <3>2. link => /\ acknowledged = Explain
                  /\ \/ Silence /\ Speaker /\ toHost = <<SpeakM>>
                     \/ spoken = {Explain} /\ toHost = <<>>
      BY <2>1, <3>1 DEF HostInv, Silence
    <3>3. Append(<<>>, StopM) = <<StopM>> /\ Append(<<SpeakM>>, StopM) = <<SpeakM, StopM>>
      BY Queues
    <3> QED BY <1>3, <3>1, <3>2, <3>3
  <2>5. HostInv'
    <3>1. CASE link
      BY <1>1, <1>3, <2>4, <3>1 DEF HostInv, h_vars, Silence
    <3> QED BY <1>3, <2>1, <3>1
  <2>6. Sync'
    BY <1>1, <1>3, <2>1, <2>4, Queues DEF Sync, Silence, h_vars
  <2>7. WordsInv'
    BY <1>1, <1>3, <2>1 DEF WordsInv, h_vars
  <2> QED BY <2>1, <2>2, <2>3, <2>5, <2>6, <2>7
<1> QED BY <1>2, <1>3 DEF StopSpeech, StopM

-----------------------------------------------------------------------------
(* The media task reads what it waits for: nothing else can be there.      *)
LEMMA NothingElse ==
  ASSUME ExplainInv, Read
  PROVE  /\ ~AllRead /\ received' = received + 1 /\ received' <= Len(outbox) /\ Expected(Message)
         /\ UNCHANGED <<h_vars, note, dialog, stopSent, toHost>>
         /\ \/ pc = "hello" /\ OnReady(Message) /\ Message = H!Ready
            \/ pc = "transcript" /\ OnTranscript(Message) /\ Message \in Transcripts
            \/ pc = "reply" /\ OnAgent(Message) /\ Message \in {H!Incomplete, ReplyM}
            \/ pc = "speech" /\ OnSpeech(Message) /\ Message \in Chunks \cup Ends
<1> USE DEF ExplainInv
<1>1. /\ Waiting /\ received < Len(outbox) /\ received' = received + 1
      /\ UNCHANGED <<h_vars, note, dialog, stopSent, toHost>>
      /\ IF Expected(Message)
         THEN OnReady(Message) \/ OnTranscript(Message) \/ OnAgent(Message) \/ OnSpeech(Message)
         ELSE Unexpected
  BY DEF Read, call_vars
<1>2. ~AllRead /\ received \in Nat /\ Len(outbox) \in Nat /\ received' <= Len(outbox)
  BY <1>1 DEF AllRead, Types
<1>3. Waiting => pc \in {"hello", "transcript", "dialog", "reply", "speech"}
  BY DEF Waiting
<1>4. /\ pc = "hello" => Message = H!Ready
      /\ pc = "transcript" => Message \in Transcripts /\ questionId = Note
      /\ pc # "dialog"
      /\ pc = "reply" => Message \in {H!Incomplete, ReplyM}
  BY <1>2 DEF DeviceInv, OneUnread
<1>5. pc = "speech" =>
        /\ Message \in Chunks \cup Ends /\ playback \in {"begun", "started", "ended"}
        /\ playback # "ended" /\ (Message.type = "speech_start" <=> playback = "begun")
  BY <1>1, <1>2 DEF SpeechInv, Message
<1>6. Expected(Message)
  <2>1. H!Ready.type = "ready" /\ H!Incomplete.type = "incomplete" /\ ReplyM.type = "analysis_reply"
    BY DEF H!Ready, H!Incomplete, ReplyM
  <2>2. \A m \in Transcripts : m.type = "transcript" /\ m.key = Note
    BY DEF Transcripts
  <2>3. \A m \in Chunks \cup Ends :
          m.type \in {"speech_start", "speech_chunk", "speech_end"} /\ m.key = Explain
    BY DEF Chunks, Ends
  <2>4. CASE pc = "hello"
    BY <1>4, <2>1, <2>4 DEF Expected
  <2>5. CASE pc = "transcript"
    BY <1>4, <2>2, <2>5 DEF Expected
  <2>6. CASE pc = "reply"
    BY <1>4, <2>1, <2>6 DEF Expected
  <2>7. CASE pc = "speech"
    BY <1>5, <2>3, <2>7 DEF Expected, Follows
  <2> QED BY <1>1, <1>3, <1>4, <2>4, <2>5, <2>6, <2>7
<1>7. OnReady(Message) \/ OnTranscript(Message) \/ OnAgent(Message) \/ OnSpeech(Message)
  BY <1>1, <1>6
<1> QED BY <1>1, <1>2, <1>4, <1>5, <1>6, <1>7 DEF OnReady, OnTranscript, OnAgent, OnSpeech

(* ready: the session is there, and can do what the Mac is configured to.  *)
LEMMA ReadyKeeps ==
  ASSUME ExplainInv, Read, pc = "hello"
  PROVE  ExplainInv'
<1> USE DEF ExplainInv
<1>1. /\ ~AllRead /\ received' = received + 1 /\ received' <= Len(outbox)
      /\ UNCHANGED <<h_vars, note, dialog, stopSent, toHost, playback>>
      /\ OnReady(Message) /\ Message = H!Ready
  BY NothingElse DEF OnReady
<1>2. /\ FromHost(H!Ready).type = "ready" /\ FromHost(H!Ready).speech = Transcriber
      /\ FromHost(H!Ready).voice = Speaker
  BY DEF FromHost, H!Ready
<1>3. state = "connecting" /\ playback = "idle" /\ ~stopSent
  BY DEF DeviceInv
<1>4. CASE state' # "ready_a"
  <2>1. state' = "incomplete" /\ UNCHANGED <<speech, voice, transcript>> /\ Finish("no_answer")
    BY <1>1, <1>2, <1>3, <1>4
       DEF OnReady, D!Receive, D!Tick, D!OnReady, D!OnTranscript, D!OnAcknowledged, D!OnReply, D!Enter,
           D!ask_vars
  <2> QED BY <1>1, <1>3, <2>1, FinishKeeps DEF Errors, Types
<1>5. CASE state' = "ready_a"
  <2>1. /\ speech' = Transcriber /\ voice' = Speaker /\ UNCHANGED <<transcript, link, out>>
        /\ pc' = IF note /\ speech' THEN "note" ELSE "ask"
    BY <1>1, <1>2, <1>3, <1>5
       DEF OnReady, D!Receive, D!Tick, D!OnReady, D!OnTranscript, D!OnAcknowledged, D!OnReply, D!Enter
  <2>2. pc' \in {"note", "ask"} /\ (pc' = "note" => Transcriber)
    BY <2>1
  <2>3. received \in Nat /\ Len(outbox) = received + 1
    BY <1>1 DEF DeviceInv, OneUnread, Types
  <2>4. AllRead' /\ received' \in Nat
    BY <1>1, <2>3 DEF AllRead, h_vars
  <2>5. Types'
    BY <1>1, <2>1, <2>2, <2>4 DEF Types, h_vars
  <2>6. DeviceInv' /\ SpeechInv'
    BY <1>1, <1>3, <1>5, <2>1, <2>2, <2>4 DEF DeviceInv, SpeechInv
  <2>7. HostInv'
    BY <1>1, <2>1 DEF HostInv, h_vars, Fresh, Asked, Silence
  <2>8. Sync'
    BY <1>1, <2>1, <2>2 DEF Sync, h_vars
  <2>9. WordsInv'
    BY <1>1, <2>1, <2>2, <2>4 DEF Sync, WordsInv, h_vars
  <2> QED BY <2>5, <2>6, <2>7, <2>8, <2>9
<1> QED BY <1>4, <1>5

(* transcript: the words of the note, or that there are none.              *)
LEMMA TranscriptKeeps ==
  ASSUME ExplainInv, Read, pc = "transcript"
  PROVE  ExplainInv'
<1> USE DEF ExplainInv
<1>1. /\ ~AllRead /\ received' = received + 1 /\ received' <= Len(outbox)
      /\ UNCHANGED <<h_vars, note, dialog, stopSent, toHost, playback>>
      /\ OnTranscript(Message) /\ Message \in Transcripts
  BY NothingElse DEF OnTranscript
<1>2. /\ FromHost(Message).type = "transcript" /\ FromHost(Message).key = Note
      /\ FromHost(Message).status = Message.status
  BY <1>1 DEF FromHost, Transcripts
<1>3. state = "transcribing" /\ playback = "idle" /\ ~stopSent
  BY DEF DeviceInv
<1>4. \/ state' = "incomplete" /\ UNCHANGED <<speech, voice, transcript>>
      \/ /\ state' = IF Message.status = "heard" THEN "confirming" ELSE "ready_a"
         /\ state' = "confirming" => transcript' = Note
         /\ UNCHANGED <<speech, voice>>
  BY <1>1, <1>2, <1>3
     DEF OnTranscript, D!Receive, D!Tick, D!OnReady, D!OnTranscript, D!OnAcknowledged, D!OnReply,
         D!Enter, D!ask_vars
<1>5. D!terminal' <=> state' = "incomplete"
  BY <1>4 DEF D!terminal, D!TerminalStates
<1>6. CASE state' = "incomplete"
  <2>1. Finish("note") /\ UNCHANGED <<speech, voice, transcript>>
    BY <1>1, <1>4, <1>5, <1>6 DEF OnTranscript
  <2> QED BY <1>1, <1>3, <1>6, <2>1, FinishKeeps DEF Errors, Types
<1>7. CASE state' # "incomplete"
  <2>1. /\ pc' = IF dialog THEN "dialog" ELSE IF state' = "confirming" THEN "confirm" ELSE "ask"
        /\ UNCHANGED <<link, out>>
    BY <1>1, <1>5, <1>7 DEF OnTranscript
  <2>2. /\ pc' \in {"dialog", "confirm", "ask"} /\ (pc' = "confirm" => state' = "confirming")
        /\ (pc' = "ask" => state' = "ready_a") /\ state' \in {"confirming", "ready_a"}
    BY <1>4, <1>7, <2>1
  <2>3. received \in Nat /\ Len(outbox) = received + 1
    BY <1>1 DEF DeviceInv, OneUnread, Types
  <2>4. AllRead' /\ received' \in Nat
    BY <1>1, <2>3 DEF AllRead, h_vars
  <2>5. Types'
    BY <1>1, <2>1, <2>2, <2>4 DEF Types, h_vars
  <2>6. DeviceInv' /\ SpeechInv'
    BY <1>1, <1>3, <1>4, <1>7, <2>2, <2>4 DEF DeviceInv, SpeechInv
  <2>7. HostInv'
    BY <1>1, <2>1 DEF HostInv, h_vars, Fresh, Asked, Silence
  <2>8. link => /\ phase = IF state' = "confirming" THEN "await_confirm" ELSE "await_a"
                /\ toHost = <<>>
    BY <1>1, <1>4, <1>7 DEF Sync
  <2>9. Sync'
    BY <1>1, <2>1, <2>2, <2>8 DEF Sync, h_vars
  <2>10. WordsInv'
    BY <1>1, <2>1, <2>2, <2>4, <2>8 DEF WordsInv, h_vars
  <2> QED BY <2>5, <2>6, <2>7, <2>9, <2>10
<1> QED BY <1>6, <1>7

(* analysis_reply or incomplete: what the agent says of the analysis.      *)
LEMMA AgentKeeps ==
  ASSUME ExplainInv, Read, pc = "reply"
  PROVE  ExplainInv'
<1> USE DEF ExplainInv
<1>1. /\ ~AllRead /\ received' = received + 1 /\ received' <= Len(outbox)
      /\ UNCHANGED <<h_vars, note, dialog, stopSent, toHost, playback, d_vars>>
      /\ OnAgent(Message) /\ Message \in {H!Incomplete, ReplyM}
  BY NothingElse DEF OnAgent
<1>2. state = "ready_a" /\ playback = "idle" /\ ~stopSent
  BY DEF DeviceInv
<1>3. received \in Nat /\ Len(outbox) = received + 1
  BY <1>1 DEF DeviceInv, OneUnread, Types
<1>4. AllRead' /\ received' \in Nat
  BY <1>1, <1>3 DEF AllRead, h_vars
<1>5. CASE Message = H!Incomplete
  <2>1. Finish("agent")
    BY <1>1, <1>5 DEF OnAgent, H!Incomplete
  <2> QED BY <1>1, <2>1, FinishKeeps DEF Errors, d_vars
<1>6. CASE Message = ReplyM
  <2>1. /\ out' = [out EXCEPT !.text = Explain]
        /\ \/ voice /\ pc' = "speak" /\ UNCHANGED link
           \/ pc' = "done" /\ link' = FALSE
    BY <1>1, <1>6 DEF OnAgent, ReplyM
  <2>2. out' \in Results /\ out'.transcript = out.transcript
    BY <2>1 DEF Types, Results
  <2>3. requests # {} /\ asked.question = out.transcript
    BY <1>1, <1>6 DEF WordsInv
  <2>4. CASE pc' = "done" /\ link' = FALSE
    BY <1>1, <1>2, <1>4, <2>2, <2>3, <2>4, GivesUp DEF d_vars, DeviceInv
  <2>5. CASE voice /\ pc' = "speak" /\ UNCHANGED link
    <3>1. Types'
      BY <1>1, <1>4, <2>2, <2>5 DEF Types, h_vars
    <3>2. DeviceInv' /\ SpeechInv'
      BY <1>1, <1>2, <1>4, <2>5 DEF DeviceInv, SpeechInv, d_vars
    <3>3. HostInv'
      BY <1>1, <2>5 DEF HostInv, h_vars, Fresh, Asked, Silence
    <3>4. link => phase = "complete" /\ toHost = <<>> /\ Silence
      <4>1. ReplyM # H!Incomplete
        BY DEF ReplyM, H!Incomplete
      <4>2. CASE link /\ phase = "incomplete"
        BY <1>1, <1>6, <4>1, <4>2 DEF Sync
      <4> QED BY <1>1, <4>2 DEF Sync
    <3>5. Sync'
      BY <1>1, <2>5, <3>4 DEF Sync, Silence, h_vars
    <3>6. WordsInv'
      BY <1>1, <2>2, <2>3, <2>5 DEF WordsInv, h_vars
    <3> QED BY <3>1, <3>2, <3>3, <3>5, <3>6
  <2> QED BY <2>1, <2>4, <2>5
<1> QED BY <1>1, <1>5, <1>6

(* speech_start, speech_chunk or speech_end.                               *)
LEMMA PlayKeeps ==
  ASSUME ExplainInv, Read, pc = "speech"
  PROVE  ExplainInv'
<1> USE DEF ExplainInv
<1>1. /\ ~AllRead /\ received' = received + 1 /\ received' <= Len(outbox)
      /\ UNCHANGED <<h_vars, note, dialog, stopSent, toHost, d_vars, link, pc, out>>
      /\ Message \in Chunks \cup Ends
      /\ playback' = IF Message.type = "speech_end" THEN "ended" ELSE "started"
  BY NothingElse DEF OnSpeech
<1>2. received \in Nat /\ Len(outbox) \in Nat /\ received + 1 \in received + 1..Len(outbox)
  BY <1>1 DEF Types
<1>3. Message.type = "speech_end" <=> Message \in Ends
  BY <1>1 DEF Chunks, Ends
<1>4. Message \in Ends => received + 1 = Len(outbox)
  BY <1>2 DEF SpeechInv, Message
<1>5. received' + 1..Len(outbox') \subseteq received + 1..Len(outbox)
  BY <1>1, <1>2 DEF h_vars
<1>6. received + 1 \notin received' + 1..Len(outbox')
  BY <1>1, <1>2 DEF h_vars
<1>7. playback' \in {"started", "ended"} /\ (playback' = "ended" <=> Message \in Ends)
  BY <1>1, <1>3
<1>8. Types'
  BY <1>1, <1>2 DEF Types, h_vars
<1>9. DeviceInv'
  BY <1>1, <1>7 DEF DeviceInv, d_vars
<1>10. SpeechInv'
  <2>1. playback' = "ended" => AllRead'
    BY <1>1, <1>4, <1>7 DEF AllRead, h_vars
  <2>2. ASSUME NEW i \in received' + 1..Len(outbox')
        PROVE  /\ outbox'[i] \in Chunks \cup Ends
               /\ outbox'[i].type = "speech_start" <=> i = received' + 1 /\ playback' = "begun"
               /\ outbox'[i] \in Ends => i = Len(outbox')
    <3>1. i \in received + 1..Len(outbox) /\ i # received + 1 /\ outbox' = outbox
      BY <1>1, <1>5, <1>6, <2>2 DEF h_vars
    <3>2. /\ outbox[i] \in Chunks \cup Ends /\ outbox[i].type # "speech_start"
          /\ outbox[i] \in Ends => i = Len(outbox)
      BY <3>1 DEF SpeechInv
    <3> QED BY <1>7, <3>1, <3>2
  <2> QED BY <1>7, <2>1, <2>2 DEF SpeechInv
<1>11. HostInv'
  BY <1>1 DEF HostInv, h_vars, Fresh, Asked, Silence
<1>12. Sync'
  <2>1. CASE link
    <3>1. /\ phase = "complete" /\ (spoken = {} => AllRead)
          /\ toHost \in {<<StopM>>, <<SpeakM, StopM>>} => stopSent
          /\ speaking # None => stream = 0 <=> AllRead /\ playback = "begun"
          /\ speaking # None => \A i \in received + 1..Len(outbox) : outbox[i] \notin Ends
      BY <2>1 DEF Sync
    <3>2. speaking # None => Message \notin Ends
      BY <1>2, <3>1 DEF Message
    <3>3. speaking # None => \A i \in received' + 1..Len(outbox') : outbox'[i] \notin Ends
      BY <1>1, <1>5, <3>1 DEF h_vars
    <3> QED BY <1>1, <1>7, <2>1, <3>1, <3>2, <3>3 DEF Sync, h_vars
  <2>2. CASE ~link
    BY <1>1, <2>2 DEF Sync
  <2> QED BY <2>1, <2>2
<1>13. WordsInv'
  BY <1>1 DEF WordsInv, h_vars
<1> QED BY <1>8, <1>9, <1>10, <1>11, <1>12, <1>13

(* Time, and a step of something else.                                     *)
LEMMA RestKeeps ==
  ASSUME ExplainInv, Advance \/ UNCHANGED vars
  PROVE  ExplainInv'
<1> USE DEF ExplainInv
<1>1. UNCHANGED <<d_vars, h_vars, link, pc, call_vars, out, stream_vars, toHost, received>>
  BY DEF Advance, vars
<1>2. AllRead' = AllRead /\ Message' = Message /\ \A S : OneUnread(S)' <=> OneUnread(S)
  BY <1>1 DEF AllRead, Message, OneUnread, h_vars
<1>3. Types' /\ DeviceInv' /\ SpeechInv'
  BY <1>1, <1>2 DEF Types, DeviceInv, SpeechInv, d_vars, h_vars, stream_vars
<1>4. HostInv' /\ Sync' /\ WordsInv'
  BY <1>1, <1>2 DEF HostInv, Sync, WordsInv, Fresh, Asked, Silence, d_vars, h_vars, stream_vars
<1> QED BY <1>3, <1>4

(* Every step keeps the invariant.                                         *)
LEMMA StepKeeps ==
  ASSUME ExplainInv, [Next]_vars
  PROVE  ExplainInv'
<1> USE DEF Errors, D!Tick, D!Disconnect, D!Enter, D!ask_vars, d_vars, stream_vars
<1>1. received \in Nat /\ Len(outbox) \in Nat /\ received <= Len(outbox)
  BY DEF ExplainInv, Types
<1>2. pc \in {"hello", "transcript", "dialog", "reply"} => playback = "idle"
  BY DEF ExplainInv, DeviceInv
<1>3. CASE Start
  BY <1>3, StartKeeps
<1>4. CASE ReplyTimeout
  BY <1>1, <1>2, <1>4, FinishKeeps DEF ReplyTimeout
<1>5. CASE PollError
  BY <1>1, <1>5, FinishKeeps DEF PollError
<1>6. CASE StartNote
  BY <1>6, StartNoteKeeps
<1>7. CASE UploadNote
  BY <1>7, UploadNoteKeeps
<1>8. CASE EndNote
  BY <1>8, EndNoteKeeps
<1>9. CASE DialogTimeout
  BY <1>1, <1>9, FinishKeeps DEF DialogTimeout
<1>10. CASE Confirm
  BY <1>10, ConfirmKeeps
<1>11. CASE AskAgent
  BY <1>11, AskAgentKeeps
<1>12. CASE WaitTimeout
  BY <1>1, <1>12, FinishKeeps DEF WaitTimeout
<1>13. CASE Speak
  BY <1>13, SpeakKeeps
<1>14. CASE SpeechOver
  BY <1>1, <1>14, FinishKeeps DEF SpeechOver
<1>15. CASE Read
  <2>1. pc \in {"hello", "transcript", "reply", "speech"}
    BY <1>15, NothingElse
  <2> QED BY <1>15, <2>1, ReadyKeeps, TranscriptKeeps, AgentKeeps, PlayKeeps
<1>16. CASE Choose
  BY <1>16, ChooseKeeps
<1>17. CASE StopSpeech
  BY <1>17, StopSpeechKeeps
<1>18. CASE HostReads
  BY <1>18, HostReadsKeeps
<1>19. CASE HostStep
  BY <1>19, HostStepKeeps
<1>20. CASE Advance \/ UNCHANGED vars
  BY <1>20, RestKeeps
<1> QED BY <1>3, <1>4, <1>5, <1>6, <1>7, <1>8, <1>9, <1>10, <1>11, <1>12, <1>13, <1>14, <1>15,
           <1>16, <1>17, <1>18, <1>19, <1>20 DEF Next, MediaTask

(* A call begins with nothing said on either side.                         *)
LEMMA InitHolds == Init => ExplainInv
<1> SUFFICES ASSUME Init PROVE ExplainInv
  OBVIOUS
<1>1. /\ state = "idle" /\ speech = FALSE /\ voice = FALSE /\ questionId = None /\ transcript = None
      /\ pc = "start" /\ out = Empty /\ playback = "idle" /\ stopSent = FALSE /\ toHost = <<>>
      /\ received = 0
  BY DEF Init, D!Init
<1>2. /\ phase = "new" /\ questionIds = <<>> /\ heard = None /\ operatorQuestion = None /\ seen = {}
      /\ ids = <<>> /\ requests = {} /\ pending = None /\ task = "none" /\ spoken = {}
      /\ speaking = None /\ stream = 0 /\ handler = "reading" /\ refused = "none" /\ outbox = <<>>
      /\ link = TRUE
  BY DEF Init, H!Init
<1>3. Len(outbox) = 0 /\ outbox \in Seq(Said)
  <2>1. <<>> \in Seq(Said) /\ Len(<<>>) = 0
    OBVIOUS
  <2> QED BY <1>2, <2>1
<1>4. Types /\ DeviceInv /\ SpeechInv
  BY <1>1, <1>2, <1>3 DEF Types, DeviceInv, SpeechInv, AllRead, Empty, Results, Errors
<1>5. HostInv /\ Sync /\ WordsInv
  BY <1>1, <1>2 DEF HostInv, Sync, WordsInv, Fresh, Silence, Empty
<1> QED BY <1>4, <1>5 DEF ExplainInv

(* Every behaviour keeps it.                                               *)
LEMMA AlwaysKept == Spec => []ExplainInv
<1>1. Init => ExplainInv
  BY InitHolds
<1>2. ExplainInv /\ [Next]_vars => ExplainInv'
  BY StepKeeps
<1> QED BY <1>1, <1>2, PTL DEF Spec

(* investigation_explain_analysis() and MockSession.receive() agree: what  *)
(* the device sends is legal when the Mac comes to read it, also after the *)
(* connection died, so only silence ends the session from the Mac's side.  *)
THEOREM DeviceIsNeverRefused == Spec => []NothingRefused
<1>1. ExplainInv => NothingRefused
  BY DEF ExplainInv, Types, NothingRefused
<1> QED BY <1>1, AlwaysKept, PTL

(* The words the screen shows as the operator's are those explain() gave   *)
(* the agent; if it shows none, the agent was given none.                  *)
THEOREM WordsAreTheShownOnes == Spec => []ShownWordsAreUsed
<1>1. ExplainInv => ShownWordsAreUsed
  BY DEF ExplainInv, WordsInv, ShownWordsAreUsed
<1> QED BY <1>1, AlwaysKept, PTL

(* The device is never sent what it does not wait for, so a call never     *)
(* ends with an unexpected message and a playback is never torn down by    *)
(* one.                                                                    *)
THEOREM HostNeverSurprises == Spec => []NoSurprise
<1>1. ExplainInv => NoSurprise
  BY DEF ExplainInv, Types, Results, Errors, DeviceInv, NoSurprise
<1> QED BY <1>1, AlwaysKept, PTL

-----------------------------------------------------------------------------
(* The screen (see Instrument).                                            *)

(* The analysis page is only reached by a tap that also ends the           *)
(* listening, and every tap that listens again leaves the page.            *)
PageIsDeaf == screen = "analysis" => stop

(* While the page waits to draw a result that is ready, whatever the media *)
(* task is in has recorded nothing: an analysis left over from a crossed   *)
(* request finds too little, and writes nothing.                           *)
LeftoverIsEmpty ==
  /\ screen = "analysis" /\ ~shown /\ analysis = "ready"
  /\ media \in {"listen", "closing", "analyze"}
  => ~recorded

(* The inductive invariant.                                                *)
ScreenInv == PageIsDeaf /\ LeftoverIsEmpty

(* Every step keeps it.                                                    *)
LEMMA ScreenStep ==
  ASSUME ScreenInv, [ScreenNext]_screen_vars
  PROVE  ScreenInv'
<1> USE DEF ScreenInv, PageIsDeaf, LeftoverIsEmpty, ui_vars, media_vars,
            Listen, SendMedia, InvestigationStopSpeech
<1>1. CASE Open
  BY <1>1 DEF Open
<1>2. CASE Back
  BY <1>2 DEF Back
<1>3. CASE AnalysisClicked
  BY <1>3 DEF AnalysisClicked
<1>4. CASE ListenAgain
  BY <1>4 DEF ListenAgain
<1>5. CASE AnalysisHome
  BY <1>5 DEF AnalysisHome
<1>6. CASE ExplainClicked
  BY <1>6 DEF ExplainClicked
<1>7. CASE Draw
  BY <1>7 DEF Draw
<1>8. CASE Other
  BY <1>8 DEF Other
<1>9. CASE Take
  BY <1>9 DEF Take
<1>10. CASE OtherDone
  BY <1>10 DEF OtherDone
<1>11. CASE Stopped \/ CodecFails
  BY <1>11 DEF Stopped, CodecFails, Leave
<1>12. CASE Exchange
  BY <1>12 DEF Exchange
<1>13. CASE Analyzed
  BY <1>13 DEF Analyzed
<1>14. CASE ExplainStart
  BY <1>14 DEF ExplainStart
<1>15. CASE Ask \/ Spoken \/ Answered
  BY <1>15 DEF Ask, Spoken, Answered
<1>16. CASE RestoreButtons
  BY <1>16 DEF RestoreButtons
<1>17. CASE Record
  BY <1>17 DEF Record
<1>18. CASE UNCHANGED screen_vars
  BY <1>18 DEF screen_vars
<1> QED BY <1>1, <1>2, <1>3, <1>4, <1>5, <1>6, <1>7, <1>8, <1>9, <1>10, <1>11, <1>12, <1>13,
           <1>14, <1>15, <1>16, <1>17, <1>18 DEF ScreenNext, MediaStep

(* The draw timer never reads a result while analyze_session() writes one, *)
(* however taps, leftover requests and the media task cross.               *)
THEOREM ReaderIsSafe == ScreenSpec => []ReaderNeverMeetsWriter
<1>1. ScreenInit => ScreenInv
  BY DEF ScreenInit, ScreenInv, PageIsDeaf, LeftoverIsEmpty
<1>2. ScreenInv /\ [ScreenNext]_screen_vars => ScreenInv'
  BY ScreenStep
<1>3. ScreenInv => ReaderNeverMeetsWriter
  BY DEF ScreenInv, LeftoverIsEmpty, ReaderNeverMeetsWriter
<1> QED BY <1>1, <1>2, <1>3, PTL DEF ScreenSpec
=============================================================================
