------------------------ MODULE InvestigationProtocol ------------------------
(***************************************************************************)
(* The device's session reducer (investigation_protocol.cpp): the one      *)
(* object that decides where a guided A/B session stands.  The media task  *)
(* owns it; every action below is one of its methods, called with the      *)
(* current time.  Returning false or nullptr without a state change is a   *)
(* stuttering step.                                                        *)
(*                                                                         *)
(* Data kept abstract: an id is a model value, a transcript is named by    *)
(* the question it is the transcript of, an acquisition window is a pair   *)
(* of instants, and a measurement is "steady" (it can be compared) or      *)
(* "clipped" (the comparison must be inconclusive).  Wire shape checks     *)
(* (lengths, field counts, hex digits) are left out: a message is well     *)
(* formed or never reaches Receive.                                        *)
(***************************************************************************)
EXTENDS Naturals, Sequences

CONSTANTS
  Ids,           \* names of questions and captures
  None,          \* "no id yet": the empty string of the code
  Session,       \* this device's (boot_id, session_id)
  Sessions,      \* every session a message may name
  Instants,      \* microsecond timestamps of acquisition windows
  MaxQuestions,  \* InvestigationProtocol::max_questions
  ConnectWait,   \* budget for ready
  UploadWait,    \* budget for an upload, and for a transcript
  ReplyWait      \* budget for a reply and its acknowledgement

ASSUME ProtocolConstants ==
  /\ None \notin Ids
  /\ Session \in Sessions
  /\ Instants \subseteq Nat
  /\ MaxQuestions \in Nat
  /\ ConnectWait \in Nat \ {0} /\ UploadWait \in Nat \ {0} /\ ReplyWait \in Nat \ {0}

VARIABLES
  state,       \* state_
  speech,      \* speech_: the host can transcribe
  voice,       \* voice_: the host can speak guidance
  questions,   \* questions_
  questionId,  \* question_id_
  transcript,  \* transcript_, as the question it came from
  status,      \* status_
  question,    \* question_: the transcript the operator chose to use
  captures,    \* captures_, measurements_ and count_
  deadline,    \* deadline_, 0 when none is armed
  ackSent,     \* ack_sent_
  now          \* the millisecond clock its callers pass in

ask_vars == <<speech, voice, questions, questionId, transcript, status, question>>
vars == <<state, ask_vars, captures, deadline, ackSent, now>>

Levels == {"steady", "clipped"}
Windows == {w \in Instants \X Instants : w[1] < w[2]}
Captures == [id : Ids, window : Windows, level : Levels]

RecordingStates == {"recording_a", "recording_b", "recording_repeat"}
TimedStates == {"connecting", "transcribing", "uploading", "waiting", "acknowledging"}
TerminalStates == {"complete", "cancelled", "offline", "incomplete"}
States == {"idle", "ready_a", "asking", "confirming", "adjust", "ready_b", "return_a"}
            \cup RecordingStates \cup TimedStates \cup TerminalStates

count == Len(captures)
captureIds == [i \in 1..count |-> captures[i].id]
levels == [i \in 1..count |-> captures[i].level]
request == IF count = 1 THEN "r1" ELSE "r2"

terminal == state \in TerminalStates
expired == deadline # 0 /\ now >= deadline /\ ~terminal

Init ==
  /\ state = "idle"
  /\ speech = FALSE /\ voice = FALSE
  /\ questions = 0
  /\ questionId = None /\ transcript = None /\ question = None
  /\ status = "none"
  /\ captures = <<>>
  /\ deadline = 0
  /\ ackSent = FALSE
  /\ now = 0

-----------------------------------------------------------------------------
(* A step to state s that arms (or, with 0, clears) the deadline.          *)
Enter(s, d) == state' = s /\ deadline' = d

Ask ==
  /\ state = "idle"
  /\ Enter("connecting", now + ConnectWait)
  /\ UNCHANGED <<ask_vars, captures, ackSent, now>>

StartCapture ==
  /\ \/ state = "ready_a"  /\ state' = "recording_a"
     \/ state = "ready_b"  /\ state' = "recording_b"
     \/ state = "return_a" /\ state' = "recording_repeat"
  /\ UNCHANGED <<ask_vars, captures, deadline, ackSent, now>>

(* Bug: a question may also be asked before Record B.                      *)
BugAskBeforeB ==
  /\ state \in {"ready_a", "ready_b"} /\ speech /\ questions < MaxQuestions
  /\ state' = "asking"
  /\ UNCHANGED <<ask_vars, captures, deadline, ackSent, now>>

StartQuestion ==
  /\ state = "ready_a" /\ speech /\ questions < MaxQuestions
  /\ state' = "asking"
  /\ UNCHANGED <<ask_vars, captures, deadline, ackSent, now>>

(* Only the previous question's id is remembered, and only it is refused.  *)
QuestionRecorded(key) ==
  /\ state = "asking" /\ key # questionId
  /\ questionId' = key
  /\ transcript' = None /\ status' = "none"
  /\ questions' = questions + 1
  /\ Enter("transcribing", now + UploadWait)
  /\ UNCHANGED <<speech, voice, question, captures, ackSent, now>>

ConfirmQuestion(accepted) ==
  /\ state = "confirming"
  /\ question' = IF accepted THEN transcript ELSE question
  /\ state' = "ready_a"
  /\ UNCHANGED <<speech, voice, questions, questionId, transcript, status,
                 captures, deadline, ackSent, now>>

(* Bug: like questions, a capture is compared with the previous one only.  *)
BugLastIdOnly(c) ==
  /\ state \in RecordingStates /\ count < 3
  /\ c.id # questionId
  /\ count > 0 => c.id # captures[count].id
  /\ count > 0 => c.window[1] >= captures[count].window[2]

(* The metadata of a finished capture, against what is already held.       *)
Acceptable(c) ==
  /\ state \in RecordingStates /\ count < 3
  /\ c.id # questionId
  /\ \A i \in 1..count : captures[i].id # c.id
  /\ count > 0 => c.window[1] >= captures[count].window[2]

Captured(c) ==
  /\ Acceptable(c)
  /\ captures' = Append(captures, c)
  /\ Enter("uploading", now + UploadWait)
  /\ UNCHANGED <<ask_vars, ackSent, now>>

(* captured when the heap cannot hold the capture's identity: fail().      *)
CapturedNoMemory(c) ==
  /\ Acceptable(c)
  /\ Enter("incomplete", 0)
  /\ UNCHANGED <<ask_vars, captures, ackSent, now>>

(* Bug: the upload deadline stays armed during the walk back to A.         *)
BugDeadlineKept ==
  /\ state = "uploading" /\ count = 2
  /\ state' = "return_a"
  /\ UNCHANGED <<ask_vars, captures, deadline, ackSent, now>>

AwaitRepeat ==
  /\ state = "uploading" /\ count = 2
  /\ Enter("return_a", 0)
  /\ UNCHANGED <<ask_vars, captures, ackSent, now>>

Tick ==
  /\ expired
  /\ Enter("incomplete", 0)
  /\ UNCHANGED <<ask_vars, captures, ackSent, now>>

(* turn() ticks first: a turn whose upload budget ran out fails instead.   *)
Turn ==
  \/ Tick
  \/ /\ ~expired /\ state = "uploading"
     /\ Enter("waiting", now + ReplyWait)
     /\ UNCHANGED <<ask_vars, captures, ackSent, now>>

-----------------------------------------------------------------------------
(* receive(): one branch per message the current state is waiting for.     *)

OnReady(m) ==
  /\ state = "connecting" /\ m.type = "ready"
  /\ speech' = m.speech /\ voice' = m.voice
  /\ Enter("ready_a", 0)
  /\ UNCHANGED <<questions, questionId, transcript, status, question, captures, ackSent>>

(* Bug: any transcript is taken, whichever question it belongs to.         *)
BugAnyTranscript(m) ==
  /\ state = "transcribing" /\ m.type = "transcript"
  /\ transcript' = IF m.status = "heard" THEN m.key ELSE transcript
  /\ status' = m.status
  /\ Enter(IF m.status = "heard" THEN "confirming" ELSE "ready_a", 0)
  /\ UNCHANGED <<speech, voice, questions, questionId, question, captures, ackSent>>

OnTranscript(m) ==
  /\ state = "transcribing" /\ m.type = "transcript" /\ m.key = questionId
  /\ transcript' = IF m.status = "heard" THEN m.key ELSE transcript
  /\ status' = m.status
  /\ Enter(IF m.status = "heard" THEN "confirming" ELSE "ready_a", 0)
  /\ UNCHANGED <<speech, voice, questions, questionId, question, captures, ackSent>>

OnAcknowledged(m) ==
  LET next == IF count = 1 THEN "adjust" ELSE "complete"
  IN  /\ state = "acknowledging" /\ ackSent
      /\ m.type = "acknowledged" /\ m.key = request /\ m.state = next
      /\ Enter(next, 0)
      /\ UNCHANGED <<ask_vars, captures, ackSent>>

(* What the reply must say the comparison is, given the held measurements. *)
comparison ==
  IF count = 1 THEN "none"
  ELSE IF \A i \in 1..count : captures[i].level = "steady" THEN "measured"
  ELSE "inconclusive"

(* Bug: the reply ends the deadline, leaving its acknowledgement unbounded. *)
BugReplyClearsDeadline(m) ==
  /\ state = "waiting"
  /\ m.type = (IF count = 1 THEN "guidance" ELSE "comparison")
  /\ m.key = request /\ m.ids = captureIds
  /\ Enter("acknowledging", 0) /\ ackSent' = FALSE
  /\ UNCHANGED <<ask_vars, captures>>

OnReply(m) ==
  /\ state = "waiting"
  /\ m.type = (IF count = 1 THEN "guidance" ELSE "comparison")
  /\ m.key = request /\ m.deadline = deadline
  /\ m.ids = captureIds /\ m.levels = levels /\ m.comparison = comparison
  /\ state' = "acknowledging" /\ ackSent' = FALSE
  /\ UNCHANGED <<ask_vars, captures, deadline>>

(* Bug: receive does not tick first, so a late reply still counts.         *)
BugReceiveWithoutTick(m) ==
  /\ m.session = Session
  /\ OnReady(m) \/ OnTranscript(m) \/ OnAcknowledged(m) \/ OnReply(m)
  /\ now' = now

(* A message no branch takes changes nothing; the caller decides to fail.  *)
Receive(m) ==
  \/ Tick
  \/ /\ ~expired /\ m.session = Session
     /\ OnReady(m) \/ OnTranscript(m) \/ OnAcknowledged(m) \/ OnReply(m)
     /\ now' = now

Ack ==
  /\ state = "acknowledging" /\ ~ackSent
  /\ ackSent' = TRUE
  /\ UNCHANGED <<state, ask_vars, captures, deadline, now>>

Adjust ==
  /\ state = "adjust"
  /\ state' = "ready_b"
  /\ UNCHANGED <<ask_vars, captures, deadline, ackSent, now>>

(* Bug: a cancel also replaces complete.                                   *)
BugCancelComplete ==
  /\ Enter("cancelled", 0)
  /\ UNCHANGED <<ask_vars, captures, ackSent, now>>

(* Cancel replaces every state but complete, other terminal states too.    *)
Cancel ==
  /\ state # "complete"
  /\ Enter("cancelled", 0)
  /\ UNCHANGED <<ask_vars, captures, ackSent, now>>

Disconnect ==
  /\ ~terminal
  /\ Enter("offline", 0)
  /\ UNCHANGED <<ask_vars, captures, ackSent, now>>

Fail ==
  /\ ~terminal
  /\ Enter("incomplete", 0)
  /\ UNCHANGED <<ask_vars, captures, ackSent, now>>

(* Time matters only against an armed deadline, so the clock stops when    *)
(* none is armed and need not run past one.                                *)
Advance ==
  /\ now < deadline
  /\ now' = now + 1
  /\ UNCHANGED <<state, ask_vars, captures, deadline, ackSent>>

-----------------------------------------------------------------------------
(* What a host, or a network that delays and misroutes, may put on the wire. *)
Replies(ds) ==
  [type : {"guidance", "comparison"}, session : Sessions, key : {"r1", "r2"},
   deadline : ds, ids : {SubSeq(captureIds, 1, n) : n \in {0, count}},
   levels : {SubSeq(levels, 1, n) : n \in {0, count}},
   comparison : {"none", "measured", "inconclusive"}]

Messages ==
  [type : {"ready"}, session : Sessions, speech : BOOLEAN, voice : BOOLEAN]
    \cup [type : {"transcript"}, session : Sessions, key : Ids,
          status : {"heard", "empty", "failed"}]
    \cup [type : {"acknowledged"}, session : Sessions, key : {"r1", "r2"},
          state : {"adjust", "complete"}]
    \cup Replies({deadline, deadline + 1})

Next ==
  \/ Ask \/ StartCapture \/ StartQuestion \/ AwaitRepeat \/ Turn \/ Ack \/ Adjust
  \/ Cancel \/ Disconnect \/ Fail \/ Tick \/ Advance
  \/ \E key \in Ids : QuestionRecorded(key)
  \/ \E accepted \in BOOLEAN : ConfirmQuestion(accepted)
  \/ \E c \in Captures : Captured(c) \/ CapturedNoMemory(c)
  \/ \E m \in Messages : Receive(m)

Spec == Init /\ [][Next]_vars

(* Every wait of the media task polls with tick(now), and time passes.     *)
FairSpec == Spec /\ WF_vars(Tick) /\ WF_vars(Advance)

-----------------------------------------------------------------------------
(* Every variable has its type; the budget of questions is never exceeded. *)
TypeOK ==
  /\ state \in States
  /\ speech \in BOOLEAN /\ voice \in BOOLEAN
  /\ questions \in 0..MaxQuestions
  /\ questionId \in Ids \cup {None}
  /\ transcript \in Ids \cup {None} /\ question \in Ids \cup {None}
  /\ status \in {"none", "heard", "empty", "failed"}
  /\ captures \in Seq(Captures)
  /\ deadline \in Nat /\ now \in Nat
  /\ ackSent \in BOOLEAN

(* A deadline is armed exactly while the device waits for the host.  One   *)
(* missing would hang the session; one left behind would fail a person who *)
(* is reading, walking or holding still.                                   *)
DeadlineArmed == (deadline # 0) <=> (state \in TimedStates)

(* How many captures each state may hold: guidance needs A, the comparison *)
(* needs at least A and B, and no fourth capture exists.  This is what     *)
(* makes the request "r1"/"r2" chosen by count_ the right one.             *)
PhaseCount ==
  /\ state \in {"idle", "connecting", "ready_a", "asking", "transcribing",
                "confirming", "recording_a"} => count = 0
  /\ state \in {"adjust", "ready_b", "recording_b"} => count = 1
  /\ state \in {"return_a", "recording_repeat"} => count = 2
  /\ state \in {"uploading", "waiting", "acknowledging"} => count \in 1..3
  /\ state = "complete" => count \in 2..3
  /\ count <= 3

(* The held captures can be told apart and were acquired one after the     *)
(* other, so the comparison joins distinct, ordered evidence.              *)
EvidenceOrdered ==
  \A i, j \in 1..count : i < j =>
    /\ captures[i].id # captures[j].id
    /\ captures[i].window[2] <= captures[j].window[1]

(* The words offered for Use or Retry are those of the question just       *)
(* asked, never of an earlier one whose transcript came late.              *)
OfferedTranscriptIsCurrent ==
  state = "confirming" => transcript = questionId /\ status = "heard"

(* Nothing after Record A changes the question the evidence is judged by.  *)
QuestionSettled == [][count > 0 => question' = question /\ questions' = questions]_vars

(* "Late or stale replies can't advance a terminal state" (planning/       *)
(* guided-ab-protocol.md:16): a finished session never runs again, and a   *)
(* complete one keeps its captures and its state.                          *)
TerminalIsFinal ==
  [][terminal => /\ state' \in TerminalStates
                 /\ state = "complete" => state' = state
                 /\ captures' = captures]_vars

(* Past its deadline a session can only end.  await_repeat, the one method *)
(* that leaves a timed state without a tick, is the exception: the walk    *)
(* back to A starts even if the last poll was a moment too early.          *)
NoLateAdvance ==
  [][expired /\ state' # state =>
       state' \in {"incomplete", "cancelled", "offline", "return_a"}]_vars

(* A wait for the host always ends: with a reply, or by its deadline.      *)
WaitsEnd == state \in TimedStates ~> state \notin TimedStates

=============================================================================
