---------------------- MODULE InvestigationProtocolProofs ----------------------
(***************************************************************************)
(* What the reducer guarantees for every number of questions, every set of *)
(* ids and timestamps and every choice of budgets.                         *)
(***************************************************************************)
EXTENDS InvestigationProtocol, TLAPS

(* A question is being recorded only while the budget still has room: what *)
(* TypeOK needs to be inductive, since question_recorded counts without    *)
(* looking at the budget start_question checked.                           *)
AskingWithinBudget == state = "asking" => questions < MaxQuestions

(* The inductive invariant.  Its parts lean on each other: PhaseCount says *)
(* how many captures an acknowledgement speaks of, TypeOK that a window    *)
(* ends after it starts, which carries EvidenceOrdered over an append.     *)
IInv ==
  /\ TypeOK
  /\ AskingWithinBudget
  /\ DeadlineArmed
  /\ PhaseCount
  /\ EvidenceOrdered
  /\ OfferedTranscriptIsCurrent

-----------------------------------------------------------------------------
(* A capture the reducer accepts keeps the evidence distinct and ordered,  *)
(* and there are never more than three (captured).                         *)
LEMMA AcceptedCapture ==
  ASSUME TypeOK, EvidenceOrdered, NEW c \in Captures, Acceptable(c),
         captures' = Append(captures, c)
  PROVE  /\ captures' \in Seq(Captures)
         /\ count' = count + 1 /\ count' \in 1..3
         /\ EvidenceOrdered'
<1>1. count \in Nat /\ count < 3
  BY DEF TypeOK, Acceptable, count
<1>2. captures' \in Seq(Captures) /\ count' = count + 1
  BY DEF TypeOK, count
<1>3. /\ \A i \in 1..count : captures'[i] = captures[i]
      /\ captures'[count + 1] = c
  BY <1>1 DEF TypeOK, count
<1>4. \A i \in 1..count : /\ captures[i].id \in Ids
                          /\ captures[i].window[1] \in Nat
                          /\ captures[i].window[2] \in Nat
                          /\ captures[i].window[1] < captures[i].window[2]
  <2> SUFFICES ASSUME NEW i \in 1..count
               PROVE  captures[i] \in Captures
    BY ProtocolConstants DEF Captures, Windows
  <2> QED BY <1>1 DEF TypeOK, count
<1>5. c.window[1] \in Nat
  BY ProtocolConstants DEF Captures, Windows
<1>6. ASSUME NEW i \in 1..count
      PROVE  captures[i].window[2] <= c.window[1] /\ captures[i].id # c.id
  <2>1. captures[i].window[2] <= captures[count].window[2]
    <3>1. CASE i = count
      BY <3>1, <1>4
    <3>2. CASE i < count
      BY <3>2, <1>1, <1>4 DEF EvidenceOrdered
    <3> QED BY <3>1, <3>2, <1>1
  <2>2. captures[count].window[2] <= c.window[1]
    BY <1>1 DEF Acceptable
  <2>3. captures[i].id # c.id
    BY DEF Acceptable
  <2> QED BY <2>1, <2>2, <2>3, <1>1, <1>4, <1>5
<1>7. EvidenceOrdered'
  <2> SUFFICES ASSUME NEW i \in 1..count', NEW j \in 1..count', i < j
               PROVE  /\ captures'[i].id # captures'[j].id
                      /\ captures'[i].window[2] <= captures'[j].window[1]
    BY DEF EvidenceOrdered
  <2>1. CASE j = count + 1
    BY <2>1, <1>1, <1>2, <1>3, <1>6
  <2>2. CASE j # count + 1
    <3>1. i \in 1..count /\ j \in 1..count
      BY <2>2, <1>1, <1>2
    <3> QED BY <3>1, <1>3 DEF EvidenceOrdered
  <2> QED BY <2>1, <2>2
<1> QED BY <1>1, <1>2, <1>7

(* The steps that touch no capture keep what is said of the captures.      *)
LEMMA SameCaptures ==
  ASSUME EvidenceOrdered, UNCHANGED captures
  PROVE  EvidenceOrdered' /\ count' = count
BY DEF EvidenceOrdered, count

-----------------------------------------------------------------------------
LEMMA InitIInv == Init => IInv
<1> SUFFICES ASSUME Init PROVE IInv
  OBVIOUS
<1>1. count = 0
  BY DEF Init, count
<1>2. TypeOK
  <2>1. captures \in Seq(Captures) /\ questions \in 0..MaxQuestions
    BY ProtocolConstants DEF Init
  <2> QED BY <2>1 DEF Init, TypeOK, States
<1> QED BY <1>1, <1>2
     DEF Init, IInv, AskingWithinBudget, DeadlineArmed, PhaseCount, EvidenceOrdered,
         OfferedTranscriptIsCurrent, TimedStates

(* Starting, ending and abandoning: the methods that only move the state.  *)
LEMMA ControlStep ==
  ASSUME IInv, \/ Ask \/ StartCapture \/ StartQuestion \/ AwaitRepeat \/ Tick \/ Ack
               \/ Adjust \/ Cancel \/ Disconnect \/ Fail \/ Advance
  PROVE  IInv'
<1>1. EvidenceOrdered' /\ count' = count /\ UNCHANGED <<ask_vars, captures>>
  BY SameCaptures DEF IInv, Ask, StartCapture, StartQuestion, AwaitRepeat, Tick, Ack,
     Adjust, Cancel, Disconnect, Fail, Advance
<1>2. now' \in Nat /\ ackSent' \in BOOLEAN
  <2>1. now' \in Nat
    BY DEF IInv, TypeOK, Ask, StartCapture, StartQuestion, AwaitRepeat, Tick, Ack,
       Adjust, Cancel, Disconnect, Fail, Advance
  <2>2. ackSent' \in BOOLEAN
    BY Zenon DEF IInv, TypeOK, Ask, StartCapture, StartQuestion, AwaitRepeat, Tick, Ack,
       Adjust, Cancel, Disconnect, Fail, Advance
  <2> QED BY <2>1, <2>2
<1>3. state' \in States /\ deadline' \in Nat
  BY ProtocolConstants
     DEF IInv, TypeOK, Ask, StartCapture, StartQuestion, AwaitRepeat, Tick, Ack, Adjust,
         Cancel, Disconnect, Fail, Advance, Enter, States, RecordingStates, TimedStates,
         TerminalStates
<1>4. DeadlineArmed'
  BY ProtocolConstants
     DEF IInv, TypeOK, DeadlineArmed, Ask, StartCapture, StartQuestion, AwaitRepeat, Tick,
         Ack, Adjust, Cancel, Disconnect, Fail, Advance, Enter, TimedStates
<1>5. PhaseCount'
  BY <1>1
     DEF IInv, PhaseCount, Ask, StartCapture, StartQuestion, AwaitRepeat, Tick, Ack,
         Adjust, Cancel, Disconnect, Fail, Advance, Enter
<1>6. AskingWithinBudget' /\ OfferedTranscriptIsCurrent'
  BY <1>1
     DEF IInv, AskingWithinBudget, OfferedTranscriptIsCurrent, ask_vars, Ask, StartCapture,
         StartQuestion, AwaitRepeat, Tick, Ack, Adjust, Cancel, Disconnect, Fail, Advance,
         Enter
<1>7. TypeOK'
  BY <1>1, <1>2, <1>3 DEF IInv, TypeOK, ask_vars
<1> QED BY <1>1, <1>4, <1>5, <1>6, <1>7 DEF IInv

(* The spoken question: recorded, then used or discarded.                  *)
LEMMA QuestionStep ==
  ASSUME IInv,
         \/ \E key \in Ids : QuestionRecorded(key)
         \/ \E accepted \in BOOLEAN : ConfirmQuestion(accepted)
  PROVE  IInv'
<1>1. EvidenceOrdered' /\ count' = count
  BY SameCaptures DEF IInv, QuestionRecorded, ConfirmQuestion
<1>2. TypeOK'
  BY ProtocolConstants
     DEF IInv, TypeOK, AskingWithinBudget, QuestionRecorded, ConfirmQuestion, Enter, States,
         TimedStates
<1>3. DeadlineArmed' /\ PhaseCount'
  BY <1>1, ProtocolConstants
     DEF IInv, TypeOK, DeadlineArmed, PhaseCount, QuestionRecorded, ConfirmQuestion, Enter,
         TimedStates
<1>4. AskingWithinBudget' /\ OfferedTranscriptIsCurrent'
  BY DEF AskingWithinBudget, OfferedTranscriptIsCurrent, QuestionRecorded, ConfirmQuestion,
         Enter
<1> QED BY <1>1, <1>2, <1>3, <1>4 DEF IInv

LEMMA CaptureStep ==
  ASSUME IInv, NEW c \in Captures, Captured(c) \/ CapturedNoMemory(c)
  PROVE  IInv'
<1>1. CASE Captured(c)
  <2>1. /\ captures' \in Seq(Captures)
        /\ count' = count + 1 /\ count' \in 1..3
        /\ EvidenceOrdered'
    BY <1>1, AcceptedCapture DEF IInv, Captured
  <2>2. TypeOK'
    BY <1>1, <2>1, ProtocolConstants
       DEF IInv, TypeOK, Captured, Enter, ask_vars, States, TimedStates
  <2>3. DeadlineArmed' /\ PhaseCount'
    BY <1>1, <2>1, ProtocolConstants
       DEF IInv, TypeOK, DeadlineArmed, PhaseCount, Captured, Enter, TimedStates
  <2>4. AskingWithinBudget' /\ OfferedTranscriptIsCurrent'
    BY <1>1 DEF AskingWithinBudget, OfferedTranscriptIsCurrent, Captured, Enter
  <2> QED BY <2>1, <2>2, <2>3, <2>4 DEF IInv
<1>2. CASE CapturedNoMemory(c)
  <2>1. EvidenceOrdered' /\ count' = count
    BY <1>2, SameCaptures DEF IInv, CapturedNoMemory
  <2>2. TypeOK'
    BY <1>2 DEF IInv, TypeOK, CapturedNoMemory, Enter, ask_vars, States, TerminalStates
  <2> QED BY <1>2, <2>1, <2>2
       DEF IInv, DeadlineArmed, PhaseCount, AskingWithinBudget,
           OfferedTranscriptIsCurrent, CapturedNoMemory, Enter, TimedStates
<1> QED BY <1>1, <1>2

LEMMA TurnStep == ASSUME IInv, Turn PROVE IInv'
<1>1. CASE Tick
  BY <1>1, ControlStep
<1>2. CASE ~Tick
  <2>1. EvidenceOrdered' /\ count' = count
    BY <1>2, SameCaptures DEF IInv, Turn
  <2>2. TypeOK'
    BY <1>2, ProtocolConstants DEF IInv, TypeOK, Turn, Enter, ask_vars, States, TimedStates
  <2> QED BY <1>2, <2>1, <2>2, ProtocolConstants
       DEF IInv, TypeOK, DeadlineArmed, PhaseCount, AskingWithinBudget,
           OfferedTranscriptIsCurrent, Turn, Enter, TimedStates
<1> QED BY <1>1, <1>2

LEMMA ReceiveStep ==
  ASSUME IInv, NEW m \in Messages, Receive(m)
  PROVE  IInv'
<1>1. CASE Tick
  BY <1>1, ControlStep
<1>2. CASE OnReady(m) /\ now' = now
  <2>1. m.speech \in BOOLEAN /\ m.voice \in BOOLEAN
    BY <1>2 DEF OnReady, Messages, Replies
  <2>2. EvidenceOrdered' /\ count' = count
    BY <1>2, SameCaptures DEF IInv, OnReady
  <2> QED BY <1>2, <2>1, <2>2
       DEF IInv, TypeOK, DeadlineArmed, PhaseCount, AskingWithinBudget,
           OfferedTranscriptIsCurrent, OnReady, Enter, States, TimedStates
<1>3. CASE OnTranscript(m) /\ now' = now
  <2>1. m.key \in Ids /\ m.status \in {"heard", "empty", "failed"}
    BY <1>3 DEF OnTranscript, Messages, Replies
  <2>2. EvidenceOrdered' /\ count' = count
    BY <1>3, SameCaptures DEF IInv, OnTranscript
  <2>3. TypeOK'
    BY <1>3, <2>1 DEF IInv, TypeOK, OnTranscript, Enter, States, TimedStates
  <2> QED BY <1>3, <2>2, <2>3
       DEF IInv, DeadlineArmed, PhaseCount, AskingWithinBudget,
           OfferedTranscriptIsCurrent, OnTranscript, Enter, TimedStates
<1>4. CASE OnAcknowledged(m) /\ now' = now
  <2>1. EvidenceOrdered' /\ count' = count
    BY <1>4, SameCaptures DEF IInv, OnAcknowledged
  <2>2. TypeOK'
    BY <1>4 DEF IInv, TypeOK, OnAcknowledged, Enter, ask_vars, States, TerminalStates
  <2> QED BY <1>4, <2>1, <2>2
       DEF IInv, DeadlineArmed, PhaseCount, AskingWithinBudget,
           OfferedTranscriptIsCurrent, OnAcknowledged, Enter, TimedStates
<1>5. CASE OnReply(m) /\ now' = now
  <2>1. EvidenceOrdered' /\ count' = count
    BY <1>5, SameCaptures DEF IInv, OnReply
  <2>2. TypeOK'
    BY <1>5 DEF IInv, TypeOK, OnReply, ask_vars, States, TimedStates
  <2> QED BY <1>5, <2>1, <2>2
       DEF IInv, DeadlineArmed, PhaseCount, AskingWithinBudget,
           OfferedTranscriptIsCurrent, OnReply, TimedStates
<1> QED BY <1>1, <1>2, <1>3, <1>4, <1>5 DEF Receive

LEMMA NextIInv == IInv /\ [Next]_vars => IInv'
<1> SUFFICES ASSUME IInv, [Next]_vars PROVE IInv'
  OBVIOUS
<1>1. CASE \/ Ask \/ StartCapture \/ StartQuestion \/ AwaitRepeat \/ Ack \/ Adjust
           \/ Cancel \/ Disconnect \/ Fail \/ Tick \/ Advance
  BY <1>1, ControlStep
<1>2. CASE Turn
  BY <1>2, TurnStep
<1>3. CASE \/ \E key \in Ids : QuestionRecorded(key)
           \/ \E accepted \in BOOLEAN : ConfirmQuestion(accepted)
  BY <1>3, QuestionStep
<1>4. ASSUME NEW c \in Captures, Captured(c) \/ CapturedNoMemory(c) PROVE IInv'
  BY <1>4, CaptureStep
<1>5. ASSUME NEW m \in Messages, Receive(m) PROVE IInv'
  BY <1>5, ReceiveStep
<1>6. CASE UNCHANGED vars
  <2>1. EvidenceOrdered' /\ count' = count
    BY <1>6, SameCaptures DEF IInv, vars
  <2> QED BY <1>6, <2>1
       DEF IInv, vars, ask_vars, TypeOK, DeadlineArmed, PhaseCount, AskingWithinBudget,
           OfferedTranscriptIsCurrent
<1> QED BY <1>1, <1>2, <1>3, <1>4, <1>5, <1>6 DEF Next

LEMMA Inductive == Spec => []IInv
<1>1. IInv /\ [Next]_vars => IInv'
  BY NextIInv
<1> QED BY <1>1, InitIInv, PTL DEF Spec

-----------------------------------------------------------------------------
(* The reducer's variables keep their types; in particular the question    *)
(* budget of start_question is never exceeded.                             *)
THEOREM TypeCorrect == Spec => []TypeOK
BY Inductive, PTL DEF IInv

(* The device waits for the host under a deadline, and only then.          *)
THEOREM DeadlineDiscipline == Spec => []DeadlineArmed
BY Inductive, PTL DEF IInv

(* Guidance is about one capture and a comparison about two or three.      *)
THEOREM CapturesPerPhase == Spec => []PhaseCount
BY Inductive, PTL DEF IInv

(* Captures are distinct and were acquired one after the other.            *)
THEOREM EvidenceIsOrdered == Spec => []EvidenceOrdered
BY Inductive, PTL DEF IInv

(* The person confirms the transcript of the question just asked.          *)
THEOREM OfferedTranscript == Spec => []OfferedTranscriptIsCurrent
BY Inductive, PTL DEF IInv

-----------------------------------------------------------------------------
(* Once there is a capture no method touches the question: asking starts   *)
(* from ready_a, transcripts and confirmations belong to it, and PhaseCount *)
(* puts all four states before the first capture.                          *)
THEOREM QuestionIsSettled == Spec => QuestionSettled
<1>1. ASSUME IInv, [Next]_vars
      PROVE  [count > 0 => question' = question /\ questions' = questions]_vars
  <2> SUFFICES ASSUME Next, count > 0
               PROVE  question' = question /\ questions' = questions
    BY <1>1
  <2>1. state \notin {"idle", "connecting", "ready_a", "asking", "transcribing", "confirming"}
    BY <1>1 DEF IInv, PhaseCount
  <2>2. ASSUME NEW key \in Ids, QuestionRecorded(key) PROVE FALSE
    BY <2>1, <2>2 DEF QuestionRecorded
  <2>3. ASSUME NEW accepted \in BOOLEAN, ConfirmQuestion(accepted) PROVE FALSE
    BY <2>1, <2>3 DEF ConfirmQuestion
  <2>4. ASSUME NEW c \in Captures, Captured(c) \/ CapturedNoMemory(c)
        PROVE  question' = question /\ questions' = questions
    BY <2>4 DEF Captured, CapturedNoMemory, ask_vars
  <2>5. ASSUME NEW m \in Messages, Receive(m)
        PROVE  question' = question /\ questions' = questions
    BY <2>1, <2>5
       DEF Receive, Tick, OnReady, OnTranscript, OnAcknowledged, OnReply, ask_vars
  <2>6. CASE \/ Ask \/ StartCapture \/ StartQuestion \/ AwaitRepeat \/ Turn \/ Ack \/ Adjust
             \/ Cancel \/ Disconnect \/ Fail \/ Tick \/ Advance
    BY <2>6
       DEF Ask, StartCapture, StartQuestion, AwaitRepeat, Turn, Ack, Adjust, Cancel,
           Disconnect, Fail, Tick, Advance, ask_vars
  <2> QED BY <2>2, <2>3, <2>4, <2>5, <2>6 DEF Next
<1> QED BY <1>1, Inductive, PTL DEF Spec, QuestionSettled

(* A finished session stays finished; a complete one stays as it is.       *)
THEOREM TerminalStatesAreFinal == Spec => TerminalIsFinal
<1>1. ASSUME IInv, [Next]_vars
      PROVE  [terminal => /\ state' \in TerminalStates
                          /\ state = "complete" => state' = state
                          /\ captures' = captures]_vars
  <2> DEFINE Kept == /\ state' \in TerminalStates
                     /\ state = "complete" => state' = state
                     /\ captures' = captures
  <2> SUFFICES ASSUME Next, terminal PROVE Kept
    BY <1>1
  <2>1. state \in TerminalStates /\ ~expired
    BY DEF terminal, expired
  <2>2. ASSUME NEW c \in Captures, Captured(c) \/ CapturedNoMemory(c) PROVE FALSE
    BY <2>1, <2>2 DEF Captured, CapturedNoMemory, Acceptable, TerminalStates, RecordingStates
  <2>3. ASSUME NEW m \in Messages, Receive(m) PROVE FALSE
    BY <2>1, <2>3
       DEF Receive, Tick, OnReady, OnTranscript, OnAcknowledged, OnReply, TerminalStates
  <2>4. CASE \/ \E key \in Ids : QuestionRecorded(key)
             \/ \E accepted \in BOOLEAN : ConfirmQuestion(accepted)
    BY <2>1, <2>4 DEF QuestionRecorded, ConfirmQuestion, TerminalStates
  <2>5. CASE \/ Ask \/ StartCapture \/ StartQuestion \/ AwaitRepeat \/ Turn \/ Ack \/ Adjust
             \/ Disconnect \/ Fail \/ Tick
    BY <2>1, <2>5
       DEF Ask, StartCapture, StartQuestion, AwaitRepeat, Turn, Ack, Adjust, Disconnect,
           Fail, Tick, terminal, TerminalStates
  <2>6. CASE Cancel
    BY <2>6 DEF Cancel, Enter, TerminalStates
  <2>7. CASE Advance
    BY <2>1, <2>7 DEF Advance
  <2> QED BY <2>2, <2>3, <2>4, <2>5, <2>6, <2>7 DEF Next
<1> QED BY <1>1, Inductive, PTL DEF Spec, TerminalIsFinal

(* After the deadline the only ways on are the end of the session and the  *)
(* walk back to A.                                                         *)
THEOREM LateIsTooLate == Spec => NoLateAdvance
<1>1. ASSUME IInv, [Next]_vars
      PROVE  [expired /\ state' # state =>
                state' \in {"incomplete", "cancelled", "offline", "return_a"}]_vars
  <2> DEFINE Ends == state' \in {"incomplete", "cancelled", "offline", "return_a"}
  <2> SUFFICES ASSUME Next, expired, state' # state PROVE Ends
    BY <1>1
  <2>1. state \in TimedStates
    BY <1>1 DEF IInv, DeadlineArmed, expired
  <2>2. ASSUME NEW c \in Captures, Captured(c) \/ CapturedNoMemory(c) PROVE Ends
    BY <2>1, <2>2
       DEF Captured, CapturedNoMemory, Acceptable, Enter, TimedStates, RecordingStates
  <2>3. ASSUME NEW m \in Messages, Receive(m) PROVE Ends
    BY <2>3 DEF Receive, Tick, Enter
  <2>4. CASE \/ \E key \in Ids : QuestionRecorded(key)
             \/ \E accepted \in BOOLEAN : ConfirmQuestion(accepted)
    BY <2>1, <2>4 DEF QuestionRecorded, ConfirmQuestion, TimedStates
  <2>5. CASE \/ Ask \/ StartCapture \/ StartQuestion \/ Ack \/ Adjust \/ Advance
    BY <2>1, <2>5 DEF Ask, StartCapture, StartQuestion, Ack, Adjust, Advance, TimedStates
  <2>6. CASE AwaitRepeat \/ Turn \/ Cancel \/ Disconnect \/ Fail \/ Tick
    BY <2>6 DEF AwaitRepeat, Turn, Cancel, Disconnect, Fail, Tick, Enter
  <2> QED BY <2>2, <2>3, <2>4, <2>5, <2>6 DEF Next
<1> QED BY <1>1, Inductive, PTL DEF Spec, NoLateAdvance
=============================================================================
