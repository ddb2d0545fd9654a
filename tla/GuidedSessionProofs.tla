------------------------- MODULE GuidedSessionProofs -------------------------
(***************************************************************************)
(* The guided session, for any number of questions and speech chunks.      *)
(***************************************************************************)
EXTENDS Integers, GuidedSession, FiniteSetTheorems, TLAPS

-----------------------------------------------------------------------------
(* Only the last frame can be cut short, and then nothing can be sent;     *)
(* before the connection is made nothing can be sent either.               *)
LastIsTorn ==
  /\ toHost \in Seq({toHost[i] : i \in DOMAIN toHost})
  /\ pc \in {"begin", "connect"} => broken
  /\ \A i \in 1..Len(toHost) : toHost[i] = Torn => i = Len(toHost) /\ broken

(* Append, for a sequence of anything.                                     *)
LEMMA Appended ==
  ASSUME NEW m, toHost \in Seq({toHost[i] : i \in DOMAIN toHost}), toHost' = Append(toHost, m)
  PROVE  /\ toHost' \in Seq({toHost'[i] : i \in DOMAIN toHost'})
         /\ Len(toHost) \in Nat /\ Len(toHost') = Len(toHost) + 1
         /\ toHost'[Len(toHost')] = m
         /\ \A i \in 1..Len(toHost) : toHost'[i] = toHost[i]
<1> DEFINE S == {toHost[i] : i \in DOMAIN toHost} \cup {m}
<1>1. toHost \in Seq(S) /\ m \in S
  OBVIOUS
<1> HIDE DEF S
<1>2. toHost' \in Seq(S) /\ Len(toHost') = Len(toHost) + 1 /\ Len(toHost) \in Nat
  BY <1>1
<1>3. toHost'[Len(toHost')] = m /\ \A i \in 1..Len(toHost) : toHost'[i] = toHost[i]
  BY <1>1, <1>2
<1>4. DOMAIN toHost' = 1..Len(toHost')
  BY <1>2
<1>5. toHost' \in Seq({toHost'[i] : i \in DOMAIN toHost'})
  BY <1>2, <1>4
<1> QED BY <1>2, <1>3, <1>5

(* A whole frame goes out only while nothing was cut short.                *)
LEMMA SentIsWhole ==
  ASSUME LastIsTorn, NEW m, m # Torn, NEW next, next \notin {"begin", "connect"}, Sent(m, next)
  PROVE  LastIsTorn'
<1>1. CASE toHost' = toHost
  BY <1>1 DEF Sent, LastIsTorn
<1>2. CASE toHost' = Append(toHost, m)
  <2>1. ~broken /\ broken' = broken /\ pc' = next
    BY DEF Sent, Writable
  <2>2. /\ toHost' \in Seq({toHost'[i] : i \in DOMAIN toHost'})
        /\ Len(toHost) \in Nat /\ Len(toHost') = Len(toHost) + 1
        /\ toHost'[Len(toHost')] = m
        /\ \A i \in 1..Len(toHost) : toHost'[i] = toHost[i]
    BY <1>2, Appended DEF LastIsTorn
  <2>3. \A i \in 1..Len(toHost') : toHost'[i] # Torn
    BY <2>1, <2>2 DEF LastIsTorn
  <2> QED BY <2>1, <2>2, <2>3 DEF LastIsTorn
<1> QED BY <1>1, <1>2 DEF Sent

(* And a frame is cut short only once.                                     *)
LEMMA CutIsLast ==
  ASSUME LastIsTorn, NEW next, next \notin {"begin", "connect"}, CutShort(next)
  PROVE  LastIsTorn'
<1>1. CASE toHost' = toHost
  BY <1>1 DEF CutShort, LastIsTorn
<1>2. CASE ~broken /\ toHost' = Append(toHost, Torn)
  <2>1. /\ toHost' \in Seq({toHost'[i] : i \in DOMAIN toHost'})
        /\ Len(toHost) \in Nat /\ Len(toHost') = Len(toHost) + 1
        /\ \A i \in 1..Len(toHost) : toHost'[i] = toHost[i]
    BY <1>2, Appended DEF LastIsTorn
  <2>2. \A i \in 1..Len(toHost) : toHost[i] # Torn
    BY <1>2 DEF LastIsTorn
  <2>3. \A i \in 1..Len(toHost') : toHost'[i] = Torn => i = Len(toHost')
    BY <2>1, <2>2
  <2> QED BY <2>1, <2>3 DEF LastIsTorn, CutShort
<1> QED BY <1>1, <1>2 DEF CutShort

(* The tail of a sequence.                                                 *)
LEMMA TailOf ==
  ASSUME NEW S, NEW s \in Seq(S), s # <<>>
  PROVE  /\ Tail(s) \in Seq(S) /\ Len(s) \in Nat /\ Len(Tail(s)) \in Nat
         /\ Len(s) = Len(Tail(s)) + 1
         /\ \A i \in 1..Len(Tail(s)) : Tail(s)[i] = s[i + 1] /\ i + 1 \in 1..Len(s)
OBVIOUS

(* A sequence is one over its own elements.                                *)
LEMMA OwnElements ==
  ASSUME NEW S, NEW s \in Seq(S)
  PROVE  s \in Seq({s[i] : i \in DOMAIN s})
OBVIOUS

(* The Mac takes frames from the front.                                    *)
LEMMA ReadIsFirst ==
  ASSUME LastIsTorn, toHost # <<>>, toHost' = Tail(toHost), UNCHANGED <<pc, broken>>
  PROVE  LastIsTorn'
<1> DEFINE S == {toHost[i] : i \in DOMAIN toHost}
<1>1. toHost \in Seq(S)
  BY DEF LastIsTorn
<1> HIDE DEF S
<1>2. /\ toHost' \in Seq(S) /\ Len(toHost) = Len(toHost') + 1 /\ Len(toHost') \in Nat
      /\ \A i \in 1..Len(toHost') : toHost'[i] = toHost[i + 1] /\ i + 1 \in 1..Len(toHost)
  BY <1>1, TailOf
<1>3. toHost' \in Seq({toHost'[i] : i \in DOMAIN toHost'})
  <2>1. \A t \in Seq(S) : t \in Seq({t[i] : i \in DOMAIN t})
    BY OwnElements
  <2>2. toHost' \in Seq(S)
    BY <1>2
  <2> QED BY <2>1, <2>2
<1>4. ASSUME NEW i \in 1..Len(toHost'), toHost'[i] = Torn PROVE i = Len(toHost') /\ broken
  <2>1. i + 1 = Len(toHost') + 1 /\ broken
    BY <1>2, <1>4 DEF LastIsTorn
  <2> QED BY <2>1, <1>2
<1> QED BY <1>3, <1>4 DEF LastIsTorn

(* Steps that send nothing.                                                *)
LEMMA NothingSent ==
  ASSUME LastIsTorn, UNCHANGED <<toHost, broken>>, pc' \notin {"begin", "connect"} \/ pc' = pc
  PROVE  LastIsTorn'
BY DEF LastIsTorn

(* Every step keeps it.                                                    *)
LEMMA WholeStep ==
  ASSUME LastIsTorn, [Next]_vars
  PROVE  LastIsTorn'
<1> USE DEF socket_vars, Torn, Lost
<1>1. CASE Stop \/ PollError \/ DeviceFails
  BY <1>1, NothingSent DEF Stop, PollError, DeviceFails
<1>2. CASE Begin
  BY <1>2 DEF Begin, LastIsTorn
<1>3. CASE Connect
  <2>1. CASE broken' = FALSE /\ toHost' = <<[type |-> "hello"]>> /\ pc' = "hello"
    BY <2>1 DEF LastIsTorn
  <2>2. CASE toHost' \in {<<>>, <<Torn>>} /\ UNCHANGED broken /\ pc' = "end"
    <3>1. broken' /\ pc' \notin {"begin", "connect"}
      BY <1>3, <2>2 DEF LastIsTorn, Connect
    <3>2. CASE toHost' = <<>>
      BY <3>1, <3>2 DEF LastIsTorn
    <3>3. CASE toHost' = <<Torn>>
      <4>1. toHost' \in Seq({toHost'[i] : i \in DOMAIN toHost'}) /\ Len(toHost') = 1
        BY <3>3
      <4> QED BY <3>1, <4>1 DEF LastIsTorn
    <3> QED BY <2>2, <3>2, <3>3
  <2> QED BY <1>3, <2>1, <2>2 DEF Connect
<1>4. CASE Prompt \/ Act \/ AskQuestion \/ StopListening \/ QuestionRecorded
  BY <1>4, NothingSent DEF Prompt, Act, AskQuestion, StopListening, QuestionRecorded
<1>5. CASE TellConfirm
  BY <1>5, SentIsWhole, CutIsLast DEF TellConfirm
<1>6. CASE UploadQuestion
  BY <1>6, SentIsWhole, CutIsLast DEF UploadQuestion
<1>7. CASE Record \/ Recorded \/ WalkBack
  BY <1>7, NothingSent DEF Record, Recorded, WalkBack
<1>8. CASE Upload
  BY <1>8, SentIsWhole, CutIsLast DEF Upload
<1>9. CASE Turn
  BY <1>9, SentIsWhole, CutIsLast DEF Turn
<1>10. CASE Ack
  BY <1>10, SentIsWhole, CutIsLast DEF Ack
<1>11. CASE Guidance \/ Spoken \/ ConfirmB
  BY <1>11, NothingSent DEF Guidance, Spoken, ConfirmB
<1>12. CASE Speak
  BY <1>12, SentIsWhole, CutIsLast DEF Speak
<1>13. CASE StopSpeech
  BY <1>13, SentIsWhole, CutIsLast, NothingSent DEF StopSpeech, TellStop
<1>14. CASE SpeechOver \/ Final \/ LastSpeech \/ EndSpeech \/ Finish
  BY <1>14, NothingSent DEF SpeechOver, Final, LastSpeech, EndSpeech, Finish
<1>15. CASE End
  <2>1. CASE toHost' = toHost
    BY <1>15, <2>1, NothingSent DEF End
  <2>2. CASE Writable(TRUE) /\ toHost' = Append(toHost, [type |-> "cancel"])
    <3>1. ~broken /\ broken' = broken /\ pc' = "final"
      BY <1>15, <2>2 DEF End, Writable
    <3>2. /\ toHost' \in Seq({toHost'[i] : i \in DOMAIN toHost'})
          /\ Len(toHost) \in Nat /\ Len(toHost') = Len(toHost) + 1
          /\ toHost'[Len(toHost')] = [type |-> "cancel"]
          /\ \A i \in 1..Len(toHost) : toHost'[i] = toHost[i]
      BY <2>2, Appended DEF LastIsTorn
    <3>3. \A i \in 1..Len(toHost') : toHost'[i] # Torn
      BY <3>1, <3>2 DEF LastIsTorn
    <3> QED BY <3>1, <3>2, <3>3 DEF LastIsTorn
  <2> QED BY <1>15, <2>1, <2>2 DEF End
<1>16. CASE Read
  BY <1>16, NothingSent DEF Read, OnReply, OnCaptureAck, OnSpeech, Unexpected
<1>17. CASE Tap
  BY <1>17, NothingSent DEF Tap, Cancel, Choose
<1>18. CASE HostReads
  BY <1>18, ReadIsFirst DEF HostReads, device_vars
<1>19. CASE HostStep
  BY <1>19, NothingSent DEF HostStep, device_vars
<1>20. CASE Advance
  BY <1>20, NothingSent DEF Advance
<1>21. CASE UNCHANGED vars
  BY <1>21, NothingSent DEF vars
<1> QED BY <1>1, <1>2, <1>3, <1>4, <1>5, <1>6, <1>7, <1>8, <1>9, <1>10, <1>11, <1>12, <1>13,
           <1>14, <1>15, <1>16, <1>17, <1>18, <1>19, <1>20, <1>21 DEF Next, MediaTask

(* complete_write() and send_cancel(): once a frame was cut short the      *)
(* connection carries nothing more, so the Mac never takes the bytes of a  *)
(* later frame for the rest of it.                                         *)
THEOREM NothingAfterTorn == Spec => []FramesAreWhole
<1>1. Init => LastIsTorn
  BY DEF Init, LastIsTorn
<1>2. LastIsTorn => FramesAreWhole
  BY DEF LastIsTorn, FramesAreWhole
<1>3. LastIsTorn /\ [Next]_vars => LastIsTorn'
  BY WholeStep
<1> QED BY <1>1, <1>2, <1>3, PTL DEF Spec

-----------------------------------------------------------------------------
(* The voice is heard after the guidance or over the outcome.              *)
Voiced == {"speak", "speech", "spoken"}

(* Where a tap is taken the screen asks what the reducer is at, and a tap  *)
(* in the queue was made on that screen.  A replay asks nothing.           *)
ScreenInv ==
  /\ replay => /\ actions = None /\ buttons = {}
               /\ pc \notin {"choose", "use", "discard", "ask", "confirm_b"}
  /\ pc \in {"guidance"} \cup Voiced => state = "adjust" \/ D!terminal
  /\ pc = "last" => state = "complete"
  /\ pc \in {"choose", "confirm_b"} \/ (pc \in Voiced /\ state = "adjust") =>
       prompt = state /\ (actions = None \/ actions.prompt = prompt)

(* The methods of the reducer that only end it.                            *)
LEMMA EndsOnly ==
  /\ Disconnect => D!terminal' /\ (D!terminal => state' = state)
  /\ Fail => D!terminal' /\ (D!terminal => state' = state)
  /\ D!Cancel => state' = "cancelled" /\ D!terminal'
BY DEF Disconnect, Fail, d_vars, D!terminal, D!TerminalStates, D!Disconnect, D!Fail, D!Cancel,
       D!Enter

(* The media task, the taps and the Mac keep it.                           *)
LEMMA ScreenStep ==
  ASSUME ScreenInv, [Next]_vars
  PROVE  ScreenInv'
<1> USE DEF ScreenInv, Voiced, screen_vars, ui_vars
<1> USE DEF D!terminal, D!TerminalStates
<1>1. CASE Stop
  BY <1>1, EndsOnly DEF Stop, Checked
<1>2. CASE PollError
  BY <1>2, EndsOnly DEF PollError, Polling
<1>3. CASE DeviceFails
  BY <1>3, EndsOnly DEF DeviceFails
<1>4. CASE Begin \/ Connect
  BY <1>4 DEF Begin, Connect
<1>5. CASE Prompt
  BY <1>5 DEF Prompt, Show, d_vars
<1>6. CASE Act
  BY <1>6 DEF Act
<1>7. CASE TellConfirm
  BY <1>7 DEF TellConfirm, Sent, Lost, CutShort
<1>8. CASE AskQuestion
  BY <1>8 DEF AskQuestion, Show
<1>9. CASE StopListening \/ QuestionRecorded
  BY <1>9 DEF StopListening, QuestionRecorded, Show
<1>10. CASE UploadQuestion
  BY <1>10 DEF UploadQuestion, Sent, Lost, CutShort
<1>11. CASE Record \/ Recorded \/ WalkBack
  BY <1>11 DEF Record, Recorded, WalkBack, Show
<1>12. CASE Upload
  BY <1>12 DEF Upload, Sent, Lost, CutShort
<1>13. CASE Turn
  BY <1>13 DEF Turn, Sent, Lost, CutShort, Show
<1>14. CASE Ack
  BY <1>14 DEF Ack, Sent, Lost, CutShort
<1>15. CASE Guidance
  BY <1>15, EndsOnly DEF Guidance, Show, d_vars
<1>16. CASE Spoken
  BY <1>16 DEF Spoken, Active, d_vars
<1>17. CASE ConfirmB
  BY <1>17 DEF ConfirmB
<1>18. CASE Speak
  BY <1>18, EndsOnly DEF Speak, Sent, CutShort, d_vars
<1>19. CASE StopSpeech
  BY <1>19, EndsOnly DEF StopSpeech, TapStops, TellStop, Sent, CutShort, d_vars
<1>20. CASE SpeechOver
  BY <1>20 DEF SpeechOver, d_vars
<1>21. CASE End
  BY <1>21 DEF End
<1>22. CASE Final
  BY <1>22 DEF Final, d_vars
<1>23. CASE LastSpeech
  BY <1>23 DEF LastSpeech, d_vars
<1>24. CASE EndSpeech \/ Finish
  BY <1>24 DEF EndSpeech, Finish
<1>25. CASE Read
  <2>1. UNCHANGED <<replay, ui_vars>>
    BY <1>25 DEF Read
  <2>2. CASE OnReply(Message) /\ pc # "acked"
    BY <2>1, <2>2 DEF OnReply
  <2>3. CASE OnReply(Message) /\ pc = "acked" /\ Expected(Message)
    <3>1. state' \in {"adjust", "complete", "incomplete"}
      BY <2>3 DEF OnReply, Expected, FromHost, D!Receive, D!Tick, D!OnReady, D!OnTranscript,
                  D!OnAcknowledged, D!OnReply, D!Enter
    <3> QED BY <2>1, <2>3, <3>1 DEF OnReply
  <2>4. CASE OnCaptureAck(Message)
    BY <2>1, <2>4 DEF OnCaptureAck
  <2>5. CASE OnSpeech(Message)
    BY <2>1, <2>5 DEF OnSpeech, d_vars
  <2>6. CASE Unexpected /\ pc # "speech"
    BY <2>1, <2>6 DEF Unexpected
  <2>7. CASE Unexpected /\ pc = "speech"
    BY <2>1, <2>7, EndsOnly DEF Unexpected
  <2> QED BY <1>25, <2>2, <2>3, <2>4, <2>5, <2>6, <2>7 DEF Read
<1>26. CASE Cancel
  BY <1>26 DEF Cancel, d_vars
<1>27. ASSUME NEW value \in {1, 2}, Choose(value) PROVE ScreenInv'
  BY <1>27 DEF Choose, d_vars
<1>28. CASE HostReads \/ HostStep
  BY <1>28 DEF HostReads, HostStep, device_vars, d_vars
<1>29. CASE Advance
  BY <1>29 DEF Advance, d_vars
<1>30. CASE UNCHANGED vars
  BY <1>30 DEF vars, d_vars
<1> QED BY <1>1, <1>2, <1>3, <1>4, <1>5, <1>6, <1>7, <1>8, <1>9, <1>10, <1>11, <1>12, <1>13,
           <1>14, <1>15, <1>16, <1>17, <1>18, <1>19, <1>20, <1>21, <1>22, <1>23, <1>24, <1>25,
           <1>26, <1>27, <1>28, <1>29, <1>30 DEF Next, MediaTask, Tap

(* show() empties the queue whenever it offers a choice, so wait_action()  *)
(* and the voice never take a tap made on an earlier screen.               *)
THEOREM TapsAreCurrent == Spec => []TapIsForThePrompt
<1>1. Init => ScreenInv
  BY DEF Init, ScreenInv, Voiced
<1>2. ScreenInv => TapIsForThePrompt
  BY DEF ScreenInv, Voiced, TapIsForThePrompt
<1>3. ScreenInv /\ [Next]_vars => ScreenInv'
  BY ScreenStep
<1> QED BY <1>1, <1>2, <1>3, PTL DEF Spec

-----------------------------------------------------------------------------
(* Where a run is over, and what the reducer says at the other places.     *)
Over == {"end", "final", "finish", "done"}

StageInv ==
  /\ pc = "reply" => state = "waiting"
  /\ pc \in Over => D!terminal
  /\ finalSpeech \/ pc = "last" => state = "complete"
  /\ pc = "use" => question = questionId
  /\ pc \in {"begin", "connect"} => toHost = <<>>
  /\ state = "confirming" => transcript = questionId

(* Runs do not come back from their end, and a wait for a reply is left    *)
(* with it or for good.                                                    *)
Onward ==
  /\ D!terminal => D!terminal'
  /\ pc = "reply" => pc' \in {"reply", "ack"} \/ (pc' \in Over /\ state' # "complete")
  /\ pc \in Over /\ state # "complete" => pc' \in Over /\ state' # "complete"

(* Each step keeps the stages, and goes on.                                *)
LEMMA StageStep ==
  ASSUME StageInv, [Next]_vars
  PROVE  StageInv' /\ Onward
<1> USE DEF StageInv, Over, Onward, ui_vars, stream_vars
<1> USE DEF D!terminal, D!TerminalStates, D!Enter, D!ask_vars, d_vars
<1>1. CASE Stop
  BY <1>1 DEF Stop, Checked, Active, D!Cancel, D!Tick
<1>2. CASE PollError
  BY <1>2 DEF PollError, Polling, Disconnect, D!Disconnect
<1>3. CASE DeviceFails
  BY <1>3 DEF DeviceFails, Fail, D!Fail
<1>4. CASE Begin
  BY <1>4 DEF Begin, D!Ask, socket_vars
<1>5. CASE Connect
  BY <1>5 DEF Connect, Disconnect, D!Disconnect
<1>6. CASE Prompt
  BY <1>6 DEF Prompt
<1>7. CASE Act
  BY <1>7 DEF Act, D!ConfirmQuestion
<1>8. CASE TellConfirm
  BY <1>8 DEF TellConfirm, Sent, Lost, CutShort, Disconnect, D!Disconnect
<1>9. CASE AskQuestion
  BY <1>9 DEF AskQuestion, D!StartQuestion
<1>10. CASE StopListening
  BY <1>10 DEF StopListening
<1>11. CASE QuestionRecorded
  BY <1>11 DEF QuestionRecorded, D!QuestionRecorded
<1>12. CASE UploadQuestion
  BY <1>12 DEF UploadQuestion, Sent, Lost, CutShort, Fail, D!Fail
<1>13. CASE Record
  BY <1>13 DEF Record, D!StartCapture
<1>14. CASE Recorded
  BY <1>14 DEF Recorded, D!Captured, D!Acceptable, D!RecordingStates
<1>15. CASE Upload
  BY <1>15 DEF Upload, Sent, Lost, CutShort, Fail, D!Fail
<1>16. CASE WalkBack
  BY <1>16 DEF WalkBack, D!AwaitRepeat
<1>17. CASE Turn
  BY <1>17 DEF Turn, Active, Sent, Lost, CutShort, Disconnect, D!Disconnect, D!Turn, D!Tick
<1>18. CASE Ack
  BY <1>18 DEF Ack, Sent, Lost, CutShort, Disconnect, D!Disconnect, D!Ack
<1>19. CASE Guidance
  BY <1>19 DEF Guidance, D!Cancel
<1>20. CASE Spoken
  BY <1>20 DEF Spoken, Active, D!Adjust
<1>21. CASE ConfirmB
  BY <1>21 DEF ConfirmB, D!Adjust
<1>22. CASE Speak
  BY <1>22 DEF Speak, Sent, CutShort, Disconnect, D!Disconnect
<1>23. CASE StopSpeech
  BY <1>23 DEF StopSpeech, TellStop, Sent, CutShort, Disconnect, D!Disconnect
<1>24. CASE SpeechOver
  BY <1>24 DEF SpeechOver
<1>25. CASE End
  BY <1>25 DEF End, Fail, D!Fail, D!Cancel
<1>26. CASE Final
  BY <1>26 DEF Final, D!Cancel
<1>27. CASE LastSpeech \/ EndSpeech \/ Finish
  BY <1>27 DEF LastSpeech, EndSpeech, Finish
<1>28. CASE Read
  <2>1. UNCHANGED <<toHost, finalSpeech>> /\ pc \in Polling /\ (pc # "speech" => Active)
    BY <1>28 DEF Read, socket_vars
  <2>2. CASE OnReply(Message) /\ Expected(Message)
    <3>1. CASE D!OnReady(FromHost(Message))
      BY <2>1, <2>2, <3>1 DEF OnReply, D!OnReady
    <3>2. CASE D!OnTranscript(FromHost(Message))
      BY <2>1, <2>2, <3>2 DEF OnReply, D!OnTranscript
    <3>3. CASE D!OnAcknowledged(FromHost(Message))
      BY <2>1, <2>2, <3>3 DEF OnReply, D!OnAcknowledged, Expected
    <3>4. CASE D!OnReply(FromHost(Message))
      BY <2>1, <2>2, <3>4 DEF OnReply, D!OnReply
    <3> QED BY <2>1, <2>2, <3>1, <3>2, <3>3, <3>4 DEF OnReply, D!Receive, D!Tick, Active
  <2>3. CASE OnCaptureAck(Message)
    BY <2>1, <2>3 DEF OnCaptureAck
  <2>4. CASE OnSpeech(Message)
    BY <2>1, <2>4 DEF OnSpeech
  <2>5. CASE Unexpected
    BY <2>1, <2>5 DEF Unexpected, Fail, D!Fail
  <2> QED BY <1>28, <2>2, <2>3, <2>4, <2>5 DEF Read
<1>29. CASE Cancel
  BY <1>29 DEF Cancel, socket_vars
<1>30. ASSUME NEW value \in {1, 2}, Choose(value) PROVE StageInv' /\ Onward
  BY <1>30 DEF Choose, socket_vars
<1>31. CASE HostReads \/ HostStep
  BY <1>31 DEF HostReads, HostStep, device_vars
<1>32. CASE Advance \/ UNCHANGED vars
  BY <1>32 DEF Advance, vars, socket_vars
<1> QED BY <1>1, <1>2, <1>3, <1>4, <1>5, <1>6, <1>7, <1>8, <1>9, <1>10, <1>11, <1>12, <1>13,
           <1>14, <1>15, <1>16, <1>17, <1>18, <1>19, <1>20, <1>21, <1>22, <1>23, <1>24, <1>25,
           <1>26, <1>27, <1>28, <1>29, <1>31, <1>32, <1>30 DEF Next, MediaTask, Tap

-----------------------------------------------------------------------------
(* What the Mac does, as the evidence sees it: most steps leave the        *)
(* request and the operator's words alone and send no reply.               *)
TurnReplies == {"guidance", "comparison"}

Quiet ==
  /\ UNCHANGED <<asked, operatorQuestion>> /\ (task' = "respond" => task = "respond")
  /\ (link' => link)
  /\ outbox' = outbox \/ \E m : outbox' = Append(outbox, m) /\ m.type \notin TurnReplies

(* A turn becomes the request, of the words the Mac has then.              *)
TakesTurn ==
  /\ Head(toHost).type = "turn" /\ task' = "respond"
  /\ asked' = [ids |-> ids, question |-> operatorQuestion, deadline |-> Head(toHost).deadline]
  /\ UNCHANGED <<operatorQuestion, link, outbox>>

(* Use makes the transcript the operator's words.                          *)
TakesConfirm ==
  /\ Head(toHost).type = "question_confirm"
  /\ operatorQuestion' = IF Head(toHost).accepted THEN Head(toHost).key ELSE operatorQuestion
  /\ UNCHANGED <<asked, task, link, outbox>>

(* The one step that replies.                                              *)
Replies ==
  /\ task = "respond" /\ link /\ UNCHANGED <<asked, operatorQuestion, link>>
  /\ task' = "none" /\ H!Reply.type \in TurnReplies /\ outbox' = Append(outbox, H!Reply)

(* What the Mac does with a message.                                       *)
LEMMA MacTakes ==
  ASSUME HostReads, Head(toHost).type # "analysis_explain"
  PROVE  \/ TakesTurn \/ TakesConfirm
         \/ Quiet /\ (~link' \/ Head(toHost).type \notin {"turn", "question_confirm"})
<1> DEFINE m == Head(toHost)
<1> USE DEF Quiet, TurnReplies, H!ask_vars, H!reply_vars, H!wire_vars, H!Silent
<1>0. H!Receive(m)
  BY DEF HostReads
<1>1. CASE H!Refuse(m.type)
  BY <1>1 DEF H!Refuse
<1>2. CASE H!OnTurn(m)
  BY <1>2 DEF H!OnTurn, H!MayTurn, TakesTurn
<1>3. CASE H!OnConfirm(m)
  BY <1>3 DEF H!OnConfirm, H!MayConfirm, TakesConfirm
<1>4. CASE H!OnHello(m)
  BY <1>4 DEF H!OnHello, H!MayHello, H!Answer, H!Ready
<1>5. CASE H!OnCancel(m)
  BY <1>5 DEF H!OnCancel, H!MayCancel, H!Answer, H!Stopped
<1>6. CASE H!OnQuestionStart(m)
  BY <1>6 DEF H!OnQuestionStart, H!MayAsk
<1>7. CASE H!OnQuestionEnd(m)
  BY <1>7 DEF H!OnQuestionEnd, H!MayEndQuestion
<1>8. CASE H!OnCaptureStart(m)
  BY <1>8 DEF H!OnCaptureStart, H!MayCapture, H!Answer
<1>9. CASE H!OnCaptureEnd(m)
  BY <1>9 DEF H!OnCaptureEnd, H!MayEndCapture, H!Answer
<1>10. CASE H!OnAck(m)
  BY <1>10 DEF H!OnAck, H!MayAck, H!Answer
<1>11. CASE H!OnSpeak(m)
  BY <1>11 DEF H!OnSpeak, H!MaySpeak
<1>12. CASE H!OnSpeechStop(m)
  BY <1>12 DEF H!OnSpeechStop, H!MayStop
<1>13. CASE H!OnExplain(m)
  BY <1>13 DEF H!OnExplain, H!MayExplain
<1> QED BY <1>0, <1>1, <1>2, <1>3, <1>4, <1>5, <1>6, <1>7, <1>8, <1>9, <1>10, <1>11, <1>12, <1>13
     DEF H!Receive, H!Handle

(* And on its own.                                                         *)
LEMMA MacActs ==
  ASSUME HostStep
  PROVE  Quiet \/ Replies
<1> USE DEF Quiet, TurnReplies, H!ask_vars, H!reply_vars, H!wire_vars, H!speech_vars, H!Say,
        H!Failed, H!Incomplete
<1>1. CASE H!IdleTimeout
  BY <1>1 DEF H!IdleTimeout, H!Refuse
<1>2. CASE H!Disconnected
  BY <1>2 DEF H!Disconnected
<1>3. CASE H!Close
  BY <1>3 DEF H!Close, H!Stopped
<1>4. CASE H!Drop
  BY <1>4 DEF H!Drop
<1>5. CASE H!Respond
  BY <1>5 DEF H!Respond, Replies, H!Reply
<1>6. CASE H!RespondFails
  BY <1>6 DEF H!RespondFails
<1>7. CASE H!RespondDropped
  BY <1>7 DEF H!RespondDropped
<1>8. CASE H!Explain
  BY <1>8 DEF H!Explain
<1>9. CASE H!ExplainFails
  BY <1>9 DEF H!ExplainFails
<1>10. ASSUME NEW how \in {"heard", "empty", "failed"}, H!Transcribe(how) PROVE Quiet
  BY <1>10 DEF H!Transcribe
<1>11. CASE H!SpeechStart
  BY <1>11 DEF H!SpeechStart, H!SpeechSend
<1>12. CASE H!SpeechChunk
  BY <1>12 DEF H!SpeechChunk, H!SpeechSend
<1>13. CASE H!SpeechDies
  BY <1>13 DEF H!SpeechDies
<1>14. ASSUME NEW how \in {"complete", "failed"}, H!SpeechEnd(how) PROVE Quiet
  BY <1>14 DEF H!SpeechEnd, H!SpeechSend
<1> QED BY <1>1, <1>2, <1>3, <1>4, <1>5, <1>6, <1>7, <1>8, <1>9, <1>10, <1>11, <1>12, <1>13, <1>14
     DEF HostStep, H!TaskStep

-----------------------------------------------------------------------------
(* Turns and accepted transcripts on their way to the Mac, and replies on  *)
(* their way back.                                                         *)
Turns == {i \in 1..Len(toHost) : toHost[i].type = "turn"}
Accepted == {i \in 1..Len(toHost) : toHost[i].type = "question_confirm" /\ toHost[i].accepted}
Unread == {i \in received + 1..Len(outbox) : outbox[i].type \in TurnReplies}

Channel ==
  /\ toHost \in Seq({toHost[i] : i \in DOMAIN toHost})
  /\ outbox \in Seq({outbox[i] : i \in DOMAIN outbox}) /\ received \in Nat
  /\ \A i \in 1..Len(toHost) : toHost[i].type # "analysis_explain"

(* A request is in one place only: on its way, at the Mac, or answered;    *)
(* and then the device waits for it or has given up.                       *)
OneRequest ==
  /\ Turns # {} \/ task = "respond" \/ Unread # {} =>
       pc = "reply" \/ (pc \in Over /\ state # "complete")
  /\ \A i, j \in Turns : i = j
  /\ Turns # {} => task # "respond" /\ Unread = {}
  /\ task = "respond" => Unread = {}
  /\ \A i, j \in Unread : i = j

(* The Mac has the operator's words, or will have them before the turn.    *)
Synced ==
  \/ Accepted = {} /\ operatorQuestion = question
  \/ \E i \in Accepted : toHost[i].key = question /\ \A j \in Accepted : j <= i

WordsInv ==
  /\ \A i \in Turns, j \in Accepted : j < i
  /\ link /\ pc # "use" /\ ~D!terminal => Synced

(* The request at the Mac is of the device's words, and so is its reply.   *)
ReplyInv ==
  /\ \A i \in Unread : outbox[i].ids = asked.ids
  /\ pc = "reply" /\ ((task = "respond" /\ link) \/ Unread # {}) => asked.question = question

EvidenceInv == Channel /\ OneRequest /\ WordsInv /\ ReplyInv /\ SameEvidence

(* The reducer has a reply.                                                *)
Settled == {"acknowledging", "adjust", "complete"}

(* Steps of the device that have no part in it.                            *)
SendsOther ==
  \/ toHost' = toHost
  \/ \E m : /\ toHost' = Append(toHost, m)
            /\ m.type \notin {"turn", "question_confirm", "analysis_explain"}
            /\ m.type = "torn" => m = Torn

Calm ==
  /\ UNCHANGED <<asked, operatorQuestion, task, outbox, received, question>>
  /\ (link' => link) /\ SendsOther
  /\ (pc = "use" => pc' = "use")
  /\ (pc' = "reply" => pc = "reply") /\ (pc = "reply" => pc' # "ack")
  /\ state' \in Settled => state \in Settled /\ captures' = captures

(* What a step says of the queue to the Mac: it adds a message, or the Mac *)
(* takes the first one.                                                    *)
LEMMA Queued ==
  ASSUME Channel, NEW m, toHost' = Append(toHost, m), m.type # "analysis_explain",
         UNCHANGED <<outbox, received>>
  PROVE  /\ Channel'
         /\ Len(toHost) \in Nat /\ Len(toHost') = Len(toHost) + 1 /\ toHost'[Len(toHost) + 1] = m
         /\ \A i \in 1..Len(toHost) : toHost'[i] = toHost[i]
<1>1. /\ toHost' \in Seq({toHost'[i] : i \in DOMAIN toHost'})
      /\ Len(toHost) \in Nat /\ Len(toHost') = Len(toHost) + 1
      /\ toHost'[Len(toHost')] = m
      /\ \A i \in 1..Len(toHost) : toHost'[i] = toHost[i]
  BY Appended DEF Channel
<1>2. \A i \in 1..Len(toHost') : i \in 1..Len(toHost) \/ i = Len(toHost')
  BY <1>1
<1> QED BY <1>1, <1>2 DEF Channel

(* A message that is no turn and no Use changes neither set.               *)
LEMMA OtherMessage ==
  ASSUME Channel, NEW m, toHost' = Append(toHost, m), UNCHANGED <<outbox, received>>,
         m.type \notin {"turn", "analysis_explain"}, m.type = "question_confirm" => ~m.accepted
  PROVE  /\ Channel' /\ Turns' = Turns /\ Accepted' = Accepted
         /\ \A i \in Accepted : toHost'[i] = toHost[i]
<1>1. /\ Channel'
      /\ Len(toHost) \in Nat /\ Len(toHost') = Len(toHost) + 1 /\ toHost'[Len(toHost) + 1] = m
      /\ \A i \in 1..Len(toHost) : toHost'[i] = toHost[i]
  BY Queued
<1>2. 1..Len(toHost') = 1..Len(toHost) \cup {Len(toHost) + 1}
  BY <1>1
<1>3. Turns' = Turns
  BY <1>1, <1>2 DEF Turns
<1>4. Accepted' = Accepted
  BY <1>1, <1>2 DEF Accepted
<1> QED BY <1>1, <1>3, <1>4 DEF Accepted

(* Such a step keeps the invariant.                                        *)
LEMMA CalmKeeps ==
  ASSUME EvidenceInv, StageInv, StageInv', Onward, Calm
  PROVE  EvidenceInv'
<1>1. /\ Channel' /\ Turns' = Turns /\ Accepted' = Accepted
      /\ \A i \in Accepted : toHost'[i] = toHost[i]
  <2>1. CASE toHost' = toHost
    BY <2>1 DEF Calm, EvidenceInv, Channel, Turns, Accepted
  <2>2. ASSUME NEW m, toHost' = Append(toHost, m),
               m.type \notin {"turn", "question_confirm", "analysis_explain"}
        PROVE  /\ Channel' /\ Turns' = Turns /\ Accepted' = Accepted
               /\ \A i \in Accepted : toHost'[i] = toHost[i]
    BY <2>2, OtherMessage DEF Calm, EvidenceInv
  <2>3. \/ toHost' = toHost
        \/ \E m : /\ toHost' = Append(toHost, m)
                 /\ m.type \notin {"turn", "question_confirm", "analysis_explain"}
    <3>1. SendsOther
      BY DEF Calm
    <3> QED BY <3>1 DEF SendsOther
  <2> QED BY <2>1, <2>2, <2>3
<1>2. Unread' = Unread
  BY DEF Calm, Unread
<1>3. OneRequest'
  BY <1>1, <1>2 DEF EvidenceInv, OneRequest, Calm, Onward
<1>4. WordsInv'
  <2>1. Synced => Synced'
    BY <1>1 DEF Synced, Calm
  <2> QED BY <1>1, <2>1 DEF EvidenceInv, WordsInv, Calm, Onward
<1>5. ReplyInv'
  BY <1>2 DEF EvidenceInv, ReplyInv, Calm, Unread
<1>6. SameEvidence'
  BY DEF EvidenceInv, SameEvidence, Calm, Settled, D!captureIds, D!count
<1> QED BY <1>1, <1>3, <1>4, <1>5, <1>6 DEF EvidenceInv

(* Sending, or failing to, what is neither a turn nor a confirmation.      *)
LEMMA SendingOther ==
  /\ \A m, next : m.type \notin {"turn", "question_confirm", "analysis_explain", "torn"} /\ Sent(m, next) =>
       SendsOther /\ link' = link /\ pc' = next
  /\ \A next : CutShort(next) => SendsOther /\ link' = link /\ pc' = next
<1>1. \A m : m.type \notin {"turn", "question_confirm", "analysis_explain", "torn"} =>
              (toHost' = Append(toHost, m) => SendsOther)
  BY DEF SendsOther
<1>2. Torn.type = "torn" /\ (toHost' = Append(toHost, Torn) => SendsOther)
  BY DEF SendsOther, Torn
<1>3. toHost' = toHost => SendsOther
  BY DEF SendsOther
<1> QED BY <1>1, <1>2, <1>3 DEF Sent, CutShort

(* The steps that have no part in it.                                      *)
LEMMA CalmSteps ==
  ASSUME StageInv, ScreenInv,
         \/ Stop \/ PollError \/ DeviceFails \/ Begin \/ Prompt \/ AskQuestion \/ StopListening
         \/ QuestionRecorded \/ UploadQuestion \/ Record \/ Recorded \/ Upload \/ WalkBack \/ Ack
         \/ Guidance \/ Spoken \/ ConfirmB \/ Speak \/ StopSpeech \/ SpeechOver \/ End \/ Final
         \/ LastSpeech \/ EndSpeech \/ Finish \/ Tap \/ Advance \/ UNCHANGED vars
  PROVE  Calm
<1> USE DEF Calm, Settled, d_vars, h_vars, socket_vars, D!Enter, D!ask_vars
<1>1. CASE Stop
  BY <1>1 DEF SendsOther, Stop, Checked, Active, D!Cancel, D!Tick
<1>2. CASE PollError
  BY <1>2 DEF SendsOther, PollError, Polling, Disconnect, D!Disconnect
<1>3. CASE DeviceFails
  BY <1>3 DEF SendsOther, DeviceFails, Fail, D!Fail
<1>4. CASE Begin
  BY <1>4 DEF SendsOther, Begin, D!Ask
<1>5. CASE Prompt
  BY <1>5 DEF SendsOther, Prompt
<1>6. CASE AskQuestion \/ StopListening
  BY <1>6 DEF SendsOther, AskQuestion, StopListening, D!StartQuestion
<1>7. CASE QuestionRecorded
  BY <1>7 DEF SendsOther, QuestionRecorded, D!QuestionRecorded
<1>8. CASE UploadQuestion
  BY <1>8, SendingOther DEF UploadQuestion, Lost, Fail, D!Fail
<1>9. CASE Record
  BY <1>9 DEF SendsOther, Record, D!StartCapture
<1>10. CASE Recorded
  BY <1>10 DEF SendsOther, Recorded, D!Captured
<1>11. CASE Upload
  BY <1>11, SendingOther DEF Upload, Lost, Fail, D!Fail
<1>12. CASE WalkBack
  BY <1>12 DEF SendsOther, WalkBack, D!AwaitRepeat
<1>13. CASE Ack
  BY <1>13, SendingOther DEF Ack, Lost, Disconnect, D!Disconnect, D!Ack
<1>14. CASE Guidance
  BY <1>14 DEF SendsOther, Guidance, D!Cancel
<1>15. CASE Spoken \/ ConfirmB
  BY <1>15 DEF SendsOther, Spoken, ConfirmB, D!Adjust
<1>16. CASE Speak
  BY <1>16, SendingOther DEF Speak, Disconnect, D!Disconnect
<1>17. CASE StopSpeech
  <2>1. CASE TellStop("speech")
    <3>1. SendsOther /\ link' = link /\ pc' \in {"speech", "spoken"}
      BY <1>17, <2>1, SendingOther DEF StopSpeech, TellStop, SendsOther
    <3> QED BY <1>17, <2>1, <3>1 DEF StopSpeech, TellStop, Disconnect, D!Disconnect
  <2>2. CASE pc' = "spoken" /\ UNCHANGED <<d_vars, now, socket_vars>>
    BY <1>17, <2>2 DEF SendsOther, StopSpeech
  <2> QED BY <1>17, <2>1, <2>2 DEF StopSpeech
<1>18. CASE SpeechOver
  BY <1>18 DEF SendsOther, SpeechOver
<1>19. CASE End
  <2>1. SendsOther
    <3>1. toHost' = Append(toHost, [type |-> "cancel"]) => SendsOther
      BY DEF SendsOther
    <3> QED BY <1>19, <3>1 DEF End, SendsOther
  <2> QED BY <1>19, <2>1 DEF End, Fail, D!Fail, D!Cancel
<1>20. CASE Final
  BY <1>20 DEF SendsOther, Final, D!Cancel
<1>21. CASE LastSpeech \/ EndSpeech \/ Finish
  BY <1>21 DEF SendsOther, LastSpeech, EndSpeech, Finish
<1>22. CASE Cancel
  BY <1>22 DEF SendsOther, Cancel
<1>23. ASSUME NEW value \in {1, 2}, Choose(value) PROVE Calm
  BY <1>23 DEF SendsOther, Choose
<1>24. CASE Advance \/ UNCHANGED vars
  BY <1>24 DEF SendsOther, Advance, vars
<1> QED BY <1>1, <1>2, <1>3, <1>4, <1>5, <1>6, <1>7, <1>8, <1>9, <1>10, <1>11, <1>12, <1>13,
           <1>14, <1>15, <1>16, <1>17, <1>18, <1>19, <1>20, <1>21, <1>22, <1>23, <1>24 DEF Tap

-----------------------------------------------------------------------------
(* The device's other steps.  While no request is under way:               *)
LEMMA IdleKeeps ==
  ASSUME EvidenceInv, pc # "reply", pc \notin Over,
         UNCHANGED <<asked, task, outbox, received>>, Channel', Turns' = {}, WordsInv',
         state' \in Settled => state \in Settled /\ UNCHANGED <<captures, question>>
  PROVE  EvidenceInv'
<1>1. Turns = {} /\ task # "respond" /\ Unread = {}
  BY DEF EvidenceInv, OneRequest
<1>2. Unread' = {}
  BY <1>1 DEF Unread
<1>3. OneRequest' /\ ReplyInv'
  BY <1>1, <1>2 DEF OneRequest, ReplyInv
<1>4. SameEvidence'
  BY DEF EvidenceInv, SameEvidence, Settled, D!captureIds, D!count
<1> QED BY <1>3, <1>4 DEF EvidenceInv

(* The connection is made: the queue was empty.                            *)
LEMMA ConnectKeeps ==
  ASSUME EvidenceInv, StageInv, StageInv', Connect
  PROVE  EvidenceInv'
<1>1. toHost = <<>> /\ pc = "connect" /\ pc' \in {"hello", "end"}
  BY DEF Connect, StageInv
<1>2. /\ UNCHANGED <<asked, operatorQuestion, task, outbox, received, question>>
      /\ link' = link /\ (D!terminal => D!terminal')
      /\ state' \in Settled => state \in Settled /\ UNCHANGED captures
  BY DEF Connect, h_vars, d_vars, Disconnect, D!Disconnect, D!Enter, D!ask_vars, Settled,
     D!terminal, D!TerminalStates
<1>3. \E x \in {[type |-> "hello"], Torn} : toHost' \in {<<>>, <<x>>}
  BY DEF Connect
<1>4. PICK x \in {[type |-> "hello"], Torn} : toHost' \in {<<>>, <<x>>}
  BY <1>3
<1>5. x.type \in {"hello", "torn"}
  BY DEF Torn
<1>6. Channel' /\ Turns' = {} /\ Accepted' = {}
  <2>1. CASE toHost' = <<>>
    BY <1>2, <2>1 DEF EvidenceInv, Channel, Turns, Accepted
  <2>2. CASE toHost' = <<x>>
    <3>1. /\ toHost' \in Seq({toHost'[i] : i \in DOMAIN toHost'}) /\ Len(toHost') = 1
          /\ toHost'[1] = x
      BY <2>2
    <3> QED BY <1>2, <1>5, <3>1 DEF EvidenceInv, Channel, Turns, Accepted
  <2> QED BY <1>4, <2>1, <2>2
<1>7. Accepted = {} /\ (link /\ ~D!terminal => operatorQuestion = question)
  BY <1>1 DEF EvidenceInv, WordsInv, Synced, Accepted
<1>8. WordsInv'
  BY <1>2, <1>6, <1>7 DEF WordsInv, Synced
<1> QED BY <1>1, <1>2, <1>6, <1>8, IdleKeeps DEF Over

(* The tap on Use, Retry, Record or Ask.                                   *)
LEMMA ActKeeps ==
  ASSUME EvidenceInv, StageInv, StageInv', Onward, Act
  PROVE  EvidenceInv'
<1> USE DEF d_vars, h_vars, socket_vars
<1>1. CASE pc' # "use"
  <2>1. Calm
    BY <1>1 DEF Act, Calm, SendsOther, Settled, D!ConfirmQuestion
  <2> QED BY <2>1, CalmKeeps
<1>2. CASE pc' = "use"
  <2>1. /\ UNCHANGED <<asked, operatorQuestion, task, outbox, received, toHost>>
        /\ pc = "choose" /\ state' \notin Settled
    BY <1>2 DEF Act, Settled, D!ConfirmQuestion
  <2>2. Turns = {} /\ Turns' = {} /\ Channel'
    BY <2>1 DEF EvidenceInv, OneRequest, Over, Turns, Channel
  <2>3. WordsInv'
    BY <1>2, <2>2 DEF WordsInv
  <2> QED BY <2>1, <2>2, <2>3, IdleKeeps DEF Over
<1> QED BY <1>1, <1>2

(* The Mac is told, if it can be.                                          *)
LEMMA TellConfirmKeeps ==
  ASSUME EvidenceInv, StageInv, StageInv', Onward, TellConfirm
  PROVE  EvidenceInv'
<1> DEFINE m == [type |-> "question_confirm", key |-> questionId, accepted |-> pc = "use"]
<1>1. /\ UNCHANGED <<asked, operatorQuestion, task, outbox, received, question>>
      /\ pc \in {"use", "discard"} /\ link' = link
      /\ state' \in Settled => state \in Settled /\ UNCHANGED captures
  BY DEF TellConfirm, h_vars, d_vars, Sent, Lost, CutShort, Disconnect, D!Disconnect, D!Enter,
         D!ask_vars, Settled
<1>2. Channel /\ Turns = {}
  BY <1>1 DEF EvidenceInv, OneRequest, Over
<1>3. CASE Lost
  <2>1. D!terminal'
    BY <1>3 DEF StageInv, Over, Lost, CutShort
  <2>2. CASE toHost' = toHost
    BY <1>1, <1>2, <2>1, <2>2, IdleKeeps DEF Channel, Turns, WordsInv, Over
  <2>3. CASE toHost' = Append(toHost, Torn)
    <3>1. Torn.type = "torn"
      BY DEF Torn
    <3>2. Channel' /\ Turns' = {}
      BY <1>1, <1>2, <2>3, <3>1, OtherMessage
    <3> QED BY <1>1, <2>1, <3>2, IdleKeeps DEF WordsInv, Over
  <2> QED BY <1>3, <2>2, <2>3 DEF Lost, CutShort
<1>4. CASE ~link /\ toHost' = toHost
  BY <1>1, <1>2, <1>4, IdleKeeps DEF Channel, Turns, WordsInv, Over
<1>5. CASE toHost' = Append(toHost, m) /\ pc = "use"
  <2>1. m.type = "question_confirm" /\ m.accepted /\ m.key = question
    BY <1>5 DEF StageInv
  <2>2. /\ Channel'
        /\ Len(toHost) \in Nat /\ Len(toHost') = Len(toHost) + 1 /\ toHost'[Len(toHost) + 1] = m
        /\ \A i \in 1..Len(toHost) : toHost'[i] = toHost[i]
    BY <1>1, <1>2, <1>5, <2>1, Queued
  <2>3. 1..Len(toHost') = 1..Len(toHost) \cup {Len(toHost) + 1}
    BY <2>2
  <2>4. Turns' = {}
    BY <1>2, <2>1, <2>2, <2>3 DEF Turns
  <2>5. Accepted' = Accepted \cup {Len(toHost) + 1}
    BY <2>1, <2>2, <2>3 DEF Accepted
  <2>6. \A j \in Accepted' : j <= Len(toHost) + 1
    BY <2>2, <2>3 DEF Accepted
  <2>7. Synced'
    BY <1>1, <2>1, <2>2, <2>5, <2>6 DEF Synced
  <2> QED BY <1>1, <2>2, <2>4, <2>7, IdleKeeps DEF WordsInv, Over
<1>6. CASE toHost' = Append(toHost, m) /\ pc = "discard" /\ UNCHANGED d_vars
  <2>1. m.type = "question_confirm" /\ ~m.accepted
    BY <1>6
  <2>2. /\ Channel' /\ Turns' = {} /\ Accepted' = Accepted
        /\ \A i \in Accepted : toHost'[i] = toHost[i]
    BY <1>1, <1>2, <1>6, <2>1, OtherMessage
  <2>3. Synced => Synced'
    BY <1>1, <2>2 DEF Synced
  <2>4. WordsInv'
    BY <1>1, <1>6, <2>2, <2>3 DEF EvidenceInv, WordsInv, d_vars, D!terminal
  <2> QED BY <1>1, <2>2, <2>4, IdleKeeps DEF Over
<1> QED BY <1>1, <1>3, <1>4, <1>5, <1>6 DEF TellConfirm, Sent

(* The turn goes out, or the connection fails.                             *)
LEMMA TurnKeeps ==
  ASSUME EvidenceInv, StageInv, StageInv', Onward, Turn
  PROVE  EvidenceInv'
<1>1. CASE Lost /\ Disconnect
  <2>1. SendsOther /\ link' = link /\ pc' = "end"
    BY <1>1, SendingOther DEF Lost
  <2>2. Calm
    BY <1>1, <2>1 DEF Turn, Calm, Settled, d_vars, h_vars, Disconnect, D!Disconnect, D!Enter,
                      D!ask_vars
  <2> QED BY <2>2, CalmKeeps
<1>2. ASSUME NEW m, m.type = "turn", Sent(m, "reply"), D!Turn
      PROVE  EvidenceInv'
  <2>1. /\ UNCHANGED <<asked, operatorQuestion, task, outbox, received, question, link>>
        /\ pc = "uploaded" /\ pc' = "reply" /\ state' = "waiting" /\ ~D!terminal
    BY <1>2 DEF Turn, Active, h_vars, Sent, D!Turn, D!Tick, D!Enter, D!ask_vars
  <2>2. /\ Channel /\ Turns = {} /\ task # "respond" /\ Unread = {}
        /\ (link => Synced)
    BY <2>1 DEF EvidenceInv, OneRequest, WordsInv, Over
  <2>3. Unread' = {}
    BY <2>1, <2>2 DEF Unread
  <2>4. SameEvidence' /\ ReplyInv'
    BY <2>1, <2>2, <2>3 DEF SameEvidence, ReplyInv
  <2>5. CASE ~link /\ toHost' = toHost
    <3>1. Channel' /\ Turns' = {}
      BY <2>1, <2>2, <2>5 DEF Channel, Turns
    <3> QED BY <2>1, <2>2, <2>3, <2>4, <2>5, <3>1 DEF EvidenceInv, OneRequest, WordsInv
  <2>6. CASE toHost' = Append(toHost, m)
    <3>1. /\ Channel'
          /\ Len(toHost) \in Nat /\ Len(toHost') = Len(toHost) + 1 /\ toHost'[Len(toHost) + 1] = m
          /\ \A i \in 1..Len(toHost) : toHost'[i] = toHost[i]
      BY <1>2, <2>1, <2>2, <2>6, Queued
    <3>2. 1..Len(toHost') = 1..Len(toHost) \cup {Len(toHost) + 1}
      BY <3>1
    <3>3. Turns' = {Len(toHost) + 1}
      BY <1>2, <2>2, <3>1, <3>2 DEF Turns
    <3>4. Accepted' = Accepted /\ \A i \in Accepted : toHost'[i] = toHost[i]
      BY <1>2, <3>1, <3>2 DEF Accepted
    <3>5. Synced => Synced'
      BY <2>1, <3>4 DEF Synced
    <3>6. \A j \in Accepted' : j < Len(toHost) + 1
      BY <3>1, <3>4 DEF Accepted
    <3>7. OneRequest'
      BY <2>1, <2>2, <2>3, <3>3 DEF OneRequest
    <3>8. WordsInv'
      BY <2>1, <2>2, <3>3, <3>5, <3>6 DEF WordsInv
    <3> QED BY <2>4, <3>1, <3>7, <3>8 DEF EvidenceInv
  <2> QED BY <1>2, <2>5, <2>6 DEF Sent
<1>3. CASE ~(Lost /\ Disconnect)
  <2>1. PICK m \in {[type |-> "turn", key |-> D!request, ids |-> D!captureIds,
                     adjusted |-> D!count > 1, sent |-> now, deadline |-> deadline']} :
               D!Turn /\ Sent(m, "reply")
    BY <1>3 DEF Turn
  <2> QED BY <1>2, <2>1
<1> QED BY <1>1, <1>3

(* The device reads the Mac's next message.                                *)
LEMMA ReadKeeps ==
  ASSUME EvidenceInv, StageInv, Onward, Read
  PROVE  EvidenceInv'
<1>1. /\ UNCHANGED <<asked, operatorQuestion, task, outbox, link, toHost>>
      /\ received' = received + 1 /\ received + 1 \in 1..Len(outbox)
      /\ pc \in Polling /\ received \in Nat
  BY DEF Read, h_vars, socket_vars, EvidenceInv, Channel
<1>2. Channel' /\ Turns' = Turns /\ Accepted' = Accepted
  BY <1>1 DEF EvidenceInv, Channel, Turns, Accepted
<1>3. Unread' \subseteq Unread /\ received + 1 \notin Unread'
  BY <1>1 DEF Unread
<1>4. question' = question /\ pc' # "use"
  BY <1>1 DEF Read, OnReply, OnCaptureAck, OnSpeech, Unexpected, Fail, D!Fail, d_vars, D!Receive,
              D!Tick, D!OnReady, D!OnTranscript, D!OnAcknowledged, D!OnReply, D!ask_vars, Polling
<1>5. WordsInv'
  <2>1. Synced => Synced'
    BY <1>1, <1>2, <1>4 DEF Synced
  <2> QED BY <1>1, <1>2, <2>1 DEF EvidenceInv, WordsInv, Onward, Polling
<1>6. CASE pc = "reply" /\ pc' = "ack"
  <2>1. Expected(Message)
    BY <1>6 DEF Read, Unexpected
  <2>2. /\ Message.type \in TurnReplies /\ Message.ids = D!captureIds
    BY <1>6, <2>1 DEF Expected, TurnReplies
  <2>3. received + 1 \in Unread
    BY <1>1, <2>2 DEF Unread, Message
  <2>4. Turns = {} /\ task # "respond" /\ \A i \in Unread : i = received + 1
    BY <2>3 DEF EvidenceInv, OneRequest
  <2>5. Unread' = {}
    BY <1>3, <2>4
  <2>6. asked.ids = D!captureIds /\ asked.question = question
    BY <1>6, <2>2, <2>3 DEF EvidenceInv, ReplyInv, Message
  <2>7. captures' = captures
    BY <1>1, <1>6 DEF Read, OnReply, OnCaptureAck, OnSpeech, Unexpected, D!Receive, D!Tick,
       D!OnReady, D!OnTranscript, D!OnAcknowledged, D!OnReply
  <2>8. SameEvidence'
    BY <1>1, <1>4, <2>6, <2>7 DEF SameEvidence, D!captureIds, D!count
  <2>9. OneRequest' /\ ReplyInv'
    BY <1>1, <1>2, <2>4, <2>5 DEF OneRequest, ReplyInv
  <2> QED BY <1>2, <1>5, <2>8, <2>9 DEF EvidenceInv
<1>7. CASE ~(pc = "reply" /\ pc' = "ack")
  <2>1. OneRequest'
    BY <1>1, <1>2, <1>3, <1>7 DEF EvidenceInv, OneRequest, Onward
  <2>2. pc' = "reply" => pc = "reply"
    BY <1>1 DEF Read, OnReply, OnCaptureAck, OnSpeech, Unexpected, Polling
  <2>3. ReplyInv'
    BY <1>1, <1>3, <1>4, <2>2 DEF EvidenceInv, ReplyInv
  <2>4. state' \in Settled => state \in Settled /\ captures' = captures
    <3>1. CASE Unexpected
      BY <3>1 DEF Unexpected, Fail, D!Fail, D!Enter, d_vars, Settled
    <3>2. CASE OnReply(Message) /\ Expected(Message)
      <4>1. pc # "reply"
        BY <1>7, <3>2 DEF OnReply
      <4>2. FromHost(Message).type \notin TurnReplies
        BY <3>2, <4>1 DEF Expected, OnReply, FromHost, TurnReplies
      <4> QED BY <3>2, <4>2 DEF OnReply, D!Receive, D!Tick, D!OnReady, D!OnTranscript,
                                D!OnAcknowledged, D!OnReply, D!Enter, Settled, TurnReplies
    <3>3. CASE OnCaptureAck(Message) \/ OnSpeech(Message)
      BY <3>3 DEF OnCaptureAck, OnSpeech, d_vars
    <3> QED BY <3>1, <3>2, <3>3 DEF Read
  <2>5. SameEvidence'
    BY <1>1, <1>4, <2>4 DEF EvidenceInv, SameEvidence, Settled, D!captureIds, D!count
  <2> QED BY <1>2, <1>5, <2>1, <2>3, <2>5 DEF EvidenceInv
<1> QED BY <1>6, <1>7

-----------------------------------------------------------------------------
(* The Mac's outbox after a step without and with a reply.                 *)
LEMMA Outbox ==
  ASSUME Channel, NEW m, outbox' = Append(outbox, m), received' = received
  PROVE  /\ outbox' \in Seq({outbox'[i] : i \in DOMAIN outbox'})
         /\ m.type \notin TurnReplies => Unread' = Unread
         /\ m.type \in TurnReplies => \A i \in Unread' : i \in Unread \/ i = Len(outbox) + 1
         /\ outbox'[Len(outbox) + 1] = m
         /\ \A i \in Unread : outbox'[i] = outbox[i]
<1> DEFINE S == {outbox[i] : i \in DOMAIN outbox} \cup {m}
<1>1. outbox \in Seq(S) /\ m \in S
  BY DEF Channel
<1> HIDE DEF S
<1>2. outbox' \in Seq(S) /\ Len(outbox') = Len(outbox) + 1 /\ Len(outbox) \in Nat
  BY <1>1
<1>3. outbox'[Len(outbox) + 1] = m /\ \A i \in 1..Len(outbox) : outbox'[i] = outbox[i]
  BY <1>1
<1>4. outbox' \in Seq({outbox'[i] : i \in DOMAIN outbox'})
  BY <1>2, OwnElements
<1>5. received \in Nat
  BY DEF Channel
<1>6. \A i \in Unread' : i \in Unread \/ i = Len(outbox) + 1
  BY <1>2, <1>3, <1>5 DEF Unread
<1>7. \A i \in Unread : i \in 1..Len(outbox)
  BY <1>2, <1>5 DEF Unread
<1>8. m.type \notin TurnReplies => Unread' = Unread
  BY <1>2, <1>3, <1>5 DEF Unread
<1> QED BY <1>3, <1>4, <1>6, <1>7, <1>8

(* A quiet step leaves the replies alone.                                  *)
LEMMA QuietReplies ==
  ASSUME EvidenceInv, Quiet, received' = received
  PROVE  /\ outbox' \in Seq({outbox'[i] : i \in DOMAIN outbox'})
         /\ Unread' = Unread /\ \A i \in Unread : outbox'[i] = outbox[i]
<1>1. CASE outbox' = outbox
  BY <1>1 DEF EvidenceInv, Channel, Unread
<1>2. ASSUME NEW m, outbox' = Append(outbox, m), m.type \notin TurnReplies
      PROVE  /\ outbox' \in Seq({outbox'[i] : i \in DOMAIN outbox'})
             /\ Unread' = Unread /\ \A i \in Unread : outbox'[i] = outbox[i]
  BY <1>2, Outbox DEF EvidenceInv
<1> QED BY <1>1, <1>2 DEF Quiet

(* What the Mac does on its own.                                           *)
LEMMA ActsKeeps ==
  ASSUME EvidenceInv, HostStep
  PROVE  EvidenceInv'
<1>1. UNCHANGED <<received, toHost, state, captures, question, pc>>
  BY DEF HostStep, device_vars, d_vars
<1>2. Turns' = Turns /\ Accepted' = Accepted
  BY <1>1 DEF Turns, Accepted
<1>3. CASE Quiet
  <2>1. /\ outbox' \in Seq({outbox'[i] : i \in DOMAIN outbox'})
        /\ Unread' = Unread /\ \A i \in Unread : outbox'[i] = outbox[i]
    BY <1>1, <1>3, QuietReplies
  <2>2. Channel' /\ OneRequest'
    BY <1>1, <1>2, <1>3, <2>1 DEF EvidenceInv, Channel, OneRequest, Quiet
  <2>3. WordsInv'
    BY <1>1, <1>2, <1>3 DEF EvidenceInv, WordsInv, Quiet, Synced, D!terminal
  <2>4. ReplyInv'
    BY <1>1, <1>3, <2>1 DEF EvidenceInv, ReplyInv, Quiet
  <2>5. SameEvidence'
    BY <1>1, <1>3 DEF EvidenceInv, SameEvidence, Quiet, D!captureIds, D!count
  <2> QED BY <2>2, <2>3, <2>4, <2>5 DEF EvidenceInv
<1>4. CASE Replies
  <2>1. Unread = {} /\ Turns = {} /\ (pc = "reply" => asked.question = question)
    BY <1>4 DEF Replies, EvidenceInv, OneRequest, ReplyInv
  <2>2. H!Reply.ids = asked.ids
    BY DEF H!Reply
  <2>3. /\ outbox' \in Seq({outbox'[i] : i \in DOMAIN outbox'})
        /\ \A i \in Unread' : i = Len(outbox) + 1 /\ outbox'[i].ids = asked.ids
    BY <1>1, <1>4, <2>1, <2>2, Outbox DEF Replies, EvidenceInv
  <2>4. Channel' /\ OneRequest'
    BY <1>1, <1>2, <1>4, <2>1, <2>3 DEF EvidenceInv, Channel, OneRequest, Replies
  <2>5. WordsInv'
    BY <1>1, <1>2, <1>4 DEF EvidenceInv, WordsInv, Replies, Synced, D!terminal
  <2>6. ReplyInv'
    BY <1>1, <1>4, <2>1, <2>3 DEF ReplyInv, Replies
  <2>7. SameEvidence'
    BY <1>1, <1>4 DEF EvidenceInv, SameEvidence, Replies, D!captureIds, D!count
  <2> QED BY <2>4, <2>5, <2>6, <2>7 DEF EvidenceInv
<1> QED BY <1>3, <1>4, MacActs

(* The queue after the Mac took its first message.                         *)
LEMMA Taken ==
  ASSUME EvidenceInv, toHost # <<>>, toHost' = Tail(toHost)
  PROVE  /\ toHost' \in Seq({toHost'[i] : i \in DOMAIN toHost'})
         /\ \A i \in 1..Len(toHost') : i + 1 \in 1..Len(toHost) /\ toHost'[i] = toHost[i + 1]
         /\ \A i \in Turns' : i \in Nat /\ i + 1 \in Turns
         /\ \A i \in Accepted' : i \in Nat /\ i + 1 \in Accepted
         /\ \A i \in Accepted : i = 1 \/ (i - 1 \in Accepted' /\ toHost'[i - 1] = toHost[i])
         /\ 1 \in 1..Len(toHost) /\ Head(toHost) = toHost[1]
<1> DEFINE S == {toHost[i] : i \in DOMAIN toHost}
<1>1. toHost \in Seq(S)
  BY DEF EvidenceInv, Channel
<1> HIDE DEF S
<1>2. /\ toHost' \in Seq(S) /\ Len(toHost) = Len(toHost') + 1 /\ Len(toHost') \in Nat
      /\ \A i \in 1..Len(toHost') : toHost'[i] = toHost[i + 1] /\ i + 1 \in 1..Len(toHost)
  BY <1>1, TailOf
<1>3. toHost' \in Seq({toHost'[i] : i \in DOMAIN toHost'})
  <2>1. \A t \in Seq(S) : t \in Seq({t[i] : i \in DOMAIN t})
    BY OwnElements
  <2>2. toHost' \in Seq(S)
    BY <1>2
  <2> QED BY <2>1, <2>2
<1>4. \A i \in Turns' : i \in Nat /\ i + 1 \in Turns
  BY <1>2 DEF Turns
<1>5. \A i \in Accepted' : i \in Nat /\ i + 1 \in Accepted
  BY <1>2 DEF Accepted
<1>6. ASSUME NEW i \in Accepted, i # 1
      PROVE  i - 1 \in Accepted' /\ toHost'[i - 1] = toHost[i]
  <2>1. i - 1 \in 1..Len(toHost') /\ (i - 1) + 1 = i
    BY <1>2, <1>6 DEF Accepted
  <2>2. toHost'[i - 1] = toHost[i]
    BY <1>2, <2>1
  <2> QED BY <2>1, <2>2 DEF Accepted
<1>7. 1 \in 1..Len(toHost) /\ Head(toHost) = toHost[1]
  BY <1>1, <1>2
<1> QED BY <1>2, <1>3, <1>4, <1>5, <1>6, <1>7

(* What the Mac does with a message.                                       *)
LEMMA TakesKeeps ==
  ASSUME EvidenceInv, StageInv, HostReads
  PROVE  EvidenceInv'
<1>1. /\ UNCHANGED <<received, state, captures, question, pc>>
      /\ toHost # <<>> /\ toHost' = Tail(toHost)
  BY DEF HostReads, device_vars, d_vars
<1>2. /\ toHost' \in Seq({toHost'[i] : i \in DOMAIN toHost'})
      /\ \A i \in 1..Len(toHost') : i + 1 \in 1..Len(toHost) /\ toHost'[i] = toHost[i + 1]
      /\ \A i \in Turns' : i \in Nat /\ i + 1 \in Turns
      /\ \A i \in Accepted' : i \in Nat /\ i + 1 \in Accepted
      /\ \A i \in Accepted : i = 1 \/ (i - 1 \in Accepted' /\ toHost'[i - 1] = toHost[i])
      /\ 1 \in 1..Len(toHost) /\ Head(toHost) = toHost[1]
  BY <1>1, Taken
<1>3. \A i \in Turns', j \in Accepted' : j < i
  <2> SUFFICES ASSUME NEW i \in Turns', NEW j \in Accepted' PROVE j < i
    OBVIOUS
  <2>1. i \in Nat /\ j \in Nat /\ j + 1 < i + 1
    BY <1>2 DEF EvidenceInv, WordsInv
  <2> QED BY <2>1
<1>4. (Turns' # {} => Turns # {}) /\ \A i, j \in Turns' : i = j
  <2>1. ASSUME NEW i \in Turns', NEW j \in Turns' PROVE i = j
    <3>1. i \in Nat /\ j \in Nat /\ i + 1 = j + 1
      BY <1>2 DEF EvidenceInv, OneRequest
    <3> QED BY <3>1
  <2> QED BY <1>2, <2>1
<1>5. Channel /\ \A i \in 1..Len(toHost') : toHost'[i].type # "analysis_explain"
  BY <1>2 DEF EvidenceInv, Channel
<1>6. CASE TakesTurn
  <2>1. 1 \in Turns
    BY <1>2, <1>6 DEF TakesTurn, Turns
  <2>2. Turns' = {}
    <3> SUFFICES ASSUME NEW i \in Turns' PROVE FALSE
      OBVIOUS
    <3>1. i \in Nat /\ i + 1 = 1 /\ i + 1 \in 1..Len(toHost)
      BY <1>2, <2>1 DEF EvidenceInv, OneRequest, Turns
    <3>2. i \in 1..Len(toHost')
      BY DEF Turns
    <3> QED BY <3>1, <3>2
  <2>3. Accepted = {} /\ Accepted' = {}
    <3>1. Accepted = {}
      BY <2>1 DEF EvidenceInv, WordsInv, Accepted
    <3> QED BY <1>2, <3>1
  <2>4. Unread = {} /\ Unread' = {} /\ (pc = "reply" \/ (pc \in Over /\ state # "complete"))
    BY <1>1, <1>6, <2>1 DEF EvidenceInv, OneRequest, Unread, TakesTurn
  <2>5. pc = "reply" /\ link => operatorQuestion = question
    BY <2>3 DEF StageInv, EvidenceInv, WordsInv, Synced, D!terminal, D!TerminalStates
  <2>6. state \notin Settled
    BY <2>4 DEF StageInv, Settled, D!terminal, D!TerminalStates
  <2>7. Channel'
    BY <1>1, <1>2, <1>5, <1>6 DEF Channel, TakesTurn
  <2>8. OneRequest'
    BY <1>1, <1>6, <2>2, <2>4 DEF OneRequest, TakesTurn
  <2>9. WordsInv'
    BY <1>1, <1>3, <1>6, <2>3 DEF EvidenceInv, WordsInv, Synced, TakesTurn, D!terminal
  <2>10. ReplyInv'
    BY <1>1, <1>6, <2>4, <2>5 DEF ReplyInv, TakesTurn
  <2>11. SameEvidence'
    BY <1>1, <2>6 DEF SameEvidence, Settled
  <2> QED BY <2>7, <2>8, <2>9, <2>10, <2>11 DEF EvidenceInv
<1>7. CASE ~TakesTurn
  <2>1. TakesConfirm \/ Quiet
    BY <1>2, <1>5, <1>7, MacTakes DEF Channel
  <2>2. /\ outbox' \in Seq({outbox'[i] : i \in DOMAIN outbox'})
        /\ Unread' = Unread /\ \A i \in Unread : outbox'[i] = outbox[i]
    BY <1>1, <1>5, <2>1, QuietReplies DEF TakesConfirm, Unread, Channel
  <2>3. asked' = asked /\ (task' = "respond" => task = "respond") /\ (link' => link)
    BY <2>1 DEF TakesConfirm, Quiet
  <2>4. Channel' /\ OneRequest'
    BY <1>1, <1>2, <1>4, <1>5, <2>2, <2>3 DEF EvidenceInv, Channel, OneRequest
  <2>5. ReplyInv'
    BY <1>1, <2>2, <2>3 DEF EvidenceInv, ReplyInv
  <2>6. SameEvidence'
    BY <1>1, <2>3 DEF EvidenceInv, SameEvidence, D!captureIds, D!count
  <2>7. ASSUME link', Synced PROVE Synced'
    <3>1. CASE 1 \in Accepted
      <4>1. /\ Head(toHost).type = "question_confirm" /\ Head(toHost).accepted
            /\ Head(toHost) = toHost[1]
        BY <1>2, <3>1 DEF Accepted
      <4>2. TakesConfirm
        BY <1>2, <1>5, <1>7, <2>7, <4>1, MacTakes DEF Channel
      <4>3. PICK i \in Accepted : toHost[i].key = question /\ \A j \in Accepted : j <= i
        BY <2>7, <3>1 DEF Synced
      <4>4. CASE i = 1
        <5>1. Accepted' = {}
          <6> SUFFICES ASSUME NEW j \in Accepted' PROVE FALSE
            OBVIOUS
          <6>1. j \in Nat /\ j + 1 <= 1 /\ j \in 1..Len(toHost')
            BY <1>2, <4>3, <4>4 DEF Accepted
          <6> QED BY <6>1
        <5>2. operatorQuestion' = question
          BY <4>1, <4>2, <4>3, <4>4 DEF TakesConfirm
        <5> QED BY <1>1, <5>1, <5>2 DEF Synced
      <4>5. CASE i # 1
        <5>1. i - 1 \in Accepted' /\ toHost'[i - 1].key = question /\ i \in Nat
          BY <1>2, <4>3, <4>5 DEF Accepted
        <5>2. \A j \in Accepted' : j <= i - 1
          <6> SUFFICES ASSUME NEW j \in Accepted' PROVE j <= i - 1
            OBVIOUS
          <6>1. j \in Nat /\ j + 1 <= i
            BY <1>2, <4>3
          <6> QED BY <5>1, <6>1
        <5> QED BY <1>1, <5>1, <5>2 DEF Synced
      <4> QED BY <4>4, <4>5
    <3>2. CASE 1 \notin Accepted
      <4>1. operatorQuestion' = operatorQuestion
        <5>1. CASE Quiet
          BY <5>1 DEF Quiet
        <5>2. CASE TakesConfirm
          BY <1>2, <3>2, <5>2 DEF TakesConfirm, Accepted
        <5> QED BY <2>1, <5>1, <5>2
      <4>2. CASE Accepted = {}
        BY <1>1, <1>2, <2>7, <4>1, <4>2 DEF Synced
      <4>3. CASE Accepted # {}
        <5>1. PICK i \in Accepted : toHost[i].key = question /\ \A j \in Accepted : j <= i
          BY <2>7, <4>3 DEF Synced
        <5>2. i - 1 \in Accepted' /\ toHost'[i - 1].key = question /\ i \in Nat
          BY <1>2, <3>2, <5>1 DEF Accepted
        <5>3. \A j \in Accepted' : j <= i - 1
          <6> SUFFICES ASSUME NEW j \in Accepted' PROVE j <= i - 1
            OBVIOUS
          <6>1. j \in Nat /\ j + 1 <= i
            BY <1>2, <5>1
          <6> QED BY <5>2, <6>1
        <5> QED BY <1>1, <5>2, <5>3 DEF Synced
      <4> QED BY <4>2, <4>3
    <3> QED BY <3>1, <3>2
  <2>8. WordsInv'
    BY <1>1, <1>3, <2>3, <2>7 DEF EvidenceInv, WordsInv, D!terminal
  <2> QED BY <2>4, <2>5, <2>6, <2>8 DEF EvidenceInv
<1> QED BY <1>6, <1>7

(* The two sides together.                                                 *)
GuidedInv == ScreenInv /\ StageInv /\ EvidenceInv

(* Every step keeps it.                                                    *)
LEMMA GuidedStep ==
  ASSUME GuidedInv, [Next]_vars
  PROVE  GuidedInv'
<1>1. ScreenInv' /\ StageInv' /\ Onward
  BY ScreenStep, StageStep DEF GuidedInv
<1>2. EvidenceInv'
  BY <1>1, CalmSteps, CalmKeeps, ConnectKeeps, ActKeeps, TellConfirmKeeps, TurnKeeps, ReadKeeps,
     ActsKeeps, TakesKeeps DEF GuidedInv, Next, MediaTask
<1> QED BY <1>1, <1>2 DEF GuidedInv

(* The captures and the words of the request are the device's: a turn is   *)
(* one message, behind the confirmation it depends on, and a reply is      *)
(* taken only for the captures it names (receive(), turn(), respond()).    *)
THEOREM OneEvidence == Spec => []SameEvidence
<1>1. Init => GuidedInv
  <2> SUFFICES ASSUME Init PROVE GuidedInv
    OBVIOUS
  <2>1. ScreenInv /\ StageInv
    BY DEF Init, ScreenInv, StageInv, Voiced, Over, D!Init, D!terminal, D!TerminalStates
  <2>2. toHost = <<>> /\ outbox = <<>> /\ received = 0 /\ task = "none" /\ state = "idle"
        /\ question = None /\ operatorQuestion = None /\ pc = "begin"
    BY DEF Init, D!Init, H!Init
  <2>3. Channel /\ Turns = {} /\ Unread = {} /\ Accepted = {}
    BY <2>2 DEF Channel, Turns, Unread, Accepted
  <2>4. EvidenceInv
    BY <2>2, <2>3 DEF EvidenceInv, OneRequest, WordsInv, Synced, ReplyInv, SameEvidence
  <2> QED BY <2>1, <2>4 DEF GuidedInv
<1>2. GuidedInv /\ [Next]_vars => GuidedInv'
  BY GuidedStep
<1>3. GuidedInv => SameEvidence
  BY DEF GuidedInv, EvidenceInv
<1> QED BY <1>1, <1>2, <1>3, PTL DEF Spec

(* Captures and questions go by their names, in order, and each state of   *)
(* the reducer has its number of captures.                                 *)
Held == [id : Ids, window : Nat \X Nat, level : {"steady"}]

CountInv ==
  /\ captures \in Seq(Held)
  /\ \A i \in 1..D!count : captures[i].id = captureNames[i]
  /\ state \in {"idle", "connecting", "ready_a", "asking", "transcribing", "confirming",
                "recording_a"} => D!count = 0
  /\ state \in {"adjust", "ready_b", "recording_b"} => D!count = 1
  /\ state \in {"return_a", "recording_repeat"} => D!count = 2
  /\ state \in {"uploading", "waiting", "acknowledging"} => D!count \in 1..3
  /\ state = "complete" => D!count \in 2..3
  /\ questions \in 0..MaxQuestions
  /\ questionId = IF questions = 0 THEN None ELSE questionNames[questions]
  /\ state \in {"idle", "connecting"} => questions = 0
  /\ state = "asking" => questions < MaxQuestions

(* A number of captures counts up when one is recorded.                    *)
LEMMA RecordedCounts ==
  ASSUME CountInv, Recorded
  PROVE  CountInv'
<1> DEFINE n == D!count + 1
           c == [id |-> captureNames[n], window |-> <<2 * n - 1, 2 * n>>, level |-> "steady"]
<1>1. /\ state \in D!RecordingStates /\ captures' = Append(captures, c) /\ state' = "uploading"
      /\ UNCHANGED <<questions, questionId>>
  BY DEF Recorded, D!Captured, D!Acceptable, D!Enter, D!ask_vars
<1>2. D!count \in 0..2 /\ n \in 1..3
  BY <1>1 DEF CountInv, D!RecordingStates
<1>3. captureNames[n] \in Ids /\ c \in Held
  BY <1>2 DEF captureNames, Ids, Held
<1>4. /\ captures' \in Seq(Held) /\ Len(captures') = n /\ captures'[n] = c
      /\ \A i \in 1..D!count : captures'[i] = captures[i]
  BY <1>1, <1>2, <1>3 DEF CountInv, D!count
<1>5. \A i \in 1..n : captures'[i].id = captureNames[i]
  BY <1>2, <1>4 DEF CountInv, D!count
<1>6. D!count' = n
  BY <1>4 DEF D!count
<1> QED BY <1>1, <1>2, <1>4, <1>5, <1>6 DEF CountInv

(* What a reply of the Mac does to it.                                     *)
LEMMA ReplyCounts ==
  ASSUME CountInv, Expected(Message), OnReply(Message)
  PROVE  CountInv'
<1> USE DEF D!Enter, D!ask_vars, D!count
<1>1. CASE D!Tick
  BY <1>1 DEF CountInv, D!Tick
<1>2. CASE D!OnReady(FromHost(Message))
  BY <1>2 DEF CountInv, D!OnReady
<1>3. CASE D!OnTranscript(FromHost(Message))
  BY <1>3 DEF CountInv, D!OnTranscript
<1>4. CASE D!OnAcknowledged(FromHost(Message))
  BY <1>4 DEF CountInv, D!OnAcknowledged
<1>5. CASE D!OnReply(FromHost(Message))
  BY <1>5 DEF CountInv, D!OnReply
<1> QED BY <1>1, <1>2, <1>3, <1>4, <1>5 DEF OnReply, D!Receive

(* Every step keeps it.                                                    *)
LEMMA CountStep ==
  ASSUME CountInv, [Next]_vars
  PROVE  CountInv'
<1> USE DEF d_vars, D!Enter, D!ask_vars, D!count
<1>1. CASE UNCHANGED d_vars
  BY <1>1 DEF CountInv
<1>2. CASE Disconnect \/ Fail \/ D!Cancel \/ D!Tick
  BY <1>2 DEF CountInv, Disconnect, Fail, D!Disconnect, D!Fail, D!Cancel, D!Tick
<1>3. CASE Stop \/ PollError \/ DeviceFails \/ Tap \/ HostReads \/ HostStep \/ Advance
  BY <1>1, <1>2, <1>3 DEF Stop, PollError, DeviceFails, Tap, Cancel, Choose, HostReads, HostStep,
                          Advance, device_vars
<1>4. CASE Begin \/ Connect
  BY <1>1, <1>2, <1>4 DEF Begin, Connect, CountInv, D!Ask
<1>5. CASE Prompt \/ StopListening \/ SpeechOver \/ LastSpeech \/ EndSpeech \/ Finish
           \/ UNCHANGED vars
  BY <1>1, <1>5 DEF Prompt, StopListening, SpeechOver, LastSpeech, EndSpeech, Finish, vars
<1>6. CASE Act
  BY <1>1, <1>6 DEF Act, CountInv, D!ConfirmQuestion
<1>7. CASE TellConfirm \/ UploadQuestion \/ Upload \/ Speak \/ StopSpeech
  BY <1>1, <1>2, <1>7 DEF TellConfirm, UploadQuestion, Upload, Speak, StopSpeech, TellStop
<1>8. CASE AskQuestion
  BY <1>8 DEF AskQuestion, CountInv, D!StartQuestion
<1>9. CASE QuestionRecorded
  BY <1>9, GuidedConstants DEF QuestionRecorded, CountInv, D!QuestionRecorded
<1>10. CASE Record
  BY <1>10 DEF Record, CountInv, D!StartCapture
<1>11. CASE WalkBack
  BY <1>11 DEF WalkBack, CountInv, D!AwaitRepeat
<1>12. CASE Turn
  BY <1>2, <1>12 DEF Turn, CountInv, D!Turn
<1>13. CASE Ack
  BY <1>2, <1>13 DEF Ack, CountInv, D!Ack
<1>14. CASE Guidance \/ Final
  BY <1>1, <1>2, <1>14 DEF Guidance, Final
<1>15. CASE Spoken \/ ConfirmB
  BY <1>1, <1>15 DEF Spoken, ConfirmB, CountInv, D!Adjust
<1>16. CASE End
  BY <1>1, <1>2, <1>16 DEF End
<1>17. CASE Read
  BY <1>1, <1>2, <1>17, ReplyCounts DEF Read, OnCaptureAck, OnSpeech, Unexpected
<1> QED BY <1>1, <1>3, <1>4, <1>5, <1>6, <1>7, <1>8, <1>9, <1>10, <1>11, <1>12, <1>13, <1>14, <1>15,
           <1>16, <1>17, RecordedCounts DEF Next, MediaTask

-----------------------------------------------------------------------------
(* Where the run is when it is over; what the Mac said it can do.          *)
Dead == state \in {"cancelled", "offline", "incomplete"}

PlaceInv ==
  /\ Dead => pc \in Over \cup {"spoken"} \/ (pc = "speak" /\ cancelled)
  /\ pc \in {"guidance"} \cup Voiced /\ state = "complete" => finalSpeech
  /\ state = "complete" => pc \in Over \cup {"last"} \cup Voiced
  /\ broken => D!terminal \/ pc \in {"begin", "connect"}
  /\ pc \in {"speak", "speech"} => voice
  /\ pc = "speech" => ~broken
  /\ pc \in {"begin", "connect"} =>
       outbox = <<>> /\ received = 0 /\ phase = "new" /\ task = "none" /\ speaking = None

SaidInv ==
  /\ outbox \in Seq({outbox[i] : i \in DOMAIN outbox}) /\ received \in 0..Len(outbox)
  /\ \A i \in 1..Len(outbox) : outbox[i].type = "ready" => outbox[i] = H!Ready
  /\ speech => Transcriber
  /\ voice => Speaker
  /\ state = "asking" => speech
  /\ questions > 0 => Transcriber

(* The Mac's answers.                                                      *)
LEMMA MacSays ==
  ASSUME HostReads \/ HostStep
  PROVE  \/ outbox' = outbox
         \/ \E m : outbox' = Append(outbox, m) /\ (m.type = "ready" => m = H!Ready)
<1> USE DEF H!wire_vars
<1>1. CASE HostReads
  <2> DEFINE n == Head(toHost)
  <2>0. H!Receive(n)
    BY <1>1 DEF HostReads
  <2>1. CASE H!Refuse(n.type)
    BY <2>1 DEF H!Refuse
  <2>2. CASE H!OnHello(n) \/ H!OnCancel(n)
    BY <2>2 DEF H!OnHello, H!OnCancel, H!Answer
  <2>3. CASE H!OnQuestionStart(n) \/ H!OnQuestionEnd(n) \/ H!OnConfirm(n) \/ H!OnTurn(n)
             \/ H!OnExplain(n) \/ H!OnSpeak(n) \/ H!OnSpeechStop(n)
    BY <2>3 DEF H!OnQuestionStart, H!OnQuestionEnd, H!OnConfirm, H!OnTurn, H!OnExplain, H!OnSpeak,
                H!OnSpeechStop, H!Silent
  <2>4. CASE H!OnCaptureStart(n) \/ H!OnCaptureEnd(n) \/ H!OnAck(n)
    BY <2>4 DEF H!OnCaptureStart, H!OnCaptureEnd, H!OnAck, H!Answer
  <2> QED BY <2>0, <2>1, <2>2, <2>3, <2>4 DEF H!Receive, H!Handle
<1>2. CASE HostStep
  <2>1. CASE H!IdleTimeout \/ H!Disconnected \/ H!Close \/ H!Drop
    BY <2>1 DEF H!IdleTimeout, H!Refuse, H!Disconnected, H!Close, H!Drop
  <2>2. CASE H!Respond \/ H!RespondFails \/ H!RespondDropped
    BY <2>2 DEF H!Respond, H!RespondFails, H!RespondDropped, H!Failed, H!Say, H!Reply, H!Incomplete
  <2>3. CASE H!Explain \/ H!ExplainFails
    BY <2>3 DEF H!Explain, H!ExplainFails, H!Failed, H!Say, H!Incomplete
  <2>4. ASSUME NEW how, H!Transcribe(how)
        PROVE  \/ outbox' = outbox
               \/ \E m : outbox' = Append(outbox, m) /\ (m.type = "ready" => m = H!Ready)
    BY <2>4 DEF H!Transcribe, H!Say
  <2>5. CASE H!SpeechStart \/ H!SpeechChunk \/ H!SpeechDies
    BY <2>5 DEF H!SpeechStart, H!SpeechChunk, H!SpeechDies, H!SpeechSend
  <2>6. ASSUME NEW how, H!SpeechEnd(how)
        PROVE  \/ outbox' = outbox
               \/ \E m : outbox' = Append(outbox, m) /\ (m.type = "ready" => m = H!Ready)
    BY <2>6 DEF H!SpeechEnd, H!SpeechSend
  <2> QED BY <1>2, <2>1, <2>2, <2>3, <2>4, <2>5, <2>6 DEF HostStep, H!TaskStep
<1> QED BY <1>1, <1>2

(* Before the connection is made the Mac has nothing to do.                *)
LEMMA MacIsNew ==
  ASSUME PlaceInv, StageInv, HostReads \/ HostStep, pc \in {"begin", "connect"}
  PROVE  outbox' = <<>> /\ phase' = "new" /\ task' = "none" /\ speaking' = None
<1>1. /\ outbox = <<>> /\ phase = "new" /\ task = "none" /\ speaking = None /\ toHost = <<>>
  BY DEF PlaceInv, StageInv
<1>2. HostStep
  BY <1>1 DEF HostReads
<1>3. CASE H!IdleTimeout \/ H!Disconnected \/ H!Close \/ H!Drop
  BY <1>1, <1>3 DEF H!IdleTimeout, H!Refuse, H!Disconnected, H!Close, H!Drop, H!speech_vars,
                    H!Stopped
<1>4. CASE H!TaskStep
  BY <1>1, <1>4 DEF H!TaskStep, H!Respond, H!RespondFails, H!RespondDropped, H!Explain,
     H!ExplainFails, H!Transcribe, H!SpeechStart, H!SpeechChunk, H!SpeechDies, H!SpeechEnd,
     H!SpeechSend
<1> QED BY <1>2, <1>3, <1>4 DEF HostStep

(* The Mac's steps keep both.                                              *)
LEMMA MacKeepsPlace ==
  ASSUME PlaceInv, SaidInv, StageInv, HostReads \/ HostStep
  PROVE  PlaceInv' /\ SaidInv'
<1>1. UNCHANGED <<d_vars, broken, pc, cancelled, finalSpeech, received>>
  BY DEF HostReads, HostStep, device_vars, ui_vars
<1>2. pc \in {"begin", "connect"} =>
        outbox' = <<>> /\ phase' = "new" /\ task' = "none" /\ speaking' = None
  BY MacIsNew
<1>3. CASE outbox' = outbox
  BY <1>1, <1>2, <1>3 DEF PlaceInv, SaidInv, d_vars, Dead, D!terminal
<1>4. ASSUME NEW m, outbox' = Append(outbox, m), m.type = "ready" => m = H!Ready
      PROVE  PlaceInv' /\ SaidInv'
  <2> DEFINE S == {outbox[i] : i \in DOMAIN outbox} \cup {m}
  <2>1. outbox \in Seq(S) /\ m \in S
    BY DEF SaidInv
  <2> HIDE DEF S
  <2>2. /\ outbox' \in Seq(S) /\ Len(outbox') = Len(outbox) + 1 /\ Len(outbox) \in Nat
        /\ outbox'[Len(outbox')] = m /\ \A i \in 1..Len(outbox) : outbox'[i] = outbox[i]
    BY <1>4, <2>1
  <2>3. outbox' \in Seq({outbox'[i] : i \in DOMAIN outbox'})
    <3>1. \A t \in Seq(S) : t \in Seq({t[i] : i \in DOMAIN t})
      BY OwnElements
    <3> QED BY <2>2, <3>1
  <2>4. \A i \in 1..Len(outbox') : i \in 1..Len(outbox) \/ i = Len(outbox')
    BY <2>2
  <2> QED BY <1>1, <1>2, <1>4, <2>2, <2>3, <2>4 DEF PlaceInv, SaidInv, d_vars, Dead, D!terminal
<1> QED BY <1>3, <1>4, MacSays

(* Everything else leaves the Mac alone.                                   *)
LEMMA MacWaits ==
  ASSUME [Next]_vars
  PROVE  HostReads \/ HostStep \/ UNCHANGED h_vars
BY DEF Next, MediaTask, vars, Stop, PollError, DeviceFails, Begin, Connect, Prompt, Act,
       TellConfirm, AskQuestion, StopListening, QuestionRecorded, UploadQuestion, Record,
       Recorded, Upload, WalkBack, Turn, Ack, Guidance, Spoken, ConfirmB, Speak, StopSpeech,
       SpeechOver, End, Final, LastSpeech, EndSpeech, Finish, Read, Tap, Cancel, Choose, Advance

(* What a send does beside the queue.                                      *)
LEMMA SendsOrCuts ==
  /\ \A m, next : Sent(m, next) => pc' = next /\ UNCHANGED <<link, broken>> /\ ~broken /\ ~cancelled
  /\ \A next : CutShort(next) => pc' = next /\ UNCHANGED link /\ broken'
BY DEF Sent, CutShort, Writable

(* The methods of the reducer that end it, in full.                        *)
LEMMA Ending ==
  /\ Disconnect \/ Fail \/ D!Cancel \/ D!Tick =>
       /\ UNCHANGED <<speech, voice, questions, questionId, captures, now>>
       /\ state' = state \/ state' \in {"cancelled", "offline", "incomplete"}
       /\ D!terminal'
  /\ Disconnect \/ Fail => (D!terminal => state' = state)
BY DEF Disconnect, Fail, d_vars, D!Disconnect, D!Fail, D!Cancel, D!Tick, D!Enter, D!ask_vars,
       D!terminal, D!TerminalStates, D!expired

(* Where a reply is taken, time is not up.                                 *)
LEMMA Replying ==
  ASSUME Read, OnReply(Message), Expected(Message)
  PROVE  /\ \/ pc = "hello" /\ Message.type = "ready" /\ D!OnReady(FromHost(Message))
               /\ state = "connecting" /\ state' = "ready_a" /\ pc' = "prompt"
               /\ UNCHANGED <<questions, questionId, captures>>
            \/ pc = "transcript" /\ Message.type = "transcript" /\ state = "transcribing" /\ pc' = "prompt"
               /\ state' = (IF Message.status = "heard" THEN "confirming" ELSE "ready_a")
               /\ UNCHANGED <<speech, voice, questions, questionId, captures>>
            \/ pc = "reply" /\ Message.type \in TurnReplies /\ state = "waiting"
               /\ state' = "acknowledging" /\ pc' = "ack"
               /\ UNCHANGED <<speech, voice, questions, questionId, captures>>
            \/ pc = "acked" /\ Message.type = "acknowledged" /\ state = "acknowledging"
               /\ state' = (IF D!count = 1 THEN "adjust" ELSE "complete")
               /\ pc' = (IF D!count = 1 THEN "guidance" ELSE "end")
               /\ UNCHANGED <<speech, voice, questions, questionId, captures>>
         /\ received' = received + 1 /\ received < Len(outbox)
         /\ UNCHANGED <<toHost, link, broken, cancelled, playback, finalSpeech>>
<1> USE DEF D!Enter, D!ask_vars
<1>1. Active /\ pc \in {"hello", "transcript", "reply", "acked"}
  BY DEF Read, OnReply
<1>2. /\ received' = received + 1 /\ received < Len(outbox)
      /\ UNCHANGED <<toHost, link, broken, cancelled, playback, finalSpeech>>
  BY DEF Read, OnReply, socket_vars, ui_vars
<1>3. ~D!Tick
  BY <1>1 DEF Active, D!Tick
<1>4. pc' = CASE pc \in {"hello", "transcript"} -> "prompt"
              [] pc = "reply"                    -> "ack"
              [] pc = "acked"                    -> IF state' = "complete" THEN "end" ELSE "guidance"
  BY DEF OnReply
<1>5. \/ D!OnReady(FromHost(Message)) \/ D!OnTranscript(FromHost(Message))
      \/ D!OnAcknowledged(FromHost(Message)) \/ D!OnReply(FromHost(Message))
  BY <1>3 DEF OnReply, D!Receive
<1>6. CASE pc = "hello"
  <2>1. Message.type = "ready" /\ FromHost(Message).type = "ready"
    BY <1>6 DEF Expected, FromHost
  <2> QED BY <1>2, <1>4, <1>5, <1>6, <2>1 DEF D!OnReady, D!OnTranscript, D!OnAcknowledged, D!OnReply
<1>7. CASE pc = "transcript"
  <2>1. /\ Message.type = "transcript" /\ FromHost(Message).type = "transcript"
        /\ FromHost(Message).status = Message.status
    BY <1>7 DEF Expected, FromHost
  <2> QED BY <1>2, <1>4, <1>5, <1>7, <2>1 DEF D!OnReady, D!OnTranscript, D!OnAcknowledged, D!OnReply
<1>8. CASE pc = "reply"
  <2>1. Message.type \in TurnReplies /\ FromHost(Message).type \in TurnReplies
    BY <1>8 DEF Expected, FromHost, TurnReplies
  <2> QED BY <1>2, <1>4, <1>5, <1>8, <2>1
          DEF D!OnReady, D!OnTranscript, D!OnAcknowledged, D!OnReply, TurnReplies
<1>9. CASE pc = "acked"
  <2>1. Message.type = "acknowledged" /\ FromHost(Message).type = "acknowledged"
    BY <1>9 DEF Expected, FromHost
  <2> QED BY <1>2, <1>4, <1>5, <1>9, <2>1 DEF D!OnReady, D!OnTranscript, D!OnAcknowledged, D!OnReply
<1> QED BY <1>1, <1>6, <1>7, <1>8, <1>9

(* The other steps: the reducer learns what the Mac can do from ready.     *)
LEMMA SaidStep ==
  ASSUME SaidInv, PlaceInv, StageInv, CountInv, [Next]_vars
  PROVE  SaidInv'
<1>1. CASE HostReads \/ HostStep
  BY <1>1, MacKeepsPlace
<1>2. CASE Read
  <2>1. UNCHANGED outbox /\ received' = received + 1 /\ received < Len(outbox)
    BY <1>2 DEF Read, h_vars
  <2>2. CASE Unexpected
    BY <2>1, <2>2, Ending DEF Unexpected, SaidInv
  <2>3. CASE OnCaptureAck(Message) \/ OnSpeech(Message)
    BY <2>1, <2>3 DEF OnCaptureAck, OnSpeech, SaidInv, d_vars
  <2>4. CASE OnReply(Message) /\ Expected(Message)
    <3>1. CASE Message.type = "ready" /\ D!OnReady(FromHost(Message)) /\ state' = "ready_a"
               /\ UNCHANGED <<questions, questionId, captures>>
      <4>1. Message = H!Ready
        BY <2>1, <3>1 DEF Message, SaidInv
      <4>2. (speech' => Transcriber) /\ (voice' => Speaker)
        BY <3>1, <4>1 DEF FromHost, H!Ready, D!OnReady
      <4> QED BY <2>1, <3>1, <4>2 DEF SaidInv
    <3>2. CASE UNCHANGED <<speech, voice, questions>> /\ state' # "asking"
      BY <2>1, <3>2 DEF SaidInv
    <3> QED BY <1>2, <2>4, <3>1, <3>2, Replying
  <2> QED BY <1>2, <2>2, <2>3, <2>4 DEF Read
<1>3. CASE UNCHANGED <<h_vars, received, speech, voice, questions>> /\ (state' = "asking" => state = "asking")
  BY <1>3 DEF SaidInv, h_vars
<1>4. CASE AskQuestion \/ QuestionRecorded
  BY <1>4 DEF AskQuestion, QuestionRecorded, SaidInv, h_vars, D!StartQuestion, D!QuestionRecorded,
              D!ask_vars, D!Enter, CountInv
<1> USE DEF d_vars, D!ask_vars, D!Enter
<1>5. CASE Stop \/ PollError \/ DeviceFails \/ Begin \/ Connect
  BY <1>3, <1>5, Ending DEF Stop, PollError, DeviceFails, Begin, Connect, D!Ask
<1>6. CASE Prompt \/ Act \/ StopListening \/ Record \/ Recorded \/ WalkBack
  BY <1>3, <1>6 DEF Prompt, Act, StopListening, Record, Recorded, WalkBack, D!ConfirmQuestion,
                    D!StartCapture, D!Captured, D!AwaitRepeat
<1>7. CASE TellConfirm \/ UploadQuestion \/ Upload \/ Speak \/ StopSpeech
  BY <1>3, <1>7, Ending DEF TellConfirm, UploadQuestion, Upload, Speak, StopSpeech, TellStop
<1>8. CASE Turn \/ Ack
  BY <1>3, <1>8, Ending DEF Turn, Ack, D!Turn, D!Ack
<1>9. CASE Guidance \/ End \/ Final
  BY <1>3, <1>9, Ending DEF Guidance, End, Final
<1>10. CASE Spoken \/ ConfirmB \/ SpeechOver \/ LastSpeech \/ EndSpeech \/ Finish
  BY <1>3, <1>10 DEF Spoken, ConfirmB, SpeechOver, LastSpeech, EndSpeech, Finish, D!Adjust
<1>11. CASE Tap \/ Advance \/ UNCHANGED vars
  BY <1>3, <1>11 DEF Tap, Cancel, Choose, Advance, vars
<1> QED BY <1>1, <1>2, <1>4, <1>5, <1>6, <1>7, <1>8, <1>9, <1>10, <1>11 DEF Next, MediaTask

(* Every step keeps the place.                                             *)
LEMMA PlaceStep ==
  ASSUME PlaceInv, SaidInv, CountInv, StageInv, ScreenInv, [Next]_vars
  PROVE  PlaceInv'
<1> USE DEF PlaceInv, Dead, Over, Voiced
<1>1. CASE HostReads \/ HostStep
  BY <1>1, MacKeepsPlace
<1> USE DEF D!terminal, D!TerminalStates
<1>2. CASE Stop
  <2>1. /\ D!terminal' /\ (state' = state \/ state' \in {"cancelled", "offline", "incomplete"})
        /\ UNCHANGED voice
    BY <1>2, Ending DEF Stop, Active, d_vars
  <2> QED BY <1>2, <2>1 DEF Stop
<1>21. CASE PollError \/ DeviceFails
  BY <1>21, Ending DEF PollError, DeviceFails, Polling, socket_vars, h_vars, ui_vars
<1>3. CASE Begin \/ Connect
  BY <1>3, Ending DEF Begin, Connect, D!Ask, D!Enter, D!ask_vars, d_vars, h_vars, ui_vars
<1>4. CASE Prompt \/ Act
  BY <1>4 DEF Prompt, Act, Active, D!ConfirmQuestion, d_vars, socket_vars
<1>5. CASE TellConfirm
  BY <1>5, SendsOrCuts, Ending DEF TellConfirm, Lost, d_vars
<1>6. CASE AskQuestion \/ StopListening
  BY <1>6 DEF AskQuestion, StopListening, D!StartQuestion, d_vars, socket_vars
<1>7. CASE QuestionRecorded
  BY <1>7 DEF QuestionRecorded, D!QuestionRecorded, D!Enter, socket_vars
<1>8. CASE UploadQuestion
  BY <1>8, SendsOrCuts, Ending DEF UploadQuestion, Lost, d_vars
<1>9. CASE Record \/ Recorded \/ WalkBack
  BY <1>9 DEF Record, Recorded, WalkBack, D!StartCapture, D!Captured, D!Acceptable,
     D!RecordingStates, D!AwaitRepeat, D!Enter, Active, socket_vars
<1>10. CASE Upload
  BY <1>10, SendsOrCuts, Ending DEF Upload, Lost, d_vars
<1>11. CASE Turn
  BY <1>11, SendsOrCuts, Ending DEF Turn, Active, Lost, D!Turn, D!Tick, D!Enter
<1>12. CASE Ack
  BY <1>12, SendsOrCuts, Ending DEF Ack, Lost, D!Ack
<1>13. CASE Guidance
  BY <1>13, Ending DEF Guidance, d_vars, ui_vars, socket_vars, D!Cancel, D!Enter
<1>14. CASE Spoken \/ ConfirmB
  BY <1>14 DEF Spoken, ConfirmB, Active, D!Adjust, d_vars, socket_vars
<1>15. CASE Speak
  <2>1. CASE pc' = "speech" /\ ~broken /\ ~cancelled /\ UNCHANGED <<d_vars, now, broken>>
    BY <1>15, <2>1 DEF Speak, d_vars, ui_vars
  <2>2. CASE pc' = "spoken" /\ Disconnect
    BY <1>15, <2>2, Ending DEF Speak, ui_vars
  <2> QED BY <1>15, <2>1, <2>2, SendsOrCuts DEF Speak
<1>16. CASE StopSpeech
  <2>1. CASE UNCHANGED <<d_vars, now, socket_vars>> /\ pc' \in {"speech", "spoken"}
    BY <1>16, <2>1 DEF StopSpeech, d_vars, socket_vars
  <2>2. CASE Sent([type |-> "speech_stop", key |-> speechKey], "speech") /\ UNCHANGED d_vars
    BY <1>16, <2>2, SendsOrCuts DEF StopSpeech, d_vars
  <2>3. CASE CutShort("spoken") /\ Disconnect
    BY <1>16, <2>3, SendsOrCuts, Ending DEF StopSpeech
  <2> QED BY <1>16, <2>1, <2>2, <2>3 DEF StopSpeech, TellStop
<1>17. CASE SpeechOver \/ LastSpeech \/ EndSpeech \/ Finish
  BY <1>17 DEF SpeechOver, LastSpeech, EndSpeech, Finish, StageInv, d_vars, socket_vars, ui_vars
<1>18. CASE End \/ Final
  BY <1>18, Ending DEF End, Final, d_vars, ui_vars, socket_vars, StageInv
<1>19. CASE Tap \/ Advance \/ UNCHANGED vars
  <2>1. UNCHANGED <<d_vars, h_vars, socket_vars, pc, finalSpeech, received>> /\ (cancelled => cancelled')
    BY <1>19 DEF Tap, Cancel, Choose, Advance, vars, ui_vars
  <2> QED BY <2>1 DEF d_vars, h_vars, socket_vars
<1>20. CASE Read
  <2>1. UNCHANGED <<broken, cancelled, finalSpeech>> /\ pc \notin {"begin", "connect", "guidance", "speak"}
    BY <1>20 DEF Read, Polling, socket_vars, ui_vars
  <2>2. CASE Unexpected
    BY <2>1, <2>2, Ending DEF Unexpected
  <2>3. CASE OnCaptureAck(Message) \/ OnSpeech(Message)
    BY <1>20, <2>1, <2>3 DEF OnCaptureAck, OnSpeech, d_vars
  <2>4. CASE OnReply(Message) /\ Expected(Message)
    BY <1>20, <2>1, <2>4, Replying
  <2> QED BY <1>20, <2>2, <2>3, <2>4 DEF Read
<1> QED BY <1>1, <1>2, <1>3, <1>4, <1>5, <1>6, <1>7, <1>8, <1>9, <1>10, <1>11, <1>12, <1>13, <1>14,
           <1>15, <1>16, <1>17, <1>18, <1>19, <1>20, <1>21 DEF Next, MediaTask

-----------------------------------------------------------------------------
(* The Mac, while it reads: the names it has and its place in the session. *)
Before == {"new", "await_a", "question_upload", "transcribing", "await_confirm"}

Stages ==
  \/ phase \in Before /\ Len(ids) = 0 /\ seen = {} /\ requests = {} /\ pending = None /\ spoken = {}
  \/ /\ phase = "recording_a" /\ Len(ids) = 0
     /\ seen = {"a"} /\ requests = {} /\ pending = None /\ spoken = {}
  \/ /\ phase = "guide_ready" /\ Len(ids) = 1
     /\ seen = {"a"} /\ requests = {} /\ pending = None /\ spoken = {}
  \/ /\ phase \in {"pending", "await_ack"} /\ Len(ids) = 1
     /\ seen = {"a"} /\ requests = {"r1"} /\ pending = "r1" /\ spoken = {}
  \/ /\ phase = "adjust" /\ Len(ids) = 1 /\ acknowledged = "r1"
     /\ seen = {"a"} /\ requests = {"r1"} /\ pending = None /\ spoken \subseteq {"r1"}
  \/ /\ phase = "recording_b" /\ Len(ids) = 1
     /\ seen = {"a", "b"} /\ requests = {"r1"} /\ pending = None /\ spoken \subseteq {"r1"}
  \/ /\ phase = "compare_ready" /\ (Len(ids) = 3 \/ (Len(ids) = 2 /\ seen = {"a", "b"}))
     /\ requests = {"r1"} /\ pending = None /\ spoken \subseteq {"r1"}
  \/ /\ phase = "recording_repeat" /\ Len(ids) = 2
     /\ seen = {"a", "b", "r"} /\ requests = {"r1"} /\ pending = None /\ spoken \subseteq {"r1"}
  \/ /\ phase \in {"pending", "await_ack"} /\ Len(ids) \in {2, 3}
     /\ pending = "r2" /\ spoken \subseteq {"r1"}
  \/ phase = "complete" /\ acknowledged = "r2"
  \/ phase \in {"incomplete", "cancelled"}

Named ==
  /\ questionIds \in Seq(Ids) /\ Len(questionIds) <= MaxQuestions
  /\ \A i \in 1..Len(questionIds) : questionIds[i] = questionNames[i]
  /\ ids \in Seq(Ids) /\ Len(ids) <= 3
  /\ \A i \in 1..Len(ids) : ids[i] = captureNames[i]

MacInv ==
  /\ link => handler = "reading"
  /\ task # "explain"
  /\ handler = "reading" =>
    /\ refused = "none"
    /\ \/ task \in {"none", "dead"}
       \/ task = "respond" /\ phase = "pending"
       \/ task = "transcribe" /\ phase = "transcribing"
    /\ phase = "new" => Len(questionIds) = 0
    /\ phase \in {"question_upload", "transcribing", "await_confirm"} => Len(questionIds) > 0
    /\ phase = "await_confirm" => heard = questionIds[Len(questionIds)]
    /\ phase \notin {"adjust", "complete"} => speaking = None
    /\ Named /\ Stages

(* What may wait at the front of the queue: a message the Mac will take,   *)
(* but for an ack out of time and a capture after a reading given up on.   *)
Fit(m) ==
  CASE m.type = "torn" -> TRUE
    [] m.type = "hello" -> phase = "new"
    [] m.type = "cancel" -> phase \notin {"new", "cancelled"}
    [] m.type = "question_start" -> H!MayAsk(m) /\ m.key = questionNames[Len(questionIds) + 1]
    [] m.type = "question_end" -> H!MayEndQuestion(m)
    [] m.type = "question_confirm" -> H!MayConfirm(m)
    [] m.type = "capture_start" -> H!MayCapture(m) /\ m.key = captureNames[Len(ids) + 1]
    [] m.type = "capture_end" -> H!MayEndCapture(m)
    [] m.type = "turn" -> H!MayTurn(m) /\ m.key = IF Len(ids) = 1 THEN "r1" ELSE "r2"
    [] m.type = "ack" -> phase = "await_ack" /\ m.key = pending
    [] m.type = "speak" -> H!MaySpeak(m) /\ speaking = None
    [] m.type = "speech_stop" ->
         phase \in {"adjust", "complete"} /\ m.key = acknowledged /\ m.key \in spoken
    [] OTHER -> FALSE

Recordings == <<"recording_a", "recording_b", "recording_repeat">>

(* The names are apart from one another, and None is no name.              *)
LEMMA NameFacts ==
  /\ \A i \in 1..5 : questionNames[i] \in Ids
  /\ \A i, j \in 1..5 : questionNames[i] = questionNames[j] => i = j
  /\ \A i \in 1..3 : captureNames[i] \in Ids
  /\ \A i, j \in 1..3 : captureNames[i] = captureNames[j] => i = j
  /\ \A i \in 1..5, j \in 1..3 : questionNames[i] # captureNames[j]
  /\ captureNames[1] = "a" /\ captureNames[2] = "b" /\ captureNames[3] = "r"
  /\ None \notin Ids /\ None # "r1" /\ None # "r2" /\ MaxQuestions \in 0..5
BY GuidedConstants DEF questionNames, captureNames, Ids, Requests

(* After n captures comes the next one.                                    *)
LEMMA NextCapture ==
  \A n : /\ n = 0 => captureNames[n + 1] = "a" /\ Recordings[n + 1] = "recording_a"
         /\ n = 1 => captureNames[n + 1] = "b" /\ Recordings[n + 1] = "recording_b"
         /\ n = 2 => captureNames[n + 1] = "r" /\ Recordings[n + 1] = "recording_repeat"
BY DEF captureNames, Recordings

(* Nothing but a message of the device or the end of a task moves it.      *)
LEMMA MacIsKept ==
  ASSUME MacInv, UNCHANGED h_vars, link' => link
  PROVE  MacInv'
BY DEF MacInv, Stages, Named, h_vars, Before

(* The end of a task.                                                      *)
LEMMA MacOnItsOwn ==
  ASSUME MacInv, HostStep
  PROVE  MacInv'
<1> USE DEF H!ask_vars, H!reply_vars, H!speech_vars, H!wire_vars
<1>1. CASE H!IdleTimeout
  BY <1>1 DEF H!IdleTimeout, H!Refuse, MacInv
<1>2. CASE H!Disconnected
  BY <1>2 DEF H!Disconnected, MacInv
<1>3. CASE H!Close
  BY <1>3 DEF H!Close, H!Stopped, MacInv
<1>4. CASE H!Drop
  BY <1>4 DEF H!Drop, MacInv, Stages, Named, Before
<1>5. CASE H!Respond
  BY <1>5 DEF H!Respond, H!Say, H!Failed, MacInv, Stages, Named, Before
<1>6. CASE H!RespondFails
  BY <1>6 DEF H!RespondFails, H!Say, H!Failed, MacInv, Stages, Named, Before
<1>7. CASE H!RespondDropped
  BY <1>7 DEF H!RespondDropped, MacInv, Stages, Named, Before
<1>8. CASE H!Explain \/ H!ExplainFails
  BY <1>8 DEF H!Explain, H!ExplainFails, MacInv
<1>9. ASSUME NEW how, H!Transcribe(how) PROVE MacInv'
  BY <1>9 DEF H!Transcribe, H!Say, MacInv, Stages, Named, Before
<1>10. CASE H!SpeechStart \/ H!SpeechChunk
  BY <1>10 DEF H!SpeechStart, H!SpeechChunk, H!SpeechSend, MacInv, Stages, Named, Before
<1>11. CASE H!SpeechDies
  BY <1>11 DEF H!SpeechDies, MacInv, Stages, Named, Before
<1>12. ASSUME NEW how, H!SpeechEnd(how) PROVE MacInv'
  BY <1>12 DEF H!SpeechEnd, H!SpeechSend, MacInv, Stages, Named, Before
<1> QED BY <1>1, <1>2, <1>3, <1>4, <1>5, <1>6, <1>7, <1>8, <1>9, <1>10, <1>11, <1>12
        DEF HostStep, H!TaskStep

(* A message of the device.                                                *)
LEMMA MacOnMessage ==
  ASSUME MacInv, HostReads, Fit(Head(toHost))
  PROVE  MacInv'
<1> DEFINE m == Head(toHost)
<1> USE DEF H!ask_vars, H!reply_vars, H!speech_vars, H!wire_vars, H!Silent, H!Answer
<1>0. H!Receive(m) /\ handler = "reading"
  BY DEF HostReads, H!Receive
<1>1. CASE H!Refuse(m.type)
  BY <1>1 DEF H!Refuse, MacInv
<1>2. CASE H!OnHello(m)
  BY <1>0, <1>2 DEF H!OnHello, H!MayHello, MacInv, Stages, Named, Before
<1>3. CASE H!OnCancel(m)
  BY <1>0, <1>3 DEF H!OnCancel, H!MayCancel, H!Stopped, MacInv, Stages, Named, Before
<1>4. CASE H!OnQuestionStart(m)
  BY <1>0, <1>4, NameFacts DEF H!OnQuestionStart, H!MayAsk, Fit, MacInv, Stages, Named, Before
<1>5. CASE H!OnQuestionEnd(m)
  BY <1>0, <1>5 DEF H!OnQuestionEnd, H!MayEndQuestion, MacInv, Stages, Named, Before
<1>6. CASE H!OnConfirm(m)
  BY <1>0, <1>6 DEF H!OnConfirm, H!MayConfirm, MacInv, Stages, Named, Before
<1>7. CASE H!OnCaptureStart(m) /\ H!Legal(m)
  <2>1. m.key = captureNames[Len(ids) + 1] /\ H!MayCapture(m)
    BY <1>7 DEF H!OnCaptureStart, H!MayCapture, Fit
  <2>2. \/ phase = "await_a" /\ Len(ids) = 0 /\ seen = {} /\ phase' = "recording_a" /\ seen' = {"a"}
        \/ phase = "adjust" /\ Len(ids) = 1 /\ seen = {"a"} /\ phase' = "recording_b" /\ seen' = {"a", "b"}
        \/ /\ phase = "compare_ready" /\ Len(ids) = 2 /\ seen = {"a", "b"}
           /\ phase' = "recording_repeat" /\ seen' = {"a", "b", "r"}
    <3>1. \/ phase = "await_a" /\ Len(ids) = 0 /\ seen = {}
          \/ phase = "adjust" /\ Len(ids) = 1 /\ seen = {"a"}
          \/ phase = "compare_ready" /\ Len(ids) = 2 /\ seen = {"a", "b"}
      <4>1. phase \in {"await_a", "adjust"} \/ (phase = "compare_ready" /\ Len(ids) = 2)
        BY <2>1 DEF H!MayCapture
      <4>2. Stages /\ Named
        BY <1>0 DEF MacInv
      <4> QED BY <4>1, <4>2 DEF Stages, Before, Named
    <3>2. seen' = seen \cup {m.key}
          /\ phase' = Recordings[Len(ids) + 1]
      BY <1>7 DEF H!OnCaptureStart, Recordings
    <3>4. /\ Len(ids) = 0 => phase' = "recording_a"
          /\ Len(ids) = 1 => phase' = "recording_b"
          /\ Len(ids) = 2 => phase' = "recording_repeat"
      BY <3>2, NextCapture
    <3>5. /\ Len(ids) = 0 => m.key = "a"
          /\ Len(ids) = 1 => m.key = "b"
          /\ Len(ids) = 2 => m.key = "r"
      BY <2>1, NextCapture
    <3> QED BY <3>1, <3>2, <3>4, <3>5
  <2>3. speaking = None
    BY <1>7, <2>1 DEF H!Legal, H!MayHello, H!Admitted, H!MayCapture
  <2>4. Stages'
    BY <1>0, <1>7, <2>2 DEF H!OnCaptureStart, MacInv, Stages, Before
  <2> QED BY <1>0, <1>7, <2>2, <2>3, <2>4 DEF H!OnCaptureStart, MacInv, Named
<1>8. CASE H!OnCaptureEnd(m)
  <2>1. /\ m.key \in seen /\ \A i \in 1..Len(ids) : ids[i] # m.key
        /\ phase \in {"recording_a", "recording_b", "recording_repeat"}
        /\ ids' = Append(ids, m.key) /\ phase' = IF ids = <<>> THEN "guide_ready" ELSE "compare_ready"
    BY <1>8 DEF H!OnCaptureEnd, H!MayEndCapture, H!Recording
  <2>2. Stages /\ Named
    BY <1>0 DEF MacInv
  <2>3. \/ phase = "recording_a" /\ Len(ids) = 0 /\ m.key = "a"
        \/ phase = "recording_b" /\ Len(ids) = 1 /\ m.key = "b"
        \/ phase = "recording_repeat" /\ Len(ids) = 2 /\ m.key = "r"
    BY <2>1, <2>2, NameFacts DEF Stages, Named, Before
  <2>4. Named' /\ Len(ids') = Len(ids) + 1
    BY <1>8, <2>1, <2>2, <2>3, NameFacts DEF Named, H!OnCaptureEnd
  <2>5. Stages'
    <3>1. ids = <<>> <=> Len(ids) = 0
      <4>1. ids \in Seq(Ids)
        BY <2>2 DEF Named
      <4> QED BY <4>1
    <3>2. UNCHANGED <<seen, requests, pending, spoken>>
      BY <1>8 DEF H!OnCaptureEnd
    <3>3. /\ phase = "recording_a" => Len(ids') = 1 /\ phase' = "guide_ready"
          /\ phase = "recording_b" => Len(ids') = 2 /\ phase' = "compare_ready"
          /\ phase = "recording_repeat" => Len(ids') = 3 /\ phase' = "compare_ready"
      BY <2>1, <2>3, <2>4, <3>1
    <3>4. CASE phase = "recording_a"
      BY <2>2, <3>2, <3>3, <3>4 DEF Stages, Before
    <3>5. CASE phase = "recording_b"
      BY <2>2, <3>2, <3>3, <3>5 DEF Stages, Before
    <3>6. CASE phase = "recording_repeat"
      BY <2>2, <3>2, <3>3, <3>6 DEF Stages, Before
    <3> QED BY <2>1, <3>4, <3>5, <3>6
  <2>6. speaking = None
    BY <1>0, <2>1 DEF MacInv
  <2> QED BY <1>0, <1>8, <2>1, <2>4, <2>5, <2>6 DEF MacInv, H!OnCaptureEnd
<1>9. CASE H!OnTurn(m)
  BY <1>0, <1>9 DEF H!OnTurn, H!MayTurn, Fit, MacInv, Stages, Named, Before
<1>10. CASE H!OnAck(m)
  <2>1. phase = "await_ack" /\ acknowledged' = pending /\ speaking = None
    BY <1>0, <1>10 DEF H!OnAck, H!MayAck, MacInv
  <2>2. Stages'
    BY <1>0, <1>10, <2>1 DEF H!OnAck, MacInv, Stages, Before
  <2> QED BY <1>0, <1>10, <2>1, <2>2 DEF H!OnAck, MacInv, Named
<1>11. CASE H!OnSpeak(m)
  BY <1>0, <1>11 DEF H!OnSpeak, H!MaySpeak, MacInv, Stages, Named, Before
<1>12. CASE H!OnSpeechStop(m)
  BY <1>0, <1>12 DEF H!OnSpeechStop, MacInv, Stages, Named, Before
<1>13. ~H!OnExplain(m)
  BY DEF H!OnExplain, H!MayExplain, Fit
<1> QED BY <1>0, <1>1, <1>2, <1>3, <1>4, <1>5, <1>6, <1>7, <1>8, <1>9, <1>10, <1>11, <1>12, <1>13
     DEF H!Receive, H!Handle

-----------------------------------------------------------------------------
(* The queue to the Mac.                                                   *)
MayFollow(m, n) ==
  \/ m.type \notin {"torn", "cancel"} /\ n.type \in {"torn", "cancel"}
  \/ m.type = "question_start" /\ n.type = "question_end" /\ n.key = m.key /\ n.valid
  \/ /\ m.type = "question_confirm" /\ n.type = "question_start" /\ Transcriber
     /\ \E i \in 1..MaxQuestions - 1 : m.key = questionNames[i] /\ n.key = questionNames[i + 1]
  \/ m.type = "question_confirm" /\ n.type = "capture_start" /\ n.key = "a"
  \/ m.type = "speak" /\ n.type = "speech_stop" /\ n.key = m.key
  \/ m.type \in {"speak", "speech_stop"} /\ m.key = "r1" /\ n.type = "capture_start" /\ n.key = "b"

Cancelling == cancelled /\ state = "cancelled" /\ pc \in {"final", "finish", "done"}
SpeakFirst == toHost # <<>> /\ toHost[1].type = "speak"

QueueInv ==
  /\ handler = "reading" /\ toHost # <<>> => Fit(toHost[1])
  /\ \A i \in 1..Len(toHost) - 1 : MayFollow(toHost[i], toHost[i + 1])
  /\ \A i \in 1..Len(toHost) : /\ toHost[i].type = "cancel" => Cancelling
                               /\ toHost[i].type = "torn" => broken
  /\ handler = "reading" /\ phase = "cancelled" => Cancelling /\ toHost = <<>>
  /\ handler = "reading" /\ phase = "new" /\ ~broken => toHost # <<>>
  /\ handler = "reading" /\ (\E i \in 1..Len(toHost) : toHost[i].type = "capture_start") =>
       playback = "failed" \/ (speaking = None /\ ~SpeakFirst)

(* A message that fits waits while the tasks end.                          *)
LEMMA FitWaits ==
  ASSUME MacInv, HostStep, handler = "reading", handler' = "reading", NEW m, Fit(m)
  PROVE  Fit(m)'
<1> USE DEF Fit, H!MayAsk, H!MayEndQuestion, H!MayConfirm, H!MayCapture, H!MayEndCapture,
   H!MayTurn, H!MaySpeak, H!Running, H!Terminal, H!Recording, H!ask_vars, H!reply_vars,
   H!speech_vars, H!wire_vars
<1>1. CASE H!IdleTimeout \/ H!Disconnected \/ H!Close
  BY <1>1 DEF H!IdleTimeout, H!Refuse, H!Disconnected, H!Close
<1>2. CASE H!Drop
  BY <1>2 DEF H!Drop
<1>3. CASE H!Respond
  BY <1>3 DEF H!Respond, H!Say, H!Failed
<1>4. CASE H!RespondFails
  BY <1>4 DEF H!RespondFails, H!Say, H!Failed, MacInv
<1>5. CASE H!RespondDropped
  BY <1>5 DEF H!RespondDropped
<1>6. CASE H!Explain \/ H!ExplainFails
  BY <1>6 DEF H!Explain, H!ExplainFails, MacInv
<1>7. ASSUME NEW how, H!Transcribe(how) PROVE Fit(m)'
  BY <1>7 DEF H!Transcribe, H!Say
<1>8. CASE H!SpeechStart \/ H!SpeechChunk
  BY <1>8 DEF H!SpeechStart, H!SpeechChunk, H!SpeechSend
<1>9. CASE H!SpeechDies
  BY <1>9 DEF H!SpeechDies
<1>10. ASSUME NEW how, H!SpeechEnd(how) PROVE Fit(m)'
  BY <1>10 DEF H!SpeechEnd, H!SpeechSend
<1> QED BY <1>1, <1>2, <1>3, <1>4, <1>5, <1>6, <1>7, <1>8, <1>9, <1>10 DEF HostStep, H!TaskStep

(* The first message is a legal one, or refused for one of the reasons a   *)
(* run may be refused for.                                                 *)
LEMMA FitIsLegal ==
  ASSUME MacInv, handler = "reading", NEW m, Fit(m), m.type # "torn"
  PROVE  \/ H!Legal(m)
         \/ m.type = "cancel" /\ phase = "complete"
         \/ m.type = "ack" /\ ~(now < expires)
         \/ m.type = "capture_start" /\ speaking # None
<1>1. \/ m.type \in {"hello", "cancel", "question_start", "question_end", "question_confirm"}
      \/ m.type \in {"capture_start", "capture_end", "turn", "ack", "speak", "speech_stop"}
  BY DEF Fit
<1>2. CASE m.type = "hello"
  BY <1>2 DEF Fit, H!Legal, H!MayHello
<1>3. CASE m.type = "cancel"
  BY <1>3 DEF Fit, H!Legal, H!Admitted, H!MayCancel
<1>4. CASE m.type = "question_start"
  BY <1>4 DEF Fit, H!Legal, H!Admitted, H!MayAsk, MacInv
<1>5. CASE m.type = "question_end"
  BY <1>5 DEF Fit, H!Legal, H!Admitted, H!MayEndQuestion, MacInv
<1>6. CASE m.type = "question_confirm"
  BY <1>6 DEF Fit, H!Legal, H!Admitted, H!MayConfirm, MacInv
<1>7. CASE m.type = "capture_start"
  BY <1>7 DEF Fit, H!Legal, H!Admitted, H!MayCapture
<1>8. CASE m.type = "capture_end"
  BY <1>8 DEF Fit, H!Legal, H!Admitted, H!MayEndCapture, H!Recording, MacInv
<1>9. CASE m.type = "turn"
  BY <1>9 DEF Fit, H!Legal, H!Admitted, H!MayTurn, MacInv
<1>10. CASE m.type = "ack"
  BY <1>10, NameFacts DEF Fit, H!Legal, H!Admitted, H!MayAck, H!Running, H!Terminal, MacInv,
     Stages, Before
<1>11. CASE m.type = "speak"
  BY <1>11 DEF Fit, H!Legal, H!Admitted, H!MaySpeak
<1>12. CASE m.type = "speech_stop"
  BY <1>12 DEF Fit, H!Legal, H!Admitted, H!MayStop
<1> QED BY <1>1, <1>2, <1>3, <1>4, <1>5, <1>6, <1>7, <1>8, <1>9, <1>10, <1>11, <1>12

(* The Mac counts as the library does.                                     *)
LEMMA Counting == \A S : H!Cardinality(S) = Cardinality(S)
BY DEF H!Cardinality, Cardinality

(* What is behind a message fits once that one was taken.                  *)
LEMMA NextFits ==
  ASSUME MacInv, HostReads, Fit(Head(toHost)), phase # "cancelled", handler' = "reading",
         NEW n, MayFollow(Head(toHost), n)
  PROVE  Fit(n)' /\ n.type # "speak"
<1> DEFINE m == Head(toHost)
<1> USE DEF H!ask_vars, H!reply_vars, H!speech_vars, H!wire_vars, H!Silent, H!Answer
<1>0. H!Receive(m) /\ handler = "reading" /\ m.type # "torn" /\ n.type # "speak"
  BY DEF HostReads, H!Receive, MayFollow
<1>1. \/ H!OnHello(m) \/ H!OnCancel(m) \/ H!OnQuestionStart(m) \/ H!OnQuestionEnd(m) \/ H!OnConfirm(m)
      \/ H!OnCaptureStart(m) \/ H!OnCaptureEnd(m) \/ H!OnTurn(m) \/ H!OnAck(m)
      \/ H!OnSpeak(m) \/ H!OnSpeechStop(m)
  <2>1. ~H!Refuse(m.type)
    BY DEF H!Refuse
  <2>2. ~H!OnExplain(m)
    BY DEF H!OnExplain, H!MayExplain, Fit
  <2> QED BY <1>0, <2>1, <2>2 DEF H!Receive, H!Handle
<1>2. CASE n.type \in {"torn", "cancel"}
  <2>1. m.type # "cancel"
    BY <1>2 DEF MayFollow
  <2>2. phase' \notin {"new", "cancelled"}
    <3>1. CASE H!OnHello(m) \/ H!OnQuestionStart(m) \/ H!OnQuestionEnd(m) \/ H!OnConfirm(m)
               \/ H!OnCaptureEnd(m) \/ H!OnTurn(m) \/ H!OnAck(m)
      BY <3>1 DEF H!OnHello, H!OnQuestionStart, H!OnQuestionEnd, H!OnConfirm, H!OnCaptureEnd,
                  H!OnTurn, H!OnAck
    <3>2. CASE H!OnSpeak(m) \/ H!OnSpeechStop(m)
      BY <1>0, <3>2 DEF H!OnSpeak, H!MaySpeak, H!OnSpeechStop, H!MayStop, Fit
    <3>3. CASE H!OnCaptureStart(m)
      <4>1. H!MayCapture(m) /\ phase' = Recordings[Len(ids) + 1]
        BY <3>3 DEF H!OnCaptureStart, Recordings
      <4>2. Len(ids) = 0 \/ Len(ids) = 1 \/ Len(ids) = 2
        BY <1>0, <4>1 DEF H!MayCapture, MacInv, Stages, Before
      <4> QED BY <4>1, <4>2, NextCapture
    <3>4. ~H!OnCancel(m)
      BY <2>1 DEF H!OnCancel, H!MayCancel
    <3> QED BY <1>1, <3>1, <3>2, <3>3, <3>4
  <2> QED BY <1>0, <1>2, <2>2 DEF Fit
<1>3. CASE m.type = "question_start" /\ n.type = "question_end"
  <2>1. H!OnQuestionStart(m) /\ n.key = m.key /\ n.valid
    BY <1>1, <1>3 DEF MayFollow, H!OnHello, H!OnCancel, H!OnQuestionStart, H!OnQuestionEnd,
       H!OnConfirm, H!OnCaptureStart, H!OnCaptureEnd, H!OnTurn, H!OnAck, H!OnSpeak,
       H!OnSpeechStop, H!MayHello, H!MayCancel, H!MayEndQuestion, H!MayConfirm, H!MayCapture,
       H!MayEndCapture, H!MayTurn, H!MayAck, H!MaySpeak, H!MayStop
  <2>2. phase' = "question_upload" /\ questionIds' = Append(questionIds, m.key)
    BY <2>1 DEF H!OnQuestionStart
  <2>3. questionIds'[Len(questionIds')] = m.key
    <3>1. questionIds \in Seq(Ids) /\ m.key \in Ids
      BY <1>0, <1>3, NameFacts DEF MacInv, Named, Fit, H!MayAsk
    <3> QED BY <2>2, <3>1
  <2> QED BY <1>3, <2>1, <2>2, <2>3 DEF Fit, H!MayEndQuestion, H!Running, H!Terminal
<1>4. CASE m.type = "question_confirm" /\ n.type \in {"question_start", "capture_start"}
  <2>1. H!OnConfirm(m)
    BY <1>1, <1>4 DEF H!OnHello, H!OnCancel, H!OnQuestionStart, H!OnQuestionEnd, H!OnConfirm,
       H!OnCaptureStart, H!OnCaptureEnd, H!OnTurn, H!OnAck, H!OnSpeak, H!OnSpeechStop,
       H!MayHello, H!MayCancel, H!MayAsk, H!MayEndQuestion, H!MayConfirm, H!MayCapture,
       H!MayEndCapture, H!MayTurn, H!MayAck, H!MaySpeak, H!MayStop
  <2>2. phase = "await_confirm" /\ m.key = heard /\ phase' = "await_a"
        /\ UNCHANGED <<questionIds, seen, ids>>
    BY <2>1 DEF H!OnConfirm, H!MayConfirm
  <2>3. /\ Named /\ Len(ids) = 0 /\ ids = <<>> /\ seen = {} /\ Len(questionIds) \in 1..MaxQuestions
        /\ m.key = questionNames[Len(questionIds)]
    <3>1. Named /\ Stages /\ Len(questionIds) > 0 /\ heard = questionIds[Len(questionIds)]
      BY <1>0, <2>2 DEF MacInv
    <3> QED BY <2>2, <3>1, NameFacts DEF Named, Stages
  <2>4. CASE n.type = "question_start"
    <3>1. PICK i \in 1..MaxQuestions - 1 : m.key = questionNames[i] /\ n.key = questionNames[i + 1]
      BY <1>4, <2>4 DEF MayFollow
    <3>2. Transcriber /\ i = Len(questionIds) /\ i + 1 \in 1..5 /\ MaxQuestions \in 0..5
      BY <1>4, <2>3, <2>4, <3>1, NameFacts DEF MayFollow
    <3>3. \A k \in 1..Len(questionIds) : questionIds[k] # n.key
      BY <2>3, <3>1, <3>2, NameFacts DEF Named
    <3>4. H!MayAsk(n)'
      BY <2>2, <2>3, <2>4, <3>2, <3>3 DEF H!MayAsk, H!Running, H!Terminal
    <3> QED BY <2>2, <2>4, <3>1, <3>2, <3>4 DEF Fit
  <2>5. CASE n.type = "capture_start"
    <3>1. n.key = "a" /\ n.key = captureNames[Len(ids) + 1]
      BY <1>4, <2>3, <2>5, NextCapture DEF MayFollow
    <3>2. \A k \in 1..Len(questionIds) : questionIds[k] # n.key
      BY <2>3, <3>1, NameFacts DEF Named
    <3>3. seen' = {} /\ H!Cardinality(seen') = 0
      BY <2>2, <2>3, FS_EmptySet, Counting
    <3>4. H!MayCapture(n)'
      BY <2>2, <2>3, <2>5, <3>2, <3>3 DEF H!MayCapture, H!Running, H!Terminal
    <3> QED BY <2>2, <2>5, <3>1, <3>4 DEF Fit
  <2> QED BY <1>4, <2>4, <2>5
<1>5. CASE m.type = "speak" /\ n.type = "speech_stop"
  <2>1. H!OnSpeak(m) /\ n.key = m.key
    BY <1>1, <1>5 DEF MayFollow, H!OnHello, H!OnCancel, H!OnQuestionStart, H!OnQuestionEnd,
       H!OnConfirm, H!OnCaptureStart, H!OnCaptureEnd, H!OnTurn, H!OnAck, H!OnSpeak,
       H!OnSpeechStop, H!MayHello, H!MayCancel, H!MayAsk, H!MayEndQuestion, H!MayConfirm,
       H!MayCapture, H!MayEndCapture, H!MayTurn, H!MayAck, H!MayStop
  <2> QED BY <1>5, <2>1 DEF Fit, H!OnSpeak, H!MaySpeak
<1>6. CASE m.type \in {"speak", "speech_stop"} /\ m.key = "r1" /\ n.type = "capture_start" /\ n.key = "b"
  <2>1. /\ phase \in {"adjust", "complete"} /\ acknowledged = "r1"
    BY <1>6 DEF Fit, H!MaySpeak
  <2>2. Named /\ phase = "adjust" /\ Len(ids) = 1 /\ seen = {"a"}
    BY <1>0, <2>1 DEF MacInv, Stages, Before
  <2>3. H!OnSpeak(m) \/ H!OnSpeechStop(m)
    BY <1>1, <1>6 DEF H!OnHello, H!OnCancel, H!OnQuestionStart, H!OnQuestionEnd, H!OnConfirm,
       H!OnCaptureStart, H!OnCaptureEnd, H!OnTurn, H!OnAck, H!MayHello, H!MayCancel,
       H!MayAsk, H!MayEndQuestion, H!MayConfirm, H!MayCapture, H!MayEndCapture, H!MayTurn, H!MayAck
  <2>4. UNCHANGED <<phase, questionIds, seen, ids>>
    BY <2>3 DEF H!OnSpeak, H!OnSpeechStop
  <2>5. n.key = captureNames[Len(ids) + 1]
    BY <1>6, <2>2, NextCapture
  <2>6. \A k \in 1..Len(questionIds) : questionIds[k] # n.key
    BY <1>6, <2>2, NameFacts DEF Named
  <2>7. seen' = {"a"} /\ H!Cardinality(seen') = 1
    BY <2>2, <2>4, FS_Singleton, Counting
  <2>8. H!MayCapture(n)'
    BY <1>6, <2>2, <2>4, <2>6, <2>7 DEF H!MayCapture, H!Running, H!Terminal
  <2> QED BY <1>6, <2>4, <2>5, <2>8 DEF Fit
<1> QED BY <1>2, <1>3, <1>4, <1>5, <1>6 DEF MayFollow

(* What each message does, when it is not refused.                         *)
Took(m) ==
  /\ m.type = "hello" =>
       /\ phase = "new" /\ phase' = "await_a" /\ outbox' = Append(outbox, H!Ready)
       /\ UNCHANGED <<questionIds, ids, speaking, spoken>>
  /\ m.type = "cancel" => phase' = "cancelled"
  /\ m.type = "question_start" =>
       /\ phase = "await_a" /\ phase' = "question_upload" /\ questionIds' = Append(questionIds, m.key)
       /\ m.key = questionNames[Len(questionIds) + 1] /\ m.key \in Ids
       /\ UNCHANGED <<outbox, ids, speaking, spoken>>
  /\ m.type = "question_end" =>
       /\ phase = "question_upload" /\ phase' = "transcribing" /\ m.key = questionIds[Len(questionIds)]
       /\ UNCHANGED <<outbox, questionIds, ids, speaking, spoken>>
  /\ m.type = "question_confirm" =>
       /\ phase = "await_confirm" /\ phase' = "await_a" /\ m.key = questionIds[Len(questionIds)]
       /\ UNCHANGED <<outbox, questionIds, ids, speaking, spoken>>
  /\ m.type = "capture_start" =>
       /\ m.key = captureNames[Len(ids) + 1] /\ phase' = Recordings[Len(ids) + 1]
       /\ Len(ids) \in 0..2 /\ speaking = None
       /\ outbox' = Append(outbox, [type |-> "capture_ack", key |-> m.key, stage |-> "start"])
       /\ UNCHANGED <<questionIds, ids, speaking, spoken>>
  /\ m.type = "capture_end" =>
       /\ Len(ids) \in 0..2 /\ m.key = captureNames[Len(ids) + 1] /\ ids' = Append(ids, m.key)
       /\ phase' = IF Len(ids) = 0 THEN "guide_ready" ELSE "compare_ready"
       /\ outbox' = Append(outbox, [type |-> "capture_ack", key |-> m.key, stage |-> "complete"])
       /\ UNCHANGED <<questionIds, speaking, spoken>>
  /\ m.type = "turn" => phase' = "pending" /\ UNCHANGED <<outbox, questionIds, ids, speaking, spoken>>
  /\ m.type = "ack" =>
       /\ speaking = None /\ spoken \subseteq (IF Len(ids) = 1 THEN {} ELSE {"r1"})
       /\ phase' = (IF Len(ids) = 1 THEN "adjust" ELSE "complete")
       /\ outbox' = Append(outbox, [type |-> "acknowledged", key |-> m.key, state |-> phase'])
       /\ UNCHANGED <<questionIds, ids, speaking, spoken>>
  /\ m.type = "speak" =>
       /\ phase \in {"adjust", "complete"} /\ m.key = acknowledged
       /\ spoken' = spoken \cup {m.key} /\ speaking' = m.key
       /\ UNCHANGED <<phase, outbox, questionIds, ids>>
  /\ m.type = "speech_stop" =>
       /\ phase \in {"adjust", "complete"} /\ m.key = acknowledged /\ m.key \in spoken
       /\ UNCHANGED <<phase, outbox, questionIds, ids, speaking, spoken>>

(* It takes a message that fits, and moves as Took says.                   *)
LEMMA Receiving ==
  ASSUME MacInv, HostReads, Fit(Head(toHost)), handler' = "reading"
  PROVE  Took(Head(toHost))
<1> DEFINE m == Head(toHost)
<1> USE DEF H!ask_vars, H!reply_vars, H!speech_vars, H!wire_vars, H!Silent, H!Answer
<1>0. H!Receive(m) /\ handler = "reading" /\ m.type # "torn" /\ Named /\ Stages
  <2>1. H!Receive(m) /\ handler = "reading"
    BY DEF HostReads, H!Receive
  <2>2. m.type # "torn"
    <3>1. ~H!Legal(m) => handler' = "closing"
      BY <2>1 DEF H!Receive, H!Refuse
    <3>2. H!Legal(m)
      BY <3>1
    <3> QED BY <3>2 DEF H!Legal, H!MayHello, H!MayCancel, H!MayAsk, H!MayEndQuestion, H!MayConfirm,
          H!MayCapture, H!MayEndCapture, H!MayTurn, H!MayExplain, H!MayAck, H!MaySpeak, H!MayStop
  <2> QED BY <2>1, <2>2 DEF MacInv
<1>1. \/ H!OnHello(m) \/ H!OnCancel(m) \/ H!OnQuestionStart(m) \/ H!OnQuestionEnd(m) \/ H!OnConfirm(m)
      \/ H!OnCaptureStart(m) \/ H!OnCaptureEnd(m) \/ H!OnTurn(m) \/ H!OnAck(m)
      \/ H!OnSpeak(m) \/ H!OnSpeechStop(m)
  <2>1. ~H!Refuse(m.type)
    BY DEF H!Refuse
  <2>2. ~H!OnExplain(m)
    BY DEF H!OnExplain, H!MayExplain, Fit
  <2> QED BY <1>0, <2>1, <2>2 DEF H!Receive, H!Handle
<1>2. CASE H!OnHello(m) \/ H!OnCancel(m)
  BY <1>2 DEF Took, H!OnHello, H!OnCancel, H!MayHello, H!MayCancel
<1>3. CASE H!OnQuestionStart(m)
  BY <1>0, <1>3, NameFacts DEF Took, H!OnQuestionStart, H!MayAsk, Fit, Named
<1>4. CASE H!OnQuestionEnd(m)
  BY <1>4 DEF Took, H!OnQuestionEnd, H!MayEndQuestion
<1>5. CASE H!OnConfirm(m)
  BY <1>0, <1>5 DEF Took, H!OnConfirm, H!MayConfirm, MacInv
<1>6. CASE H!OnCaptureStart(m)
  <2>1. H!MayCapture(m) /\ m.key = captureNames[Len(ids) + 1] /\ m.type = "capture_start"
    BY <1>6 DEF H!OnCaptureStart, H!MayCapture, Fit
  <2>2. Len(ids) \in 0..2
    <3>1. phase \in {"await_a", "adjust"} \/ (phase = "compare_ready" /\ Len(ids) = 2)
      BY <2>1 DEF H!MayCapture
    <3> QED BY <1>0, <3>1 DEF Stages, Before
  <2>3. speaking = None
    <3>1. H!Legal(m)
      BY <1>0 DEF H!Receive, H!Refuse
    <3> QED BY <2>1, <3>1 DEF H!Legal, H!MayHello, H!Admitted
  <2> QED BY <1>0, <1>6, <2>1, <2>2, <2>3 DEF Took, H!OnCaptureStart, Recordings
<1>7. CASE H!OnCaptureEnd(m)
  <2>1. /\ m.key \in seen /\ \A i \in 1..Len(ids) : ids[i] # m.key
        /\ phase \in {"recording_a", "recording_b", "recording_repeat"} /\ m.type = "capture_end"
    BY <1>7 DEF H!OnCaptureEnd, H!MayEndCapture, H!Recording
  <2>2. \/ Len(ids) = 0 /\ m.key = "a"
        \/ Len(ids) = 1 /\ m.key = "b"
        \/ Len(ids) = 2 /\ m.key = "r"
    <3>1. \/ Len(ids) = 0 /\ seen = {"a"}
          \/ Len(ids) = 1 /\ seen = {"a", "b"}
          \/ Len(ids) = 2 /\ seen = {"a", "b", "r"}
      BY <1>0, <2>1 DEF Stages, Before
    <3>2. \A i \in 1..Len(ids) : captureNames[i] # m.key
      BY <1>0, <2>1 DEF Named
    <3>3. captureNames[1] = "a" /\ captureNames[2] = "b"
      BY NameFacts
    <3>4. CASE Len(ids) = 0 /\ seen = {"a"}
      BY <2>1, <3>4
    <3>5. CASE Len(ids) = 1 /\ seen = {"a", "b"}
      <4>1. m.key # "a"
        BY <3>2, <3>3, <3>5
      <4> QED BY <2>1, <3>5, <4>1
    <3>6. CASE Len(ids) = 2 /\ seen = {"a", "b", "r"}
      <4>1. m.key # "a" /\ m.key # "b"
        BY <3>2, <3>3, <3>6
      <4> QED BY <2>1, <3>6, <4>1
    <3> QED BY <3>1, <3>4, <3>5, <3>6
  <2>3. Len(ids) \in 0..2 /\ m.key = captureNames[Len(ids) + 1]
    <3>1. \A n : n = 0 \/ n = 1 \/ n = 2 => n \in 0..2
      OBVIOUS
    <3>2. Len(ids) \in 0..2
      BY <2>2, <3>1
    <3>3. /\ Len(ids) = 0 => captureNames[Len(ids) + 1] = "a"
          /\ Len(ids) = 1 => captureNames[Len(ids) + 1] = "b"
          /\ Len(ids) = 2 => captureNames[Len(ids) + 1] = "r"
      BY NextCapture
    <3> QED BY <2>2, <3>2, <3>3
  <2>4. ids = <<>> <=> Len(ids) = 0
    BY <1>0 DEF Named
  <2> QED BY <1>7, <2>1, <2>3, <2>4 DEF Took, H!OnCaptureEnd
<1>8. CASE H!OnTurn(m)
  BY <1>8 DEF Took, H!OnTurn, H!MayTurn
<1>9. CASE H!OnAck(m)
  <2>1. phase = "await_ack" /\ speaking = None /\ m.type = "ack"
    BY <1>0, <1>9 DEF H!OnAck, H!MayAck, MacInv
  <2>2. spoken \subseteq (IF Len(ids) = 1 THEN {} ELSE {"r1"})
    BY <1>0, <2>1 DEF Stages, Before
  <2> QED BY <1>9, <2>1, <2>2 DEF Took, H!OnAck
<1>10. CASE H!OnSpeak(m)
  BY <1>10 DEF Took, H!OnSpeak, H!MaySpeak
<1>11. CASE H!OnSpeechStop(m)
  BY <1>11 DEF Took, H!OnSpeechStop, H!MayStop, Fit
<1> QED BY <1>1, <1>2, <1>3, <1>4, <1>5, <1>6, <1>7, <1>8, <1>9, <1>10, <1>11

(* A message that was taken is no longer ahead: the Mac has begun, and is  *)
(* cancelled only by a cancel.                                             *)
LEMMA GoesOn ==
  ASSUME MacInv, HostReads, Fit(Head(toHost)), handler' = "reading"
  PROVE  phase' # "new" /\ (phase' = "cancelled" => phase = "cancelled" \/ Head(toHost).type = "cancel")
<1> DEFINE m == Head(toHost)
<1>1. Took(m)
  BY Receiving
<1>2. \/ m.type \in {"hello", "cancel", "question_start", "question_end", "question_confirm"}
      \/ m.type \in {"capture_start", "capture_end", "turn", "ack", "speak", "speech_stop"}
  <2>1. m.type # "torn"
    <3>1. H!Legal(m)
      BY DEF HostReads, H!Receive, H!Refuse
    <3> QED BY <3>1 DEF H!Legal, H!MayHello, H!MayCancel, H!MayAsk, H!MayEndQuestion, H!MayConfirm,
          H!MayCapture, H!MayEndCapture, H!MayTurn, H!MayExplain, H!MayAck, H!MaySpeak, H!MayStop
  <2> QED BY <2>1 DEF Fit
<1>3. ASSUME m.type = "capture_start"
      PROVE  phase' \in {"recording_a", "recording_b", "recording_repeat"}
  <2>1. Len(ids) \in 0..2 /\ phase' = Recordings[Len(ids) + 1]
    BY <1>1, <1>3 DEF Took
  <2>2. Len(ids) = 0 \/ Len(ids) = 1 \/ Len(ids) = 2
    BY <2>1
  <2> QED BY <2>1, <2>2, NextCapture
<1> QED BY <1>1, <1>2, <1>3 DEF Took

-----------------------------------------------------------------------------
(* The queue through the steps of the device.                              *)
LastSent == toHost[Len(toHost)]
failed == playback = "failed"

(* A message fits for as long as the Mac does nothing.                     *)
LEMMA FitKept ==
  ASSUME UNCHANGED h_vars, NEW m, Fit(m)
  PROVE  Fit(m)'
BY DEF Fit, h_vars, H!MayAsk, H!MayEndQuestion, H!MayConfirm, H!MayCapture, H!MayEndCapture,
       H!MayTurn, H!MaySpeak, H!Running, H!Terminal, H!Recording

(* Steps that send nothing.                                                *)
LEMMA QueueFrame ==
  ASSUME QueueInv, UNCHANGED <<h_vars, toHost>>, broken => broken', Cancelling => Cancelling',
         failed => failed'
  PROVE  QueueInv'
<1>1. UNCHANGED h_vars /\ \A m : Fit(m) => Fit(m)'
  <2> SUFFICES ASSUME NEW m, Fit(m) PROVE Fit(m)'
    OBVIOUS
  <2> QED BY FitKept
<1>2. UNCHANGED <<handler, phase, speaking, toHost>>
  BY DEF h_vars
<1> QED BY <1>1, <1>2 DEF QueueInv, SpeakFirst, failed

(* A message, or a part of one, is written behind the others.              *)
LEMMA SendKeeps ==
  ASSUME QueueInv, Channel, UNCHANGED h_vars, broken => broken', Cancelling => Cancelling',
         failed => failed', NEW m, toHost' = Append(toHost, m),
         m.type = "cancel" => Cancelling', m.type = "torn" => broken',
         handler = "reading" /\ toHost = <<>> => Fit(m),
         toHost # <<>> => MayFollow(LastSent, m),
         handler = "reading" => phase # "cancelled",
         handler = "reading" /\ m.type = "capture_start" => failed \/ (speaking = None /\ ~SpeakFirst)
  PROVE  QueueInv'
<1>1. UNCHANGED h_vars /\ \A n : Fit(n) => Fit(n)'
  <2> SUFFICES ASSUME NEW n, Fit(n) PROVE Fit(n)'
    OBVIOUS
  <2> QED BY FitKept
<1>2. UNCHANGED <<handler, phase, speaking>>
  BY DEF h_vars
<1>3. /\ Len(toHost) \in Nat /\ Len(toHost') = Len(toHost) + 1 /\ toHost'[Len(toHost) + 1] = m
      /\ \A i \in 1..Len(toHost) : toHost'[i] = toHost[i]
      /\ toHost' # <<>> /\ (toHost = <<>> <=> Len(toHost) = 0)
  <2>1. toHost \in Seq({toHost[i] : i \in DOMAIN toHost})
    BY DEF Channel
  <2>2. /\ toHost' \in Seq({toHost'[i] : i \in DOMAIN toHost'})
        /\ Len(toHost) \in Nat /\ Len(toHost') = Len(toHost) + 1
        /\ toHost'[Len(toHost')] = m
        /\ \A i \in 1..Len(toHost) : toHost'[i] = toHost[i]
    BY <2>1, Appended
  <2>3. toHost' # <<>>
    BY <2>2
  <2>4. toHost = <<>> <=> Len(toHost) = 0
    BY <2>1
  <2> QED BY <2>2, <2>3, <2>4
<1>4. handler' = "reading" => Fit(toHost[1])'
  <2>1. CASE toHost = <<>>
    <3>1. toHost'[1] = m
      BY <1>3, <2>1
    <3> QED BY <1>1, <1>2, <2>1, <3>1
  <2>2. CASE toHost # <<>>
    <3>1. toHost'[1] = toHost[1]
      BY <1>3, <2>2
    <3> QED BY <1>1, <1>2, <2>2, <3>1 DEF QueueInv
  <2> QED BY <2>1, <2>2
<1>5. ASSUME NEW i \in 1..Len(toHost') - 1 PROVE MayFollow(toHost'[i], toHost'[i + 1])
  <2>1. CASE i = Len(toHost)
    BY <1>3, <1>5, <2>1 DEF LastSent
  <2>2. CASE i # Len(toHost)
    <3>1. i \in 1..Len(toHost) - 1 /\ i \in 1..Len(toHost) /\ i + 1 \in 1..Len(toHost)
      BY <1>3, <1>5, <2>2
    <3> QED BY <1>3, <3>1 DEF QueueInv
  <2> QED BY <2>1, <2>2
<1>6. ASSUME NEW i \in 1..Len(toHost')
      PROVE  /\ toHost'[i].type = "cancel" => Cancelling'
             /\ toHost'[i].type = "torn" => broken'
  <2>1. i \in 1..Len(toHost) \/ i = Len(toHost) + 1
    BY <1>3, <1>6
  <2> QED BY <1>3, <2>1 DEF QueueInv
<1>7. ASSUME handler' = "reading", NEW i \in 1..Len(toHost'), toHost'[i].type = "capture_start"
      PROVE  failed' \/ (speaking' = None /\ ~SpeakFirst')
  <2>1. CASE i \in 1..Len(toHost)
    <3>1. toHost # <<>> /\ toHost'[1] = toHost[1] /\ toHost[i].type = "capture_start"
      BY <1>3, <1>7, <2>1
    <3> QED BY <1>2, <1>7, <2>1, <3>1 DEF QueueInv, SpeakFirst, failed
  <2>2. CASE i = Len(toHost) + 1
    <3>1. m.type = "capture_start"
      BY <1>3, <1>7, <2>2
    <3>2. toHost # <<>> => toHost'[1] = toHost[1]
      BY <1>3
    <3>3. toHost = <<>> => toHost'[1] = m
      BY <1>3
    <3> QED BY <1>2, <1>7, <3>1, <3>2, <3>3 DEF SpeakFirst, failed
  <2> QED BY <1>3, <1>7, <2>1, <2>2
<1> QED BY <1>2, <1>3, <1>4, <1>5, <1>6, <1>7 DEF QueueInv, failed

(* Only a frame cut short or a cancel can follow anything.                 *)
LEMMA TornKeeps ==
  ASSUME QueueInv, Channel, ~Cancelling, UNCHANGED h_vars, failed => failed', NEW next, CutShort(next)
  PROVE  QueueInv'
<1>1. broken' /\ (toHost' = toHost \/ (~broken /\ toHost' = Append(toHost, Torn)))
  BY DEF CutShort
<1>2. CASE toHost' = toHost
  BY <1>1, <1>2, QueueFrame
<1>3. CASE ~broken /\ toHost' = Append(toHost, Torn)
  <2>1. Torn.type = "torn"
    BY DEF Torn
  <2>2. Fit(Torn)
    BY <2>1 DEF Fit
  <2>3. ASSUME toHost # <<>> PROVE MayFollow(LastSent, Torn)
    <3>1. Len(toHost) \in 1..Len(toHost)
      <4>1. toHost \in Seq({toHost[i] : i \in DOMAIN toHost})
        BY DEF Channel
      <4> QED BY <2>3, <4>1
    <3>2. toHost[Len(toHost)].type \notin {"cancel", "torn"}
      BY <1>3, <3>1 DEF QueueInv
    <3> QED BY <2>1, <3>2 DEF MayFollow, LastSent
  <2>4. handler = "reading" => phase # "cancelled"
    BY DEF QueueInv
  <2> QED BY <1>1, <1>3, <2>1, <2>2, <2>3, <2>4, SendKeeps
<1> QED BY <1>1, <1>2, <1>3

(* The front of the queue after the Mac took a message, and what is left.  *)
LEMMA TakenQueue ==
  ASSUME Channel, toHost # <<>>, toHost' = Tail(toHost)
  PROVE  /\ Head(toHost) = toHost[1] /\ Len(toHost) \in Nat \ {0}
         /\ Len(toHost') = Len(toHost) - 1 /\ (toHost' = <<>> <=> Len(toHost) = 1)
         /\ \A i \in 1..Len(toHost') : i + 1 \in 1..Len(toHost) /\ toHost'[i] = toHost[i + 1]
         /\ toHost' # <<>> => toHost'[Len(toHost')] = toHost[Len(toHost)] /\ 2 \in 1..Len(toHost)
<1> DEFINE S == {toHost[i] : i \in DOMAIN toHost}
<1>1. toHost \in Seq(S)
  BY DEF Channel
<1> HIDE DEF S
<1>2. /\ toHost' \in Seq(S) /\ Len(toHost) = Len(toHost') + 1 /\ Len(toHost') \in Nat
      /\ \A i \in 1..Len(toHost') : toHost'[i] = toHost[i + 1] /\ i + 1 \in 1..Len(toHost)
  BY <1>1, TailOf
<1>3. Head(toHost) = toHost[1] /\ Len(toHost) \in Nat \ {0}
  BY <1>1
<1>4. toHost' = <<>> <=> Len(toHost') = 0
  BY <1>2
<1>5. ASSUME toHost' # <<>>
      PROVE  toHost'[Len(toHost')] = toHost[Len(toHost)] /\ 2 \in 1..Len(toHost)
  <2>1. Len(toHost') \in 1..Len(toHost')
    BY <1>2, <1>4, <1>5
  <2> QED BY <1>2, <2>1
<1> QED BY <1>2, <1>3, <1>4, <1>5

(* The Mac takes a message.                                                *)
LEMMA QueueOnMessage ==
  ASSUME QueueInv, MacInv, Channel, HostReads
  PROVE  QueueInv'
<1> DEFINE m == Head(toHost)
<1>1. /\ handler = "reading" /\ toHost # <<>> /\ toHost' = Tail(toHost)
      /\ UNCHANGED <<broken, cancelled, state, pc, playback>>
  BY DEF HostReads, H!Receive, device_vars, d_vars, stream_vars, ui_vars
<1>2. /\ m = toHost[1] /\ Len(toHost) \in Nat \ {0}
      /\ Len(toHost') = Len(toHost) - 1 /\ (toHost' = <<>> <=> Len(toHost) = 1)
      /\ \A i \in 1..Len(toHost') : i + 1 \in 1..Len(toHost) /\ toHost'[i] = toHost[i + 1]
      /\ toHost' # <<>> => 2 \in 1..Len(toHost)
  BY <1>1, TakenQueue
<1>3. Fit(m) /\ phase # "cancelled" /\ (Cancelling <=> Cancelling')
  BY <1>1, <1>2 DEF QueueInv, Cancelling
<1>4. ASSUME handler' = "reading", toHost' # <<>>
      PROVE  Fit(toHost[1])' /\ toHost'[1].type # "speak"
  <2>1. toHost'[1] = toHost[2] /\ 1 \in 1..Len(toHost) - 1
    BY <1>2, <1>4
  <2>2. MayFollow(m, toHost[2])
    BY <1>2, <2>1 DEF QueueInv
  <2>3. \A n : MayFollow(m, n) => Fit(n)' /\ n.type # "speak"
    BY <1>3, <1>4, NextFits
  <2> QED BY <2>1, <2>2, <2>3
<1>5. ASSUME NEW i \in 1..Len(toHost') - 1 PROVE MayFollow(toHost'[i], toHost'[i + 1])
  <2>1. /\ i \in 1..Len(toHost') /\ i + 1 \in 1..Len(toHost') /\ i + 1 \in 1..Len(toHost) - 1
    BY <1>2
  <2> QED BY <1>2, <2>1 DEF QueueInv
<1>6. ASSUME NEW i \in 1..Len(toHost')
      PROVE  /\ toHost'[i].type = "cancel" => Cancelling'
             /\ toHost'[i].type = "torn" => broken'
  BY <1>1, <1>2, <1>3 DEF QueueInv
<1>7. ASSUME handler' = "reading" PROVE phase' # "new" /\ (phase' = "cancelled" => Cancelling' /\ toHost' = <<>>)
  <2>1. phase' # "new" /\ (phase' = "cancelled" => m.type = "cancel")
    BY <1>3, <1>7, GoesOn
  <2>2. m.type = "cancel" => Cancelling' /\ toHost' = <<>>
    <3> SUFFICES ASSUME m.type = "cancel" PROVE Cancelling' /\ Len(toHost) = 1
      BY <1>2
    <3>1. 1 \in 1..Len(toHost)
      BY <1>2
    <3>2. Cancelling
      BY <1>2, <3>1 DEF QueueInv
    <3>3. ~MayFollow(m, toHost[2])
      BY DEF MayFollow
    <3>4. 1 \notin 1..Len(toHost) - 1
      BY <1>2, <3>3 DEF QueueInv
    <3> QED BY <1>2, <1>3, <3>2, <3>4
  <2> QED BY <2>1, <2>2
<1>8. ASSUME handler' = "reading", NEW i \in 1..Len(toHost'), toHost'[i].type = "capture_start"
      PROVE  failed' \/ (speaking' = None /\ ~SpeakFirst')
  <2>1. toHost[i + 1].type = "capture_start" /\ i + 1 \in 1..Len(toHost) /\ toHost' # <<>>
    BY <1>2, <1>8
  <2>2. failed \/ (speaking = None /\ ~SpeakFirst)
    BY <1>1, <2>1 DEF QueueInv, failed
  <2>3. CASE failed
    BY <1>1, <2>3 DEF failed
  <2>4. CASE speaking = None /\ ~SpeakFirst
    <3>1. Took(m) /\ m.type # "speak"
      BY <1>1, <1>2, <1>3, <1>8, <2>4, Receiving DEF SpeakFirst
    <3>2. speaking' = None
      <4>1. H!Legal(m) /\ H!Handle(m)
        BY <1>8 DEF HostReads, H!Receive, H!Refuse
      <4> QED BY <2>4, <3>1, <4>1 DEF H!Handle, H!OnHello, H!OnCancel, H!OnQuestionStart,
         H!OnQuestionEnd, H!OnConfirm, H!OnCaptureStart, H!OnCaptureEnd, H!OnTurn, H!OnExplain,
         H!OnAck, H!OnSpeak, H!MaySpeak, H!OnSpeechStop, H!speech_vars
    <3>3. ~SpeakFirst'
      BY <1>4, <1>8 DEF SpeakFirst
    <3> QED BY <3>2, <3>3
  <2> QED BY <2>2, <2>3, <2>4
<1> QED BY <1>4, <1>5, <1>6, <1>7, <1>8 DEF QueueInv, failed

(* A task of the Mac ends.                                                 *)
LEMMA QueueWaits ==
  ASSUME QueueInv, MacInv, HostStep
  PROVE  QueueInv'
<1>1. UNCHANGED <<toHost, broken, cancelled, state, pc, playback>>
  BY DEF HostStep, device_vars, d_vars, stream_vars, ui_vars
<1> USE DEF H!ask_vars, H!reply_vars, H!speech_vars, H!wire_vars
<1>2. ASSUME handler' = "reading"
      PROVE  /\ handler = "reading" /\ (phase' \in {"new", "cancelled"} => phase = phase')
             /\ speaking = None => speaking' = None
  <2>1. CASE H!IdleTimeout \/ H!Disconnected \/ H!Close \/ H!Drop
    BY <1>2, <2>1 DEF H!IdleTimeout, H!Refuse, H!Disconnected, H!Close, H!Drop
  <2>2. CASE H!Respond \/ H!RespondFails \/ H!RespondDropped \/ H!Explain \/ H!ExplainFails
    BY <1>2, <2>2 DEF H!Respond, H!RespondFails, H!RespondDropped, H!Explain, H!ExplainFails,
                      H!Failed, H!Say
  <2>3. ASSUME NEW how, H!Transcribe(how)
        PROVE  /\ handler = "reading" /\ (phase' \in {"new", "cancelled"} => phase = phase')
               /\ speaking = None => speaking' = None
    BY <1>2, <2>3 DEF H!Transcribe, H!Say
  <2>4. CASE H!SpeechStart \/ H!SpeechChunk \/ H!SpeechDies
    BY <1>2, <2>4 DEF H!SpeechStart, H!SpeechChunk, H!SpeechDies, H!SpeechSend
  <2>5. ASSUME NEW how, H!SpeechEnd(how)
        PROVE  /\ handler = "reading" /\ (phase' \in {"new", "cancelled"} => phase = phase')
               /\ speaking = None => speaking' = None
    BY <1>2, <2>5 DEF H!SpeechEnd, H!SpeechSend
  <2> QED BY <2>1, <2>2, <2>3, <2>4, <2>5 DEF HostStep, H!TaskStep
<1>3. ASSUME handler' = "reading", toHost # <<>> PROVE Fit(toHost[1])'
  <2>1. Fit(toHost[1]) /\ handler = "reading"
    BY <1>2, <1>3 DEF QueueInv
  <2>2. \A m : Fit(m) => Fit(m)'
    BY <1>3, <2>1, FitWaits
  <2> QED BY <1>1, <2>1, <2>2
<1> QED BY <1>1, <1>2, <1>3 DEF QueueInv, Cancelling, SpeakFirst

(* A cancel is final.                                                      *)
LEMMA CancellingStays ==
  ASSUME Cancelling, [Next]_vars
  PROVE  Cancelling'
<1> USE DEF Cancelling, D!Enter
<1>1. CASE Finish \/ Tap \/ HostReads \/ HostStep \/ Advance \/ UNCHANGED vars
  BY <1>1 DEF Finish, Tap, Cancel, Choose, HostReads, HostStep, Advance, device_vars, vars, d_vars,
              ui_vars
<1>2. CASE Final
  BY <1>2 DEF Final, D!Cancel
<1>3. ~(Stop \/ PollError \/ DeviceFails \/ Begin \/ Connect \/ Prompt \/ Act \/ TellConfirm
        \/ AskQuestion \/ StopListening \/ QuestionRecorded \/ UploadQuestion
        \/ Record \/ Recorded \/ Upload \/ WalkBack \/ Turn \/ Ack
        \/ Guidance \/ Spoken \/ ConfirmB \/ Speak \/ StopSpeech \/ SpeechOver
        \/ End \/ LastSpeech \/ EndSpeech \/ Read)
  BY DEF Stop, PollError, DeviceFails, Begin, Connect, Prompt, Act, TellConfirm, AskQuestion,
     StopListening, QuestionRecorded, UploadQuestion, Record, Recorded, Upload, WalkBack, Turn,
     Ack, Guidance, Spoken, ConfirmB, Speak, StopSpeech, SpeechOver, End, LastSpeech, EndSpeech,
     Read, Checked, Polling
<1> QED BY <1>1, <1>2, <1>3 DEF Next, MediaTask

-----------------------------------------------------------------------------
(* What the device has not read: while it goes on and no reading was given *)
(* up, at most the answer it waits for, or the stream it plays.            *)
SpeechTypes == {"speech_start", "speech_chunk", "speech_end"}
Waiting == {"hello", "transcript", "started", "stored", "reply", "acked"}
AllRead == received = Len(outbox)
OneUnread == Len(outbox) = received + 1

Going == ~cancelled /\ ~D!terminal /\ pc \notin {"begin", "connect"}

InStream ==
  /\ \A i \in received + 1..Len(outbox) :
       outbox[i].type \in SpeechTypes /\ (outbox[i].type = "speech_end" => i = Len(outbox))
  /\ playback = "ended" => AllRead

UnreadInv ==
  Going /\ ~failed =>
    /\ pc = "speech" => InStream
    /\ pc \in Waiting => AllRead \/ OneUnread
    /\ pc \notin Waiting \cup {"speech"} => AllRead

(* A reading was given up on: the rest of the stream is still ahead of the *)
(* answer to the next capture, so the run does not get past it.            *)
Behind ==
  /\ pc \in {"spoken", "confirm_b", "prompt", "choose", "ask", "record", "recording", "upload",
             "started"}
  /\ state \in {"adjust", "ready_b", "recording_b"} \/ (state = "uploading" /\ D!count = 2)
  /\ ~AllRead => Message.type \in SpeechTypes
  /\ AllRead /\ link => speaking # None \/ SpeakFirst

FailedInv ==
  failed => \/ pc \in Over /\ (pc \in {"end", "final"} => state # "complete")
            \/ pc = "spoken" /\ (cancelled \/ state # "adjust")
            \/ Behind

(* The two sides while the connection is good: for each place of the run,  *)
(* where the Mac is, or what is on its way to it.                          *)
Live == link /\ ~broken /\ ~cancelled /\ ~Dead
Idle == AllRead /\ toHost = <<>>
Only(type) == AllRead /\ toHost # <<>> /\ LastSent.type = type
Told == OneUnread /\ toHost = <<>>

AwaitA(n) ==
  \/ Idle /\ phase = "await_a" /\ Len(questionIds) = n
  \/ Only("question_confirm") /\ n > 0 /\ LastSent.key = questionNames[n]

Unasked == state \in {"ready_a", "asking", "recording_a"} \/ (pc = "upload" /\ D!count = 1)
BeforeB ==
  \/ state \in {"ready_b", "recording_b"}
  \/ state = "adjust" /\ pc \in {"spoken", "confirm_b"}
  \/ pc = "upload" /\ D!count = 2
BeforeR == state \in {"return_a", "recording_repeat"} \/ (pc = "upload" /\ D!count = 3)
ReadyFor == IF D!count = 1 THEN "guide_ready" ELSE "compare_ready"
Answered == IF D!count = 1 THEN "adjust" ELSE "complete"

SyncAsk ==
  /\ pc = "hello" => Only("hello") \/ (Told /\ phase = "await_a" /\ Len(questionIds) = 0)
  /\ state = "confirming" \/ pc \in {"use", "discard"} =>
       Idle /\ phase = "await_confirm" /\ Len(questionIds) = questions
  /\ Unasked /\ pc \notin {"use", "discard"} => AwaitA(questions)
  /\ pc = "question" => questions > 0 /\ AwaitA(questions - 1)
  /\ pc = "question_end" =>
       \/ Idle /\ phase = "question_upload" /\ Len(questionIds) = questions
       \/ Only("question_start") /\ LastSent.key = questionId
  /\ pc = "transcript" =>
       \/ Idle /\ phase = "transcribing" /\ Len(questionIds) = questions
       \/ Only("question_end") /\ LastSent.key = questionId
       \/ /\ Told /\ Len(questionIds) = questions
          /\ phase = IF Message.status = "heard" THEN "await_confirm" ELSE "await_a"

SyncCapture ==
  /\ BeforeB =>
       /\ toHost = <<>> => phase = "adjust"
       /\ toHost # <<>> => LastSent.type \in {"speak", "speech_stop"} /\ LastSent.key = "r1"
       /\ failed \/ (AllRead /\ speaking = None /\ ~SpeakFirst)
  /\ BeforeR => Idle /\ phase = "compare_ready" /\ Len(ids) = 2
  /\ pc = "started" =>
       \/ failed
       \/ Only("capture_start") /\ LastSent.key = captureNames[D!count]
       \/ Told /\ phase = Recordings[D!count] /\ Len(ids) = D!count - 1
  /\ pc = "capture_end" => Idle /\ phase = Recordings[D!count] /\ Len(ids) = D!count - 1
  /\ pc = "stored" =>
       \/ Only("capture_end") /\ LastSent.key = captureNames[D!count]
       \/ Told /\ phase = ReadyFor /\ Len(ids) = D!count
  /\ pc = "uploaded" => Idle /\ phase = ReadyFor /\ Len(ids) = D!count

SyncReply ==
  /\ pc \in {"reply", "ack", "acked"} => Len(ids) = D!count
  /\ pc = "reply" =>
       \/ Idle /\ phase = "pending"
       \/ Only("turn")
       \/ Told /\ (phase = "await_ack" \/ (phase = "incomplete" /\ Message.type = "incomplete"))
  /\ pc = "ack" => Idle /\ phase = "await_ack"
  /\ pc = "acked" =>
       \/ Only("ack")
       \/ Told /\ phase = Answered /\ speaking = None /\ D!request \notin spoken

SpeakSync ==
  \/ SpeakFirst /\ AllRead /\ playback # "ended"
  \/ /\ ~SpeakFirst /\ speaking # None /\ playback # "ended"
     /\ \A i \in received + 1..Len(outbox) : outbox[i].type # "speech_end"
  \/ ~SpeakFirst /\ speaking = None /\ playback = "ended" /\ AllRead
  \/ /\ ~SpeakFirst /\ speaking = None /\ playback # "ended" /\ ~AllRead
     /\ \A i \in received + 1..Len(outbox) : outbox[i].type = "speech_end" <=> i = Len(outbox)

SyncSpeak ==
  /\ pc \in {"guidance", "speak"} \/ (pc \in {"end", "final", "last"} /\ state = "complete") =>
       Idle /\ phase = Answered /\ speaking = None /\ speechKey \notin spoken
  /\ pc = "speech" =>
       /\ toHost = <<>> => phase = Answered /\ speechKey \in spoken
       /\ \A i \in 1..Len(toHost) :
            /\ toHost[i].type \in {"speak", "speech_stop"} /\ toHost[i].key = speechKey
            /\ toHost[i].type = "speech_stop" => stopped
  /\ pc = "speech" /\ state = "adjust" => SpeakSync

Sync == Live => SyncAsk /\ SyncCapture /\ SyncReply /\ SyncSpeak

(* Time is a number.                                                       *)
TimeInv ==
  /\ now \in Nat /\ deadline \in Nat /\ expires \in Int
  /\ \A i \in 1..Len(toHost) :
       toHost[i].type = "turn" => toHost[i].sent \in Nat /\ toHost[i].deadline \in Nat

-----------------------------------------------------------------------------
(* A reading given up on, through the steps of the device.                 *)
LEMMA FailedStays ==
  ASSUME FailedInv, failed, [Next]_vars
  PROVE  failed'
<1>1. pc \notin {"speak", "speech"}
  BY DEF FailedInv, Over, Behind
<1> USE DEF failed, stream_vars
<1>2. CASE Stop \/ PollError \/ DeviceFails \/ Begin \/ Connect \/ Prompt \/ Act \/ TellConfirm
           \/ AskQuestion \/ StopListening \/ QuestionRecorded \/ UploadQuestion
           \/ Record \/ Recorded \/ Upload \/ WalkBack \/ Turn \/ Ack
  BY <1>2 DEF Stop, PollError, DeviceFails, Begin, Connect, Prompt, Act, TellConfirm,
     AskQuestion, StopListening, QuestionRecorded, UploadQuestion, Record, Recorded, Upload,
     WalkBack, Turn, Ack
<1>3. CASE Guidance \/ Spoken \/ ConfirmB \/ End \/ Final \/ LastSpeech \/ EndSpeech \/ Finish \/ Tap
           \/ HostReads \/ HostStep \/ Advance \/ UNCHANGED vars
  BY <1>3 DEF Guidance, Spoken, ConfirmB, End, Final, LastSpeech, EndSpeech, Finish, Tap,
     Cancel, Choose, HostReads, HostStep, Advance, device_vars, vars
<1>4. CASE Read
  BY <1>1, <1>4 DEF Read, OnReply, OnCaptureAck, OnSpeech, Unexpected
<1> QED BY <1>1, <1>2, <1>3, <1>4 DEF Next, MediaTask, Speak, StopSpeech, SpeechOver

(* It begins when a reading times out.                                     *)
LEMMA GivesUp ==
  ASSUME FailedInv, ScreenInv, PlaceInv, SaidInv, UnreadInv, Sync, SpeechOver, failed'
  PROVE  FailedInv'
<1>1. /\ pc = "speech" /\ playback # "ended" /\ pc' = "spoken"
      /\ UNCHANGED <<state, captures, cancelled, outbox, received, link, speaking, toHost>>
  BY DEF SpeechOver, failed, d_vars, h_vars, socket_vars, ui_vars
<1>2. CASE cancelled \/ state # "adjust"
  BY <1>1, <1>2 DEF FailedInv
<1>3. CASE ~cancelled /\ state = "adjust"
  <2>1. ~failed /\ ~broken
    BY <1>1 DEF FailedInv, Over, Behind, PlaceInv
  <2>2. InStream
    BY <1>1, <1>3, <2>1 DEF UnreadInv, Going, D!terminal, D!TerminalStates
  <2>3. ~AllRead => Message.type \in SpeechTypes
    BY <2>2 DEF SaidInv, InStream, AllRead, Message
  <2>4. AllRead /\ link => speaking # None \/ SpeakFirst
    BY <1>1, <1>3, <2>1 DEF Sync, Live, Dead, SyncSpeak, SpeakSync
  <2>5. Behind'
    BY <1>1, <1>3, <2>3, <2>4 DEF Behind, AllRead, Message, SpeakFirst
  <2> QED BY <2>5 DEF FailedInv
<1> QED BY <1>2, <1>3

(* And it goes no further than the next capture.                           *)
LEMMA BehindGoes ==
  ASSUME Behind, PlaceInv, CountInv, SaidInv, StageInv, Channel, MediaTask
  PROVE  Behind' \/ (pc' = "end" /\ state' # "complete")
<1> USE DEF Behind
<1>1. /\ UNCHANGED <<outbox, speaking>>
      /\ ~D!terminal /\ D!count \in 1..2
  <2>1. UNCHANGED h_vars
    BY DEF MediaTask, Stop, PollError, DeviceFails, Begin, Connect, Prompt, Act,
       TellConfirm, AskQuestion, StopListening, QuestionRecorded, UploadQuestion, Record,
       Recorded, Upload, WalkBack, Turn, Ack, Guidance, Spoken, ConfirmB, Speak, StopSpeech,
       SpeechOver, End, Final, LastSpeech, EndSpeech, Finish, Read
  <2> QED BY <2>1 DEF h_vars, CountInv, D!terminal, D!TerminalStates
<1>2. CASE Stop \/ PollError \/ DeviceFails
  <2>1. pc' = "end"
    BY <1>2 DEF Stop, PollError, DeviceFails
  <2>2. state' # "complete"
    BY <1>1, <1>2, Ending DEF Stop, PollError, DeviceFails, Active, d_vars, D!terminal,
       D!TerminalStates
  <2> QED BY <2>1, <2>2
<1> USE DEF AllRead, Message, SpeakFirst, d_vars, socket_vars, D!count
<1>3. CASE Prompt \/ Act
  BY <1>1, <1>3 DEF Prompt, Act
<1>4. CASE Record
  BY <1>1, <1>4 DEF Record, D!StartCapture
<1>5. CASE Recorded
  <2>1. state = "recording_b" /\ D!count = 1 /\ state' = "uploading" /\ pc' = "upload" /\ D!count' = 2
    BY <1>1, <1>5 DEF Recorded, D!Captured, D!Acceptable, D!RecordingStates, D!Enter, CountInv
  <2> QED BY <1>1, <1>5, <2>1 DEF Recorded
<1>6. CASE Upload
  <2>1. CASE Lost /\ Fail
    BY <1>1, <2>1, Ending, SendsOrCuts DEF Lost, Fail, D!Fail, D!Enter, D!terminal, D!TerminalStates
  <2>2. ASSUME pc = "upload", Sent([type |-> "capture_start", key |-> captureId], "started"), UNCHANGED d_vars,
               UNCHANGED received
        PROVE  Behind'
    <3>1. UNCHANGED link /\ pc' = "started" /\ UNCHANGED <<captures, state>>
      BY <2>2 DEF Sent
    <3>2. SpeakFirst => SpeakFirst'
      <4>1. ASSUME NEW m, toHost # <<>>, toHost' = Append(toHost, m)
            PROVE  toHost' # <<>> /\ toHost'[1] = toHost[1]
        <5>1. /\ toHost' \in Seq({toHost'[i] : i \in DOMAIN toHost'}) /\ Len(toHost) \in Nat
              /\ Len(toHost') = Len(toHost) + 1 /\ \A i \in 1..Len(toHost) : toHost'[i] = toHost[i]
          BY <4>1, Appended DEF Channel
        <5>2. 1 \in 1..Len(toHost)
          BY <4>1, <5>1 DEF Channel
        <5> QED BY <5>1, <5>2
      <4> QED BY <2>2, <4>1 DEF Sent
    <3> QED BY <1>1, <2>2, <3>1, <3>2
  <2> QED BY <1>1, <1>6, <2>1, <2>2 DEF Upload
<1>7. CASE Spoken \/ ConfirmB
  BY <1>1, <1>7 DEF Spoken, ConfirmB, D!Adjust
<1>8. CASE Read
  <2>1. ~AllRead /\ pc # "speech"
    BY <1>8 DEF Read, SaidInv
  <2>2. ~Expected(Message)
    BY <1>8, <2>1 DEF Read, Expected, Polling, SpeechTypes
  <2> QED BY <1>1, <1>8, <2>2, Ending DEF Read, Unexpected, Fail, D!Fail, D!Enter
<1>9. ~(EndSpeech \/ Begin \/ Connect \/ TellConfirm \/ StopListening \/ QuestionRecorded
        \/ UploadQuestion \/ WalkBack \/ Turn \/ Ack \/ Guidance \/ Speak \/ StopSpeech
        \/ SpeechOver \/ End \/ Final \/ LastSpeech \/ Finish \/ AskQuestion)
  BY DEF EndSpeech, Begin, Connect, TellConfirm, StopListening, QuestionRecorded, UploadQuestion,
         WalkBack, Turn, Ack, Guidance, Speak, StopSpeech, SpeechOver, End, Final, LastSpeech,
         Finish, AskQuestion, D!StartQuestion, StageInv
<1> QED BY <1>2, <1>3, <1>4, <1>5, <1>6, <1>7, <1>8, <1>9 DEF MediaTask

(* Together.                                                               *)
LEMMA FailedOnDevice ==
  ASSUME FailedInv, GuidedInv, PlaceInv, CountInv, SaidInv, UnreadInv, Sync, [Next]_vars,
         ~(HostReads \/ HostStep)
  PROVE  FailedInv'
<1> SUFFICES ASSUME failed' PROVE FailedInv'
  BY DEF FailedInv
<1>1. CASE ~failed
  <2>1. CASE SpeechOver
    BY <2>1, GivesUp DEF GuidedInv
  <2>2. CASE Speak \/ Read
    BY <1>1, <2>2 DEF Speak, Read, OnReply, OnCaptureAck, OnSpeech, Unexpected, failed, stream_vars
  <2> USE DEF failed, stream_vars
  <2>3. CASE Stop \/ PollError \/ DeviceFails \/ Begin \/ Connect \/ Prompt \/ Act \/ TellConfirm
             \/ AskQuestion \/ StopListening \/ QuestionRecorded \/ UploadQuestion
             \/ Record \/ Recorded \/ Upload \/ WalkBack \/ Turn \/ Ack
    BY <1>1, <2>3 DEF Stop, PollError, DeviceFails, Begin, Connect, Prompt, Act, TellConfirm,
       AskQuestion, StopListening, QuestionRecorded, UploadQuestion, Record, Recorded, Upload,
       WalkBack, Turn, Ack
  <2>4. CASE Guidance \/ Spoken \/ ConfirmB \/ StopSpeech \/ End \/ Final \/ LastSpeech \/ EndSpeech
             \/ Finish \/ Tap \/ Advance \/ UNCHANGED vars
    BY <1>1, <2>4 DEF Guidance, Spoken, ConfirmB, StopSpeech, End, Final, LastSpeech, EndSpeech,
       Finish, Tap, Cancel, Choose, Advance, vars
  <2> QED BY <2>1, <2>2, <2>3, <2>4 DEF Next, MediaTask
<1>2. CASE failed /\ pc \in Over
  <2>1. pc' \in Over
    <3>1. CASE state # "complete"
      BY <1>2, <3>1, StageStep DEF GuidedInv, Onward
    <3>2. CASE pc \in {"finish", "done"}
      BY <3>2 DEF Next, MediaTask, Stop, PollError, DeviceFails, Begin, Connect, Prompt, Act,
         TellConfirm, AskQuestion, StopListening, QuestionRecorded, UploadQuestion, Record,
         Recorded, Upload, WalkBack, Turn, Ack, Guidance, Spoken, ConfirmB, Speak, StopSpeech,
         SpeechOver, End, Final, LastSpeech, EndSpeech, Finish, Read, Tap, Cancel, Choose,
         Advance, vars, Over, Checked, Polling, HostReads, HostStep
    <3> QED BY <1>2, <3>1, <3>2 DEF FailedInv, Over, Behind
  <2>2. pc' \in {"end", "final"} => state' # "complete"
    <3>1. CASE state # "complete"
      BY <1>2, <3>1, StageStep DEF GuidedInv, Onward
    <3>2. CASE pc \in {"finish", "done"}
      BY <3>2 DEF Next, MediaTask, Stop, PollError, DeviceFails, Begin, Connect, Prompt, Act,
         TellConfirm, AskQuestion, StopListening, QuestionRecorded, UploadQuestion, Record,
         Recorded, Upload, WalkBack, Turn, Ack, Guidance, Spoken, ConfirmB, Speak, StopSpeech,
         SpeechOver, End, Final, LastSpeech, EndSpeech, Finish, Read, Tap, Cancel, Choose,
         Advance, vars, Checked, Polling, HostReads, HostStep
    <3> QED BY <1>2, <3>1, <3>2 DEF FailedInv, Over, Behind
  <2> QED BY <2>1, <2>2 DEF FailedInv
<1>3. CASE failed /\ pc = "spoken" /\ (cancelled \/ state # "adjust")
  <2>1. CASE Stop
    <3>1. pc' = "end" /\ state # "complete" /\ ~finalSpeech
      BY <1>3, <2>1 DEF Stop, PlaceInv, Voiced
    <3>2. state' # "complete"
      BY <2>1, <3>1, Ending DEF Stop, d_vars
    <3> QED BY <3>1, <3>2 DEF FailedInv, Over
  <2>2. ~Spoken
    BY <1>3 DEF Spoken, Active, GuidedInv, ScreenInv, Voiced
  <2>3. CASE EndSpeech
    BY <2>3 DEF EndSpeech, FailedInv, Over
  <2>4. CASE Tap \/ Advance \/ UNCHANGED vars
    BY <1>3, <2>4 DEF Tap, Cancel, Choose, Advance, vars, FailedInv, d_vars, ui_vars
  <2>5. ~(PollError \/ DeviceFails \/ Begin \/ Connect \/ Prompt \/ Act \/ TellConfirm \/ AskQuestion
          \/ StopListening \/ QuestionRecorded \/ UploadQuestion \/ Record \/ Recorded \/ Upload
          \/ WalkBack \/ Turn \/ Ack \/ Guidance \/ ConfirmB \/ Speak \/ StopSpeech \/ SpeechOver
          \/ End \/ Final \/ LastSpeech \/ Finish \/ Read)
    BY <1>3 DEF PollError, DeviceFails, Begin, Connect, Prompt, Act, TellConfirm, AskQuestion,
       StopListening, QuestionRecorded, UploadQuestion, Record, Recorded, Upload, WalkBack,
       Turn, Ack, Guidance, ConfirmB, Speak, StopSpeech, SpeechOver, End, Final, LastSpeech,
       Finish, Read, Polling
  <2> QED BY <2>1, <2>2, <2>3, <2>4, <2>5 DEF Next, MediaTask
<1>4. CASE failed /\ Behind
  <2>1. CASE MediaTask
    BY <1>4, <2>1, BehindGoes DEF GuidedInv, EvidenceInv, FailedInv, Over
  <2>2. CASE Tap \/ Advance \/ UNCHANGED vars
    <3>1. UNCHANGED <<pc, state, captures, outbox, received, link, speaking, toHost>>
      BY <2>2 DEF Tap, Cancel, Choose, Advance, vars, d_vars, h_vars, socket_vars
    <3> QED BY <1>4, <3>1 DEF FailedInv, Behind, AllRead, Message, SpeakFirst, D!count
  <2> QED BY <2>1, <2>2 DEF Next
<1> QED BY <1>1, <1>2, <1>3, <1>4 DEF FailedInv

-----------------------------------------------------------------------------
(* The Mac says one thing more.                                            *)
LEMMA Grows ==
  ASSUME SaidInv, NEW m, outbox' = Append(outbox, m), UNCHANGED received
  PROVE  /\ Len(outbox) \in Nat /\ received \in 0..Len(outbox) /\ Len(outbox') = Len(outbox) + 1
         /\ outbox'[Len(outbox) + 1] = m
         /\ \A i \in 1..Len(outbox) : outbox'[i] = outbox[i]
         /\ ~AllRead'
         /\ AllRead => Message' = m /\ OneUnread'
         /\ ~AllRead => Message' = Message
<1> DEFINE S == {outbox[i] : i \in DOMAIN outbox} \cup {m}
<1>1. outbox \in Seq(S) /\ m \in S /\ received \in 0..Len(outbox)
  BY DEF SaidInv
<1> HIDE DEF S
<1>2. /\ Len(outbox') = Len(outbox) + 1 /\ Len(outbox) \in Nat
      /\ outbox'[Len(outbox) + 1] = m /\ \A i \in 1..Len(outbox) : outbox'[i] = outbox[i]
  BY <1>1
<1>3. ~AllRead => received + 1 \in 1..Len(outbox)
  BY <1>1, <1>2 DEF AllRead
<1> QED BY <1>1, <1>2, <1>3 DEF AllRead, OneUnread, Message

(* With the connection gone it says nothing.                               *)
LEMMA DeadIsSilent ==
  ASSUME HostReads \/ HostStep, ~link
  PROVE  UNCHANGED outbox /\ ~link'
<1> USE DEF H!wire_vars, H!Silent, H!Answer, H!Say, H!Failed
<1>1. CASE HostReads
  <2>1. H!Receive(Head(toHost))
    BY <1>1 DEF HostReads
  <2> QED BY <2>1 DEF H!Receive, H!Refuse, H!Handle, H!OnHello, H!OnCancel, H!OnQuestionStart,
     H!OnQuestionEnd, H!OnConfirm, H!OnCaptureStart, H!OnCaptureEnd, H!OnTurn, H!OnExplain,
     H!OnAck, H!OnSpeak, H!OnSpeechStop
<1>2. CASE HostStep
  <2>1. ASSUME NEW how, H!Transcribe(how) \/ H!SpeechEnd(how) PROVE UNCHANGED outbox /\ ~link'
    BY <2>1 DEF H!Transcribe, H!SpeechEnd, H!SpeechSend
  <2> QED BY <1>2, <2>1 DEF HostStep, H!IdleTimeout, H!Refuse, H!Disconnected, H!Close, H!Drop,
     H!TaskStep, H!Respond, H!RespondFails, H!RespondDropped, H!Explain, H!ExplainFails,
     H!SpeechStart, H!SpeechChunk, H!SpeechDies, H!SpeechSend
<1> QED BY <1>1, <1>2

(* What its tasks do while the connection lasts.                           *)
Worked ==
  \/ /\ task = "respond" /\ phase = "pending" /\ task' = "none" /\ UNCHANGED speaking
     /\ UNCHANGED <<questionIds, ids, spoken>>
     /\ \/ /\ phase' = "await_ack" /\ \E m : outbox' = Append(outbox, m) /\ m.type \in TurnReplies
        \/ phase' = "incomplete" /\ outbox' = Append(outbox, [type |-> "incomplete"])
  \/ /\ task = "transcribe" /\ phase = "transcribing" /\ task' = "none" /\ UNCHANGED speaking
     /\ UNCHANGED <<questionIds, ids, spoken>>
     /\ \E how \in {"heard", "empty", "failed"} :
          /\ phase' = IF how = "heard" THEN "await_confirm" ELSE "await_a"
          /\ outbox' = Append(outbox, [type |-> "transcript", key |-> questionIds[Len(questionIds)],
                                       status |-> how])
  \/ /\ speaking # None /\ UNCHANGED <<phase, questionIds, ids, spoken, task>>
     /\ \E m : /\ outbox' = Append(outbox, m) /\ m.type \in SpeechTypes
               /\ speaking' = IF m.type = "speech_end" THEN None ELSE speaking

(* On a connection that lasts the Mac's own steps are those.               *)
LEMMA Working ==
  ASSUME MacInv, HostStep, link'
  PROVE  link /\ handler = "reading" /\ handler' = "reading" /\ UNCHANGED <<toHost, device_vars, now>> /\ Worked
<1> USE DEF H!ask_vars, H!reply_vars, H!speech_vars, H!wire_vars
<1> DEFINE Done == handler' = "reading" /\ UNCHANGED now /\ Worked
<1>0. UNCHANGED <<toHost, device_vars>>
  BY DEF HostStep
<1>1. ~(H!IdleTimeout \/ H!Close \/ H!Drop)
  BY DEF H!IdleTimeout, H!Refuse, H!Close, H!Drop
<1>2. ~H!Disconnected
  BY DEF H!Disconnected
<1>3. link /\ handler = "reading"
  <2>1. link
    BY DeadIsSilent
  <2> QED BY <2>1 DEF MacInv
<1>4. /\ task \in {"none", "dead"} \/ (task = "respond" /\ phase = "pending")
         \/ (task = "transcribe" /\ phase = "transcribing")
  BY <1>3 DEF MacInv
<1>5. ASSUME H!Respond \/ H!RespondFails PROVE Done
  <2>1. CASE H!Respond
    <3>1. H!Reply.type \in TurnReplies
      BY DEF H!Reply, TurnReplies
    <3>2. outbox' = Append(outbox, H!Reply) /\ phase' = "await_ack" /\ task' = "none"
      BY <1>3, <2>1 DEF H!Respond, H!Say
    <3> QED BY <1>3, <1>4, <2>1, <3>1, <3>2 DEF H!Respond, H!Say, Worked
  <2>2. CASE H!RespondFails
    BY <1>3, <1>4, <2>2 DEF H!RespondFails, H!Failed, H!Say, H!Incomplete, Worked
  <2> QED BY <1>5, <2>1, <2>2
<1>6. ASSUME H!RespondDropped PROVE Done
  BY <1>3, <1>4, <1>6 DEF H!RespondDropped, MacInv
<1>7. ASSUME H!Explain \/ H!ExplainFails PROVE Done
  BY <1>4, <1>7 DEF H!Explain, H!ExplainFails
<1>8. ASSUME NEW how \in {"heard", "empty", "failed"}, H!Transcribe(how)
      PROVE  Done
  BY <1>3, <1>4, <1>8 DEF H!Transcribe, H!Say, Worked
<1>9. ASSUME H!SpeechStart \/ H!SpeechChunk PROVE Done
  <2>1. PICK m : m.type \in {"speech_start", "speech_chunk"} /\ H!SpeechSend(m) /\ UNCHANGED speaking
    BY <1>9 DEF H!SpeechStart, H!SpeechChunk
  <2> QED BY <1>3, <2>1 DEF H!SpeechSend, Worked, SpeechTypes
<1>10. ASSUME H!SpeechDies PROVE Done
  BY <1>3, <1>10 DEF H!SpeechDies
<1>11. ASSUME NEW how \in {"complete", "failed"}, H!SpeechEnd(how)
       PROVE Done
  BY <1>3, <1>11 DEF H!SpeechEnd, H!SpeechSend, Worked, SpeechTypes
<1>12. Done
  BY <1>1, <1>2, <1>3, <1>5, <1>6, <1>7, <1>8, <1>9, <1>10, <1>11 DEF HostStep, H!TaskStep
<1> QED BY <1>0, <1>3, <1>12

(* What it does with a message while the connection lasts.                 *)
LEMMA Taking ==
  ASSUME QueueInv, MacInv, Channel, HostReads, link'
  PROVE  /\ link /\ handler = "reading" /\ handler' = "reading" /\ UNCHANGED <<device_vars, now>>
         /\ Head(toHost) = toHost[1] /\ toHost # <<>> /\ toHost' = Tail(toHost)
         /\ Fit(toHost[1]) /\ Took(toHost[1])
<1>1. link
  BY DeadIsSilent
<1>2. /\ handler = "reading" /\ toHost # <<>> /\ toHost' = Tail(toHost) /\ H!Receive(Head(toHost))
      /\ UNCHANGED device_vars
  BY DEF HostReads, H!Receive
<1>3. Head(toHost) = toHost[1] /\ Fit(toHost[1])
  BY <1>2, TakenQueue DEF QueueInv
<1>4. ~H!Refuse(Head(toHost).type)
  BY DEF H!Refuse
<1>5. H!Handle(Head(toHost))
  BY <1>2, <1>4 DEF H!Receive
<1>6. handler' = "reading" /\ UNCHANGED now
  BY <1>1, <1>2, <1>5 DEF H!Handle, H!OnHello, H!OnCancel, H!OnQuestionStart, H!OnQuestionEnd,
     H!OnConfirm, H!OnCaptureStart, H!OnCaptureEnd, H!OnTurn, H!OnExplain, H!OnAck, H!OnSpeak,
     H!OnSpeechStop, H!Answer, H!Silent, H!wire_vars
<1>7. Took(toHost[1])
  BY <1>3, <1>6, Receiving
<1> QED BY <1>1, <1>2, <1>3, <1>6, <1>7

(* A reading given up on, through the steps of the Mac: the stream is      *)
(* still ahead of everything it says.                                      *)
LEMMA BehindWaits ==
  ASSUME Behind, SaidInv, QueueInv, MacInv, Channel, HostReads \/ HostStep
  PROVE  Behind'
<1>1. UNCHANGED <<pc, state, captures, received>>
  BY DEF HostReads, HostStep, device_vars, d_vars
<1>2. CASE ~AllRead
  <2>1. \A m : outbox' = Append(outbox, m) => ~AllRead' /\ Message' = Message
    BY <1>1, <1>2, Grows
  <2>2. outbox' = outbox => ~AllRead' /\ Message' = Message
    BY <1>1, <1>2 DEF AllRead, Message
  <2>3. ~AllRead' /\ Message' = Message
    BY <2>1, <2>2, MacSays
  <2> QED BY <1>1, <1>2, <2>3 DEF Behind, D!count
<1>3. CASE AllRead /\ ~link'
  <2>1. UNCHANGED outbox
    <3>1. CASE ~link
      BY <3>1, DeadIsSilent
    <3>2. CASE link
      <4>1. CASE HostReads
        <5>1. H!Receive(Head(toHost))
          BY <4>1 DEF HostReads
        <5> QED BY <1>3, <3>2, <5>1 DEF H!Receive, H!Refuse, H!Handle, H!OnHello, H!OnCancel,
           H!OnQuestionStart, H!OnQuestionEnd, H!OnConfirm, H!OnCaptureStart, H!OnCaptureEnd,
           H!OnTurn, H!OnExplain, H!OnAck, H!OnSpeak, H!OnSpeechStop, H!Answer, H!Silent,
           H!wire_vars
      <4>2. CASE HostStep
        <5>1. ASSUME NEW how, H!Transcribe(how) \/ H!SpeechEnd(how) PROVE UNCHANGED outbox
          BY <1>3, <3>2, <5>1 DEF H!Transcribe, H!SpeechEnd, H!SpeechSend, H!Say, H!wire_vars
        <5> QED BY <1>3, <3>2, <4>2, <5>1 DEF HostStep, H!IdleTimeout, H!Refuse, H!Disconnected,
           H!Close, H!Drop, H!TaskStep, H!Respond, H!RespondFails, H!RespondDropped, H!Explain,
           H!ExplainFails, H!SpeechStart, H!SpeechChunk, H!SpeechDies, H!SpeechSend, H!Say,
           H!Failed, H!wire_vars
      <4> QED BY <4>1, <4>2
    <3> QED BY <3>1, <3>2
  <2>2. AllRead'
    BY <1>1, <1>3, <2>1 DEF AllRead
  <2> QED BY <1>1, <1>3, <2>2 DEF Behind, D!count
<1>4. CASE AllRead /\ HostReads /\ link'
  <2>1. /\ link /\ handler = "reading" /\ toHost # <<>> /\ H!Legal(toHost[1])
        /\ Took(toHost[1]) /\ Fit(toHost[1])
    <3>1. ~H!Refuse(Head(toHost).type)
      BY <1>4 DEF H!Refuse
    <3> QED BY <1>4, <3>1, Taking DEF HostReads, H!Receive
  <2>2. speaking # None \/ toHost[1].type = "speak"
    BY <1>3, <1>4, <2>1 DEF Behind, SpeakFirst
  <2>3. toHost[1].type # "cancel"
    <3>1. 1 \in 1..Len(toHost)
      BY <2>1, <1>4, TakenQueue DEF HostReads
    <3>2. toHost[1].type = "cancel" => Cancelling
      BY <3>1 DEF QueueInv
    <3> QED BY <3>2 DEF Cancelling, Behind
  <2>4. CASE toHost[1].type = "speak"
    <3>1. speaking' = acknowledged /\ UNCHANGED outbox /\ phase \in {"adjust", "complete"}
      BY <2>1, <2>4 DEF Took
    <3>2. acknowledged # None
      BY <2>1, <3>1, NameFacts DEF MacInv, Stages, Before
    <3> QED BY <1>1, <1>4, <3>1, <3>2 DEF Behind, AllRead, D!count
  <2>5. CASE speaking # None /\ toHost[1].type # "speak"
    <3>1. toHost[1].type = "speech_stop"
      BY <2>1, <2>3, <2>5 DEF H!Legal, H!MayHello, H!Admitted, MacInv, Fit
    <3> QED BY <1>1, <1>4, <2>1, <2>5, <3>1 DEF Took, Behind, AllRead, D!count
  <2> QED BY <2>2, <2>4, <2>5
<1>5. CASE AllRead /\ HostStep /\ link'
  <2>1. /\ link /\ handler = "reading" /\ Worked /\ UNCHANGED toHost
    BY <1>5, Working
  <2>2. phase \in {"adjust", "complete"}
    BY <1>5, <2>1, NameFacts DEF Behind, SpeakFirst, MacInv, QueueInv, Fit, H!MaySpeak
  <2>3. PICK m : outbox' = Append(outbox, m) /\ m.type \in SpeechTypes
    BY <2>1, <2>2 DEF Worked
  <2>4. ~AllRead' /\ Message' = m
    BY <1>1, <1>5, <2>3, Grows
  <2> QED BY <1>1, <2>3, <2>4 DEF Behind, D!count
<1> QED BY <1>2, <1>3, <1>4, <1>5

(* A reading given up on, through the steps of the Mac.                    *)
LEMMA FailedWaits ==
  ASSUME FailedInv, SaidInv, QueueInv, MacInv, Channel, HostReads \/ HostStep
  PROVE  FailedInv'
<1>1. UNCHANGED <<pc, state, playback, cancelled>>
  BY DEF HostReads, HostStep, device_vars, d_vars, stream_vars, ui_vars
<1> QED BY <1>1, BehindWaits DEF FailedInv, failed

-----------------------------------------------------------------------------
(* The queue while the connection is good: at most three messages, and     *)
(* what is at its front by what was sent last.                             *)
LEMMA Shape ==
  ASSUME Live, QueueInv, MacInv, Channel, toHost # <<>>
  PROVE  /\ Len(toHost) \in 1..3
         /\ LastSent.type \in {"hello", "question_confirm", "capture_end", "turn", "ack", "speak"} =>
              Len(toHost) = 1
         /\ LastSent.type = "question_start" => toHost[1].type \in {"question_confirm", "question_start"}
         /\ LastSent.type = "question_end" =>
              toHost[1].type \in {"question_confirm", "question_start", "question_end"}
         /\ LastSent.type = "capture_start" =>
              toHost[1].type \in {"question_confirm", "speak", "speech_stop", "capture_start"}
         /\ LastSent.type = "speech_stop" => toHost[1].type \in {"speak", "speech_stop"}
         /\ Fit(toHost[1]) /\ toHost[1].type \notin {"torn", "cancel"}
         /\ phase \notin {"pending", "transcribing"}
<1>1. Len(toHost) \in Nat \ {0}
  <2>1. toHost \in Seq({toHost[i] : i \in DOMAIN toHost})
    BY DEF Channel
  <2> QED BY <2>1
<1>2. \A i \in 1..Len(toHost) : toHost[i].type \notin {"torn", "cancel"}
  BY DEF Live, QueueInv, Cancelling
<1>3. \A i \in 1..Len(toHost) - 1 : MayFollow(toHost[i], toHost[i + 1])
  BY DEF QueueInv
<1>4. 1 \in 1..Len(toHost) /\ Fit(toHost[1]) /\ toHost[1].type \notin {"torn", "cancel"}
  BY <1>1, <1>2 DEF Live, MacInv, QueueInv
<1>5. phase \notin {"pending", "transcribing"}
  BY <1>4 DEF Fit, H!MayAsk, H!MayEndQuestion, H!MayConfirm, H!MayCapture, H!MayEndCapture,
     H!MayTurn, H!MaySpeak, H!Recording
<1>6. Len(toHost) > 1 => MayFollow(toHost[1], toHost[2]) /\ toHost[2].type \notin {"torn", "cancel"}
  <2> SUFFICES ASSUME Len(toHost) > 1 PROVE 1 \in 1..Len(toHost) - 1 /\ 2 \in 1..Len(toHost)
    BY <1>2, <1>3
  <2> QED BY <1>1
<1>7. Len(toHost) > 2 => MayFollow(toHost[2], toHost[3]) /\ toHost[3].type \notin {"torn", "cancel"}
  <2> SUFFICES ASSUME Len(toHost) > 2 PROVE 2 \in 1..Len(toHost) - 1 /\ 3 \in 1..Len(toHost)
    BY <1>2, <1>3
  <2> QED BY <1>1
<1>8. Len(toHost) > 3 => MayFollow(toHost[3], toHost[4]) /\ toHost[4].type \notin {"torn", "cancel"}
  <2> SUFFICES ASSUME Len(toHost) > 3 PROVE 3 \in 1..Len(toHost) - 1 /\ 4 \in 1..Len(toHost)
    BY <1>2, <1>3
  <2> QED BY <1>1
<1>9. ~(Len(toHost) > 3)
  BY <1>1, <1>6, <1>7, <1>8 DEF MayFollow
<1>10. Len(toHost) = 1 \/ Len(toHost) = 2 \/ Len(toHost) = 3
  <2>1. \A n \in Nat \ {0} : ~(n > 3) => n = 1 \/ n = 2 \/ n = 3
    OBVIOUS
  <2> QED BY <1>1, <1>9, <2>1
<1>11. CASE Len(toHost) = 1
  BY <1>4, <1>5, <1>11 DEF LastSent
<1>12. CASE Len(toHost) = 2
  BY <1>4, <1>5, <1>6, <1>12 DEF LastSent, MayFollow
<1>13. CASE Len(toHost) = 3
  BY <1>4, <1>5, <1>6, <1>7, <1>13 DEF LastSent, MayFollow
<1> QED BY <1>10, <1>11, <1>12, <1>13

(* The Mac takes the last message, or one that it does not answer.         *)
LEMMA HeadTaken ==
  ASSUME QueueInv, MacInv, Channel, SaidInv, HostReads, Live'
  PROVE  /\ Live /\ handler = "reading" /\ toHost # <<>> /\ UNCHANGED <<device_vars, now>>
         /\ Fit(toHost[1]) /\ Took(toHost[1]) /\ ~SpeakFirst'
         /\ \/ toHost' = <<>> /\ toHost[1] = LastSent
            \/ /\ toHost' # <<>> /\ LastSent' = LastSent /\ UNCHANGED outbox
               /\ toHost[1].type \in {"question_start", "question_confirm", "speak", "speech_stop"}
         /\ Len(toHost) \in 1..3
         /\ \A i \in 1..Len(toHost') : i + 1 \in 1..Len(toHost) /\ toHost'[i] = toHost[i + 1]
<1>1. /\ link /\ handler = "reading" /\ handler' = "reading" /\ UNCHANGED <<device_vars, now>>
      /\ toHost # <<>> /\ toHost' = Tail(toHost) /\ Fit(toHost[1]) /\ Took(toHost[1])
  BY Taking DEF Live
<1>2. Live
  BY <1>1 DEF Live, Dead, device_vars, d_vars, ui_vars
<1>3. /\ Len(toHost) \in 1..3 /\ toHost[1].type \notin {"torn", "cancel"}
  BY <1>1, <1>2, Shape
<1>4. /\ Len(toHost') = Len(toHost) - 1 /\ (toHost' = <<>> <=> Len(toHost) = 1)
      /\ \A i \in 1..Len(toHost') : i + 1 \in 1..Len(toHost) /\ toHost'[i] = toHost[i + 1]
      /\ toHost' # <<>> => LastSent' = LastSent /\ 2 \in 1..Len(toHost)
  BY <1>1, TakenQueue DEF LastSent
<1>5. CASE Len(toHost) = 1
  <2>1. toHost' = <<>> /\ toHost[1] = LastSent
    BY <1>4, <1>5 DEF LastSent
  <2>2. ~SpeakFirst'
    BY <2>1 DEF SpeakFirst
  <2> QED BY <1>1, <1>2, <1>3, <1>4, <2>1, <2>2
<1>6. CASE Len(toHost) # 1
  <2>1. /\ 1 \in 1..Len(toHost) - 1 /\ 2 \in 1..Len(toHost) /\ toHost'[1] = toHost[2] /\ toHost' # <<>>
    BY <1>3, <1>4, <1>6
  <2>2. MayFollow(toHost[1], toHost[2]) /\ toHost[2].type \notin {"torn", "cancel"}
    BY <1>2, <2>1 DEF QueueInv, Live, Cancelling
  <2>3. /\ toHost[1].type \in {"question_start", "question_confirm", "speak", "speech_stop"}
        /\ toHost[2].type # "speak"
    BY <2>2 DEF MayFollow
  <2>4. UNCHANGED outbox
    BY <1>1, <2>3 DEF Took
  <2> QED BY <1>1, <1>2, <1>3, <1>4, <2>1, <2>3, <2>4 DEF SpeakFirst
<1> QED BY <1>5, <1>6

-----------------------------------------------------------------------------
(* What the reducer says at each place of a run that goes on.              *)
PlanInv ==
  ~D!terminal =>
    CASE pc = "begin" -> state = "idle"
      [] pc \in {"connect", "hello"} -> state = "connecting"
      [] pc \in {"prompt", "choose"} -> state \in {"ready_a", "confirming", "ready_b", "return_a"}
      [] pc \in {"use", "discard"} -> state = "ready_a"
      [] pc = "ask" -> state \in {"ready_a", "ready_b", "return_a"}
      [] pc \in {"listening", "recorded"} -> state = "asking"
      [] pc \in {"question", "question_end", "transcript"} -> state = "transcribing"
      [] pc = "record" -> state \in {"ready_a", "ready_b", "return_a", "confirming"}
      [] pc = "recording" -> state \in {"recording_a", "recording_b", "recording_repeat"}
      [] pc \in {"upload", "started", "capture_end", "stored", "uploaded"} -> state = "uploading"
      [] pc = "reply" -> state = "waiting"
      [] pc \in {"ack", "acked"} -> state = "acknowledging"
      [] pc \in {"guidance", "speak", "speech", "spoken", "confirm_b"} -> state = "adjust"
      [] OTHER -> FALSE

(* Every step keeps to the plan.                                           *)
LEMMA PlanStep ==
  ASSUME PlanInv, StageInv, ScreenInv, CountInv, [Next]_vars
  PROVE  PlanInv'
<1> SUFFICES ASSUME ~D!terminal' PROVE PlanInv'
  BY DEF PlanInv
<1> USE DEF PlanInv, D!terminal, D!TerminalStates, D!Enter, D!ask_vars
<1>0. ~D!terminal
  BY StageStep DEF Onward
<1>00. ~(Disconnect \/ Fail \/ D!Cancel \/ D!Tick)
  BY Ending
<1>1. ~Stop
  BY <1>0, <1>00 DEF Stop, Active
<1>2. ~(PollError \/ DeviceFails \/ Unexpected)
  BY <1>00 DEF PollError, DeviceFails, Unexpected
<1>3. CASE Begin \/ Connect
  BY <1>0, <1>00, <1>3 DEF Begin, Connect, D!Ask, d_vars
<1>4. CASE Prompt \/ Act
  BY <1>0, <1>4 DEF Prompt, Act, D!ConfirmQuestion, d_vars
<1>5. CASE TellConfirm
  BY <1>0, <1>00, <1>5, SendsOrCuts DEF TellConfirm, d_vars
<1>6. CASE AskQuestion \/ StopListening \/ QuestionRecorded
  BY <1>0, <1>6 DEF AskQuestion, StopListening, QuestionRecorded, D!StartQuestion,
     D!QuestionRecorded, d_vars
<1>7. CASE UploadQuestion
  BY <1>0, <1>00, <1>7, SendsOrCuts DEF UploadQuestion, d_vars
<1>8. CASE Record \/ Recorded \/ WalkBack
  BY <1>0, <1>8 DEF Record, Recorded, WalkBack, D!StartCapture, D!Captured, D!Acceptable,
     D!RecordingStates, D!AwaitRepeat
<1>9. CASE Upload
  BY <1>0, <1>00, <1>9, SendsOrCuts DEF Upload, d_vars
<1>10. CASE Turn \/ Ack
  BY <1>0, <1>00, <1>10, SendsOrCuts DEF Turn, Ack, D!Turn, D!Ack, Lost
<1>11. CASE Guidance
  BY <1>0, <1>00, <1>11 DEF Guidance, d_vars
<1>12. CASE Spoken \/ ConfirmB
  BY <1>0, <1>12 DEF Spoken, ConfirmB, D!Adjust, d_vars
<1>13. CASE Speak
  BY <1>0, <1>00, <1>13, SendsOrCuts DEF Speak, d_vars
<1>14. CASE StopSpeech
  BY <1>0, <1>00, <1>14, SendsOrCuts DEF StopSpeech, TellStop, d_vars
<1>15. CASE SpeechOver
  BY <1>0, <1>15 DEF SpeechOver, d_vars
<1>16. ~(End \/ Final \/ Finish)
  BY <1>0 DEF End, Final, Finish, StageInv, Over
<1>17. CASE LastSpeech \/ EndSpeech
  BY <1>0, <1>17 DEF LastSpeech, EndSpeech, StageInv
<1>18. CASE Read
  <2>1. CASE OnCaptureAck(Message) \/ OnSpeech(Message)
    BY <1>0, <2>1 DEF OnCaptureAck, OnSpeech, d_vars
  <2>2. CASE OnReply(Message) /\ Expected(Message)
    BY <1>0, <1>18, <2>2, Replying
  <2> QED BY <1>2, <1>18, <2>1, <2>2 DEF Read
<1>19. CASE Tap \/ HostReads \/ HostStep \/ Advance \/ UNCHANGED vars
  <2>1. UNCHANGED <<pc, state>>
    BY <1>19 DEF Tap, Cancel, Choose, HostReads, HostStep, Advance, vars, device_vars, d_vars
  <2> QED BY <1>0, <2>1
<1> QED BY <1>1, <1>2, <1>3, <1>4, <1>5, <1>6, <1>7, <1>8, <1>9, <1>10, <1>11, <1>12, <1>13, <1>14,
           <1>15, <1>16, <1>17, <1>18, <1>19 DEF Next, MediaTask

-----------------------------------------------------------------------------
(* What the device sends is what the Mac can take next.                    *)
Together ==
  /\ GuidedInv /\ LastIsTorn
  /\ CountInv /\ PlanInv /\ PlaceInv /\ SaidInv /\ MacInv /\ QueueInv
  /\ UnreadInv /\ FailedInv /\ Sync

(* A message sent while the two are in step keeps the queue.               *)
LEMMA SendFits ==
  ASSUME Together, NEW m, NEW next, Sent(m, next), pc \notin Over \cup {"spoken"}, UNCHANGED h_vars,
         failed => failed', m.type \notin {"torn", "cancel"},
         Live /\ toHost = <<>> => Fit(m),
         Live /\ toHost # <<>> => MayFollow(LastSent, m),
         Live /\ m.type = "capture_start" => failed \/ (speaking = None /\ ~SpeakFirst)
  PROVE  QueueInv'
<1>1. ~broken /\ ~cancelled /\ ~Cancelling /\ UNCHANGED broken
  BY DEF Sent, Writable, Cancelling
<1>2. CASE ~link
  BY <1>1, <1>2, QueueFrame DEF Together, Sent
<1>3. CASE link
  <2>1. Live /\ toHost' = Append(toHost, m)
    BY <1>1, <1>3 DEF Live, Sent, Together, PlaceInv
  <2>2. handler = "reading" => phase # "cancelled"
    BY <1>1 DEF Together, QueueInv
  <2> QED BY <1>1, <2>1, <2>2, SendKeeps DEF Together, GuidedInv, EvidenceInv
<1> QED BY <1>2, <1>3

(* A frame cut short.                                                      *)
LEMMA CutFits ==
  ASSUME Together, NEW next, CutShort(next), pc \notin Over, UNCHANGED h_vars, failed => failed'
  PROVE  QueueInv'
<1>1. ~Cancelling
  BY DEF Cancelling, Over
<1> QED BY <1>1, TornKeeps DEF Together, GuidedInv, EvidenceInv

(* The names the two sides have for the same thing.                        *)
LEMMA SameNames ==
  ASSUME Together, Live
  PROVE  /\ handler = "reading" /\ Stages /\ Named
         /\ Len(questionIds) \in 0..5 /\ questions \in 0..5
         /\ questions > 0 => questionId = questionNames[questions] /\ questionId \in Ids
         /\ \A i \in 1..Len(questionIds) : questionIds[i] = questionNames[i]
         /\ \A i \in 1..D!count : captures[i].id = captureNames[i]
<1>1. handler = "reading" /\ Stages /\ Named
  BY DEF Together, Live, MacInv
<1>2. Len(questionIds) \in 0..5 /\ questions \in 0..5
  <2>1. Len(questionIds) \in Nat /\ Len(questionIds) <= MaxQuestions
    BY <1>1 DEF Named
  <2>2. questions \in 0..MaxQuestions
    BY DEF Together, CountInv
  <2>3. \A n \in 0..5 : (\A k \in Nat : k <= n => k \in 0..5) /\ (\A k \in 0..n : k \in 0..5)
    OBVIOUS
  <2>4. MaxQuestions \in 0..5
    BY NameFacts
  <2> QED BY <2>1, <2>2, <2>3, <2>4
<1> QED BY <1>1, <1>2, NameFacts DEF Together, CountInv, Named

(* question_confirm is sent where the Mac awaits it.                       *)
LEMMA ConfirmQueued ==
  ASSUME Together, TellConfirm
  PROVE  QueueInv'
<1>1. pc \in {"use", "discard"} /\ UNCHANGED <<h_vars, playback>>
  BY DEF TellConfirm, stream_vars
<1>2. ASSUME NEW next, Sent([type |-> "question_confirm", key |-> questionId, accepted |-> pc = "use"], next)
      PROVE  QueueInv'
  <2> DEFINE m == [type |-> "question_confirm", key |-> questionId, accepted |-> pc = "use"]
  <2>1. Live => toHost = <<>> /\ Fit(m)
    <3> SUFFICES ASSUME Live PROVE toHost = <<>> /\ Fit(m)
      OBVIOUS
    <3>1. Idle /\ phase = "await_confirm" /\ Len(questionIds) = questions
      BY <1>1 DEF Together, Sync, SyncAsk
    <3>2. questions > 0 /\ heard = questionNames[questions]
      BY <3>1, SameNames DEF Together, MacInv
    <3>3. heard = questionId /\ heard # None
      BY <3>2, SameNames, NameFacts
    <3> QED BY <3>1, <3>3 DEF Fit, Idle, H!MayConfirm, H!Running, H!Terminal
  <2> QED BY <1>1, <1>2, <2>1, SendFits DEF Over, failed
<1> QED BY <1>1, <1>2, CutFits DEF TellConfirm, Lost, Over, failed

(* So are question_start and question_end.                                 *)
LEMMA QuestionQueued ==
  ASSUME Together, UploadQuestion
  PROVE  QueueInv'
<1>1. pc \in {"question", "question_end"} /\ UNCHANGED <<h_vars, playback>>
  BY DEF UploadQuestion, stream_vars
<1>2. CASE pc = "question" /\ Sent([type |-> "question_start", key |-> questionId], "question_end")
  <2> DEFINE m == [type |-> "question_start", key |-> questionId]
  <2>1. ASSUME Live PROVE questions > 0 /\ AwaitA(questions - 1) /\ Transcriber /\ questions <= MaxQuestions
    BY <1>2, <2>1 DEF Together, Sync, SyncAsk, SaidInv, CountInv
  <2>2. ASSUME Live, toHost = <<>> PROVE Fit(m)
    <3>1. phase = "await_a" /\ Len(questionIds) = questions - 1
      BY <2>1, <2>2 DEF AwaitA, Only
    <3>2. /\ Len(questionIds) < MaxQuestions /\ questionId = questionNames[Len(questionIds) + 1]
          /\ questionId \in Ids
      BY <2>1, <2>2, <3>1, SameNames, NameFacts
    <3>3. ids = <<>> /\ seen = {}
      BY <2>2, <3>1, SameNames DEF Stages, Named, Before
    <3>4. \A i \in 1..Len(questionIds) : questionIds[i] # questionId
      BY <2>2, <3>1, <3>2, SameNames, NameFacts
    <3>5. H!MayAsk(m)
      BY <2>1, <2>2, <3>1, <3>2, <3>3, <3>4 DEF H!MayAsk, H!Running, H!Terminal
    <3> QED BY <3>2, <3>5 DEF Fit
  <2>3. ASSUME Live, toHost # <<>> PROVE MayFollow(LastSent, m)
    <3>1. /\ LastSent.type = "question_confirm" /\ questions - 1 > 0
          /\ LastSent.key = questionNames[questions - 1]
      BY <2>1, <2>3 DEF AwaitA, Idle, Only
    <3>2. questions \in 0..5 /\ MaxQuestions \in 0..5 /\ questionId = questionNames[questions]
      BY <2>1, <2>3, SameNames, NameFacts
    <3>3. questions - 1 \in 1..MaxQuestions - 1 /\ (questions - 1) + 1 = questions
      BY <2>1, <2>3, <3>1, <3>2
    <3> QED BY <2>1, <2>3, <3>1, <3>2, <3>3 DEF MayFollow
  <2> QED BY <1>1, <1>2, <2>2, <2>3, SendFits DEF Over, failed
<1>3. CASE pc = "question_end" /\ Sent([type |-> "question_end", key |-> questionId, valid |-> TRUE], "transcript")
  <2> DEFINE m == [type |-> "question_end", key |-> questionId, valid |-> TRUE]
  <2>1. ASSUME Live
        PROVE \/ Idle /\ phase = "question_upload" /\ Len(questionIds) = questions
              \/ Only("question_start") /\ LastSent.key = questionId
    BY <1>3, <2>1 DEF Together, Sync, SyncAsk
  <2>2. ASSUME Live, toHost = <<>> PROVE Fit(m)
    <3>1. phase = "question_upload" /\ Len(questionIds) = questions
      BY <2>1, <2>2 DEF Only
    <3>2. questions > 0
      BY <2>2, <3>1, SameNames DEF Together, MacInv
    <3>3. questionId = questionIds[Len(questionIds)]
      BY <2>2, <3>1, <3>2, SameNames
    <3> QED BY <3>1, <3>3 DEF Fit, H!MayEndQuestion, H!Running, H!Terminal
  <2>3. ASSUME Live, toHost # <<>> PROVE MayFollow(LastSent, m)
    BY <2>1, <2>3 DEF MayFollow, Idle, Only
  <2> QED BY <1>1, <1>3, <2>2, <2>3, SendFits DEF Over, failed
<1> QED BY <1>1, <1>2, <1>3, CutFits DEF UploadQuestion, Lost, Over, failed

(* The k-th capture, and the names the Mac has by then.                    *)
LEMMA CaptureFits ==
  ASSUME Together, Live, toHost = <<>>, NEW m, m.type = "capture_start",
         \/ phase = "await_a" /\ m.key = "a"
         \/ phase = "adjust" /\ m.key = "b"
         \/ phase = "compare_ready" /\ Len(ids) = 2 /\ m.key = "r"
  PROVE  Fit(m)
<1>1. handler = "reading" /\ Stages /\ Named
  BY SameNames
<1>2. \A k \in 1..Len(questionIds) : questionIds[k] # m.key
  <2>1. Len(questionIds) \in 0..5 /\ \A i \in 1..Len(questionIds) : questionIds[i] = questionNames[i]
    BY SameNames
  <2>2. \A n \in 0..5 : \A i \in 1..n : i \in 1..5
    OBVIOUS
  <2>3. \A i \in 1..5 : questionNames[i] \notin {"a", "b", "r"}
    BY DEF questionNames
  <2> QED BY <2>1, <2>2, <2>3
<1>3. CASE phase = "await_a"
  <2>1. m.key = "a" /\ Len(ids) = 0 /\ seen = {}
    BY <1>1, <1>3 DEF Stages, Before
  <2>2. H!Cardinality(seen) = 0 /\ m.key = captureNames[Len(ids) + 1]
    BY <2>1, FS_EmptySet, Counting, NextCapture
  <2> QED BY <1>2, <1>3, <2>1, <2>2 DEF Fit, H!MayCapture, H!Running, H!Terminal
<1>4. CASE phase = "adjust"
  <2>1. m.key = "b" /\ Len(ids) = 1 /\ seen = {"a"}
    BY <1>1, <1>4 DEF Stages, Before
  <2>2. H!Cardinality(seen) = 1 /\ m.key = captureNames[Len(ids) + 1]
    BY <2>1, FS_Singleton, Counting, NextCapture
  <2> QED BY <1>2, <1>4, <2>1, <2>2 DEF Fit, H!MayCapture, H!Running, H!Terminal
<1>5. CASE phase = "compare_ready" /\ Len(ids) = 2
  <2>1. m.key = "r" /\ Len(ids) = 2 /\ seen = {"a", "b"}
    BY <1>1, <1>5 DEF Stages, Before
  <2>2. Cardinality({"a", "b"}) = 2
    <3>1. IsFiniteSet({"a"}) /\ Cardinality({"a"}) = 1 /\ "b" \notin {"a"}
      BY FS_Singleton
    <3>2. Cardinality({"a"} \cup {"b"}) = 1 + 1
      <4>1. Cardinality({"a"} \cup {"b"}) = Cardinality({"a"}) + 1
        BY <3>1, FS_AddElement
      <4> QED BY <3>1, <4>1
    <3>3. {"a"} \cup {"b"} = {"a", "b"}
      OBVIOUS
    <3> QED BY <3>2, <3>3
  <2>3. H!Cardinality(seen) = 2 /\ m.key = captureNames[Len(ids) + 1]
    BY <2>1, <2>2, Counting, NextCapture
  <2> QED BY <1>2, <1>5, <2>1, <2>3 DEF Fit, H!MayCapture, H!Running, H!Terminal
<1> QED BY <1>3, <1>4, <1>5

(* So are capture_start and capture_end.                                   *)
LEMMA CaptureQueued ==
  ASSUME Together, Upload
  PROVE  QueueInv'
<1>1. pc \in {"upload", "capture_end"} /\ UNCHANGED <<h_vars, playback>> /\ state = "uploading"
  BY DEF Upload, stream_vars, Active, Together, PlanInv
<1>2. D!count = 1 \/ D!count = 2 \/ D!count = 3
  <2>1. D!count \in 1..3
    BY <1>1 DEF Together, CountInv
  <2> QED BY <2>1
<1>20. captures[D!count].id = captureNames[D!count] /\ captureNames[D!count] \in {"a", "b", "r"}
  <2>1. D!count \in 1..D!count
    BY <1>2
  <2> QED BY <1>2, <2>1, NameFacts DEF Together, CountInv
<1>3. CASE pc = "upload" /\ Sent([type |-> "capture_start", key |-> captureId], "started")
  <2> DEFINE m == [type |-> "capture_start", key |-> captureId]
  <2>1. CASE D!count = 1
    <3>1. m.key = "a"
      BY <1>20, <2>1, NameFacts DEF captureId
    <3>2. ASSUME Live PROVE AwaitA(questions)
      BY <1>3, <2>1, <3>2 DEF Together, Sync, SyncAsk, Unasked
    <3>3. ASSUME Live, toHost = <<>> PROVE phase = "await_a" /\ speaking = None
      BY <3>2, <3>3, SameNames DEF AwaitA, Only, Together, MacInv
    <3>4. ASSUME Live, toHost # <<>> PROVE LastSent.type = "question_confirm" /\ speaking = None /\ ~SpeakFirst
      <4>1. LastSent.type = "question_confirm"
        BY <3>2, <3>4 DEF AwaitA, Idle, Only
      <4>2. toHost[1].type = "question_confirm" /\ Fit(toHost[1])
        BY <3>4, <4>1, Shape DEF Together, LastSent, GuidedInv, EvidenceInv
      <4> QED BY <3>4, <4>1, <4>2 DEF Fit, H!MayConfirm, SpeakFirst, Together, MacInv, Live
    <3> QED BY <1>1, <1>3, <3>1, <3>3, <3>4, SendFits, CaptureFits DEF Over, failed, MayFollow,
       SpeakFirst
  <2>2. CASE D!count = 2
    <3>1. m.key = "b"
      BY <1>20, <2>2, NameFacts DEF captureId
    <3>2. ASSUME Live
          PROVE  /\ toHost = <<>> => phase = "adjust"
                 /\ toHost # <<>> => LastSent.type \in {"speak", "speech_stop"} /\ LastSent.key = "r1"
                 /\ failed \/ (AllRead /\ speaking = None /\ ~SpeakFirst)
      BY <1>3, <2>2, <3>2 DEF Together, Sync, SyncCapture, BeforeB
    <3>3. ASSUME Live, toHost = <<>> PROVE Fit(m)
      <4>1. phase = "adjust"
        BY <3>2, <3>3
      <4> QED BY <3>1, <3>3, <4>1, CaptureFits
    <3> QED BY <1>1, <1>3, <3>1, <3>2, <3>3, SendFits DEF Over, failed, MayFollow
  <2>3. CASE D!count = 3
    <3>1. m.key = "r"
      BY <1>20, <2>3, NameFacts DEF captureId
    <3>2. ASSUME Live PROVE Idle /\ phase = "compare_ready" /\ Len(ids) = 2 /\ speaking = None
      <4>1. Idle /\ phase = "compare_ready" /\ Len(ids) = 2
        BY <1>3, <2>3, <3>2 DEF Together, Sync, SyncCapture, BeforeR
      <4> QED BY <3>2, <4>1, SameNames DEF Together, MacInv
    <3> QED BY <1>1, <1>3, <3>1, <3>2, SendFits, CaptureFits DEF Over, failed, Idle, SpeakFirst
  <2> QED BY <1>2, <2>1, <2>2, <2>3
<1>4. CASE pc = "capture_end" /\ Sent([type |-> "capture_end", key |-> captureId, valid |-> TRUE], "stored")
  <2> DEFINE m == [type |-> "capture_end", key |-> captureId, valid |-> TRUE]
  <2>1. ASSUME Live PROVE Idle /\ Fit(m)
    <3>1. Idle /\ phase = Recordings[D!count] /\ Len(ids) = D!count - 1
      BY <1>4, <2>1 DEF Together, Sync, SyncCapture
    <3>2. m.key = captureNames[D!count] /\ handler = "reading" /\ Stages /\ Named
      BY <1>20, <2>1, SameNames DEF captureId
    <3>3. /\ phase \in {"recording_a", "recording_b", "recording_repeat"}
          /\ \/ Len(ids) = 0 /\ m.key = "a" /\ phase = "recording_a"
             \/ Len(ids) = 1 /\ m.key = "b" /\ phase = "recording_b"
             \/ Len(ids) = 2 /\ m.key = "r" /\ phase = "recording_repeat"
      BY <1>2, <3>1, <3>2 DEF Recordings, captureNames
    <3>4. m.key \in seen
      BY <3>2, <3>3 DEF Stages, Before
    <3>5. \A i \in 1..Len(ids) : ids[i] # m.key
      BY <3>2, <3>3, NameFacts DEF Named
    <3> QED BY <3>1, <3>3, <3>4, <3>5 DEF Fit, H!MayEndCapture, H!Recording
  <2> QED BY <1>1, <1>4, <2>1, SendFits DEF Over, failed, Idle
<1> QED BY <1>1, <1>3, <1>4, CutFits DEF Upload, Lost, Over, failed

(* So is the turn.                                                         *)
LEMMA TurnQueued ==
  ASSUME Together, Turn
  PROVE  QueueInv'
<1>1. pc = "uploaded" /\ UNCHANGED <<h_vars, playback>> /\ state = "uploading"
  BY DEF Turn, stream_vars, Active, Together, PlanInv
<1>2. D!count = 1 \/ D!count = 2 \/ D!count = 3
  <2>1. D!count \in 1..3
    BY <1>1 DEF Together, CountInv
  <2> QED BY <2>1
<1> DEFINE m == [type |-> "turn", key |-> D!request, ids |-> D!captureIds,
                 adjusted |-> D!count > 1, sent |-> now, deadline |-> deadline']
<1>3. CASE Sent(m, "reply")
  <2>1. ASSUME Live PROVE Idle /\ Fit(m)
    <3>1. Idle /\ phase = ReadyFor /\ Len(ids) = D!count
      BY <1>1, <2>1 DEF Together, Sync, SyncCapture
    <3>2. handler = "reading" /\ Stages /\ Named /\ \A i \in 1..D!count : captures[i].id = captureNames[i]
      BY <2>1, SameNames
    <3>3. D!captureIds = ids
      <4>1. ids = [i \in 1..Len(ids) |-> ids[i]]
        BY <3>2 DEF Named
      <4>2. \A i \in 1..Len(ids) : ids[i] = captures[i].id
        BY <3>1, <3>2 DEF Named
      <4> QED BY <3>1, <4>1, <4>2 DEF D!captureIds
    <3>4. CASE D!count = 1
      <4>1. phase = "guide_ready" /\ requests = {} /\ pending = None /\ m.key = "r1"
        BY <3>1, <3>2, <3>4 DEF ReadyFor, Stages, Before, D!request
      <4>2. H!Cardinality(requests) = 0
        BY <4>1, FS_EmptySet, Counting
      <4> QED BY <3>1, <3>3, <3>4, <4>1, <4>2 DEF Fit, H!MayTurn, H!Running, H!Terminal
    <3>5. CASE D!count # 1
      <4>1. phase = "compare_ready" /\ requests = {"r1"} /\ pending = None /\ m.key = "r2" /\ Len(ids) # 1
        BY <3>1, <3>2, <3>5 DEF ReadyFor, Stages, Before, D!request
      <4>2. H!Cardinality(requests) = 1
        BY <4>1, FS_Singleton, Counting
      <4> QED BY <3>1, <3>3, <4>1, <4>2 DEF Fit, H!MayTurn, H!Running, H!Terminal
    <3> QED BY <3>4, <3>5
  <2> QED BY <1>1, <1>3, <2>1, SendFits DEF Over, failed, Idle
<1> QED BY <1>1, <1>3, CutFits DEF Turn, Lost, Over, failed

(* So is the ack.                                                          *)
LEMMA AckQueued ==
  ASSUME Together, Ack
  PROVE  QueueInv'
<1>1. pc = "ack" /\ UNCHANGED <<h_vars, playback>> /\ state = "acknowledging"
  BY DEF Ack, stream_vars, Active, Together, PlanInv
<1>2. D!count = 1 \/ D!count = 2 \/ D!count = 3
  <2>1. D!count \in 1..3
    BY <1>1 DEF Together, CountInv
  <2> QED BY <2>1
<1> DEFINE m == [type |-> "ack", key |-> D!request]
<1>3. CASE Sent(m, "acked")
  <2>1. ASSUME Live PROVE Idle /\ Fit(m)
    <3>1. Idle /\ phase = "await_ack" /\ Len(ids) = D!count
      BY <1>1, <2>1 DEF Together, Sync, SyncReply
    <3>2. Stages
      BY <2>1, SameNames
    <3>3. pending = m.key
      BY <1>2, <3>1, <3>2 DEF Stages, Before, D!request
    <3> QED BY <3>1, <3>3 DEF Fit
  <2> QED BY <1>1, <1>3, <2>1, SendFits DEF Over, failed, Idle
<1> QED BY <1>1, <1>3, CutFits DEF Ack, Lost, Over, failed

(* What is spoken is the reply the Mac holds.                              *)
LEMMA SpokenOf ==
  ASSUME Together, Live, pc \in {"guidance", "speak", "speech", "spoken"}
  PROVE  /\ \/ state = "adjust" /\ D!count = 1 /\ speechKey = "r1" /\ Answered = "adjust"
            \/ state = "complete" /\ D!count \in 2..3 /\ speechKey = "r2" /\ Answered = "complete"
         /\ phase = Answered => acknowledged = speechKey
         /\ phase \in {"adjust", "complete"} /\ acknowledged = speechKey => phase = Answered
<1>1. state = "adjust" \/ state = "complete"
  BY DEF Together, GuidedInv, ScreenInv, Voiced, Live, Dead, D!terminal, D!TerminalStates
<1>2. (state = "adjust" => D!count = 1) /\ (state = "complete" => D!count \in 2..3)
  BY DEF Together, CountInv
<1>3. D!count \in 2..3 => D!count # 1
  OBVIOUS
<1>4. \/ state = "adjust" /\ D!count = 1 /\ speechKey = "r1" /\ Answered = "adjust"
      \/ state = "complete" /\ D!count \in 2..3 /\ speechKey = "r2" /\ Answered = "complete"
  BY <1>1, <1>2, <1>3 DEF speechKey, Answered
<1>5. (phase = "adjust" => acknowledged = "r1") /\ (phase = "complete" => acknowledged = "r2")
  BY SameNames DEF Stages, Before
<1>6. CASE state = "adjust" /\ D!count = 1 /\ speechKey = "r1" /\ Answered = "adjust"
  BY <1>5, <1>6
<1>7. CASE state = "complete" /\ D!count \in 2..3 /\ speechKey = "r2" /\ Answered = "complete"
  BY <1>5, <1>7
<1> QED BY <1>4, <1>6, <1>7

(* So is speak.                                                            *)
LEMMA SpeakQueued ==
  ASSUME Together, Speak
  PROVE  QueueInv'
<1>1. pc = "speak" /\ UNCHANGED h_vars /\ (failed => failed')
  BY DEF Speak, Together, FailedInv, Over, Behind
<1> DEFINE m == [type |-> "speak", key |-> speechKey]
<1>3. CASE Sent(m, "speech")
  <2>1. ASSUME Live PROVE Idle /\ Fit(m)
    <3>1. Idle /\ phase = Answered /\ speaking = None /\ speechKey \notin spoken
      BY <1>1, <2>1 DEF Together, Sync, SyncSpeak
    <3>2. phase \in {"adjust", "complete"} /\ acknowledged = speechKey
      BY <1>1, <2>1, <3>1, SpokenOf
    <3>3. Speaker
      BY <1>1 DEF Together, PlaceInv, SaidInv
    <3> QED BY <3>1, <3>2, <3>3 DEF Fit, H!MaySpeak
  <2> QED BY <1>1, <1>3, <2>1, SendFits DEF Over, Idle
<1> QED BY <1>1, <1>3, CutFits DEF Speak, Over

(* speech_stop follows the speak it stops.                                 *)
LEMMA StopQueued ==
  ASSUME Together, StopSpeech
  PROVE  QueueInv'
<1>1. pc = "speech" /\ ~stopped /\ UNCHANGED <<h_vars, playback>>
  BY DEF StopSpeech
<1> DEFINE m == [type |-> "speech_stop", key |-> speechKey]
<1>2. CASE UNCHANGED <<d_vars, now, socket_vars>>
  <2>1. UNCHANGED <<toHost, broken, playback, h_vars>> /\ (Cancelling => Cancelling')
    BY <1>1, <1>2 DEF socket_vars, Cancelling
  <2> QED BY <2>1, QueueFrame DEF Together, failed
<1>3. CASE Sent(m, "speech")
  <2>1. ASSUME Live
        PROVE  /\ toHost = <<>> => phase = Answered /\ speechKey \in spoken
               /\ \A i \in 1..Len(toHost) :
                    /\ toHost[i].type \in {"speak", "speech_stop"} /\ toHost[i].key = speechKey
                    /\ toHost[i].type # "speech_stop"
    BY <1>1, <2>1 DEF Together, Sync, SyncSpeak
  <2>2. ASSUME Live, toHost = <<>> PROVE Fit(m)
    <3>1. phase \in {"adjust", "complete"} /\ acknowledged = speechKey /\ speechKey \in spoken
      BY <1>1, <2>1, <2>2, SpokenOf
    <3> QED BY <3>1 DEF Fit
  <2>3. ASSUME Live, toHost # <<>> PROVE MayFollow(LastSent, m)
    <3>1. Len(toHost) \in 1..Len(toHost)
      BY <2>3, Shape DEF Together, GuidedInv, EvidenceInv
    <3> QED BY <2>1, <2>3, <3>1 DEF MayFollow, LastSent
  <2> QED BY <1>1, <1>3, <2>2, <2>3, SendFits DEF Over, failed
<1>4. CASE CutShort("spoken")
  BY <1>1, <1>4, CutFits DEF Over, failed
<1> QED BY <1>2, <1>3, <1>4 DEF StopSpeech, TellStop

(* hello is the first message of the connection.                           *)
LEMMA ConnectQueued ==
  ASSUME Together, Connect
  PROVE  QueueInv'
<1>1. /\ pc = "connect" /\ UNCHANGED <<h_vars, playback>> /\ toHost = <<>> /\ broken
      /\ phase = "new" /\ speaking = None
  BY DEF Connect, stream_vars, Together, GuidedInv, StageInv, LastIsTorn, PlaceInv
<1>2. UNCHANGED <<handler, phase, speaking>>
  BY <1>1 DEF h_vars
<1>3. ~Cancelling
  BY <1>1 DEF Cancelling
<1>4. CASE toHost' = <<>> /\ UNCHANGED broken
  BY <1>1, <1>3, <1>4, QueueFrame DEF Together, failed
<1>5. ASSUME NEW m, toHost' = <<m>>, (m.type = "torn" /\ broken') \/ m.type = "hello"
      PROVE  QueueInv'
  <2>1. /\ toHost' # <<>> /\ Len(toHost') = 1 /\ toHost'[1] = m
        /\ \A i \in 1..Len(toHost') : toHost'[i] = m
    BY <1>5
  <2>2. Fit(toHost[1])'
    BY <1>1, <1>2, <1>5, <2>1 DEF Fit
  <2>3. \A i \in 1..Len(toHost') - 1 : FALSE
    BY <2>1
  <2>4. \A i \in 1..Len(toHost') : /\ toHost'[i].type = "cancel" => Cancelling'
                                   /\ toHost'[i].type = "torn" => broken'
                                   /\ toHost'[i].type # "capture_start"
    BY <1>5, <2>1
  <2>5. phase' = "new"
    BY <1>1, <1>2
  <2> QED BY <2>1, <2>2, <2>3, <2>4, <2>5 DEF QueueInv
<1> QED BY <1>1, <1>4, <1>5 DEF Connect, Torn

(* cancel is the last.                                                     *)
LEMMA EndQueued ==
  ASSUME Together, End
  PROVE  QueueInv'
<1>1. /\ pc = "end" /\ UNCHANGED <<h_vars, playback, broken, cancelled>> /\ ~Cancelling
  BY DEF End, Cancelling, ui_vars
<1>2. CASE toHost' = toHost
  BY <1>1, <1>2, QueueFrame DEF Together, failed
<1>3. CASE /\ cancelled /\ D!Cancel /\ Writable(TRUE) /\ toHost' = Append(toHost, [type |-> "cancel"])
  <2> DEFINE m == [type |-> "cancel"]
  <2>1. Cancelling'
    BY <1>1, <1>3 DEF End, Cancelling, D!Cancel, D!Enter
  <2>2. ~broken
    BY <1>3 DEF Writable
  <2>3. handler = "reading" => phase # "cancelled"
    BY <1>1 DEF Together, QueueInv
  <2>4. handler = "reading" /\ toHost = <<>> => Fit(m)
    BY <2>2, <2>3 DEF Together, QueueInv, Fit
  <2>5. ASSUME toHost # <<>> PROVE MayFollow(LastSent, m)
    <3>1. Len(toHost) \in 1..Len(toHost)
      <4>1. toHost \in Seq({toHost[i] : i \in DOMAIN toHost})
        BY DEF Together, LastIsTorn
      <4> QED BY <2>5, <4>1
    <3> QED BY <1>1, <2>2, <3>1 DEF Together, QueueInv, MayFollow, LastSent
  <2> QED BY <1>1, <1>3, <2>1, <2>3, <2>4, <2>5, SendKeeps DEF Together, GuidedInv, EvidenceInv,
     failed
<1> QED BY <1>2, <1>3 DEF End

(* The queue through every step.                                           *)
LEMMA QueueStep ==
  ASSUME Together, [Next]_vars
  PROVE  QueueInv'
<1>1. CASE HostReads
  BY <1>1, QueueOnMessage DEF Together, GuidedInv, EvidenceInv
<1>2. CASE HostStep
  BY <1>2, QueueWaits DEF Together
<1>3. CASE TellConfirm \/ UploadQuestion \/ Upload \/ Turn \/ Ack \/ Speak \/ StopSpeech \/ Connect \/ End
  BY <1>3, ConfirmQueued, QuestionQueued, CaptureQueued, TurnQueued, AckQueued, SpeakQueued,
     StopQueued, ConnectQueued, EndQueued
<1>4. ASSUME UNCHANGED <<h_vars, toHost, broken>> PROVE QueueInv'
  <2>1. (Cancelling => Cancelling') /\ (failed => failed')
    BY CancellingStays, FailedStays DEF Together
  <2> QED BY <1>4, <2>1, QueueFrame DEF Together
<1> USE DEF socket_vars
<1>5. CASE Stop \/ PollError \/ DeviceFails \/ Begin \/ Prompt \/ Act \/ AskQuestion \/ StopListening
  BY <1>4, <1>5 DEF Stop, PollError, DeviceFails, Begin, Prompt, Act, AskQuestion, StopListening
<1>6. CASE QuestionRecorded \/ Record \/ Recorded \/ WalkBack \/ Guidance \/ Spoken \/ ConfirmB
  BY <1>4, <1>6 DEF QuestionRecorded, Record, Recorded, WalkBack, Guidance, Spoken, ConfirmB
<1>7. CASE SpeechOver \/ Final \/ LastSpeech \/ EndSpeech \/ Finish \/ Read
  BY <1>4, <1>7 DEF SpeechOver, Final, LastSpeech, EndSpeech, Finish, Read
<1>8. CASE Tap \/ Advance \/ UNCHANGED vars
  BY <1>4, <1>8 DEF Tap, Cancel, Choose, Advance, vars
<1> QED BY <1>1, <1>2, <1>3, <1>5, <1>6, <1>7, <1>8 DEF Next, MediaTask

(* A reading given up on, through every step.                              *)
LEMMA FailedStep ==
  ASSUME Together, [Next]_vars
  PROVE  FailedInv'
BY FailedOnDevice, FailedWaits DEF Together, GuidedInv, EvidenceInv

(* The Mac keeps its place.                                                *)
LEMMA MacStep ==
  ASSUME Together, [Next]_vars
  PROVE  MacInv'
<1>1. CASE HostReads
  <2>1. Fit(Head(toHost))
    <3>1. handler = "reading" /\ toHost # <<>> /\ toHost' = Tail(toHost)
      BY <1>1 DEF HostReads, H!Receive
    <3>2. Head(toHost) = toHost[1]
      BY <3>1, TakenQueue DEF Together, GuidedInv, EvidenceInv
    <3> QED BY <3>1, <3>2 DEF Together, QueueInv
  <2> QED BY <1>1, <2>1, MacOnMessage DEF Together
<1>2. CASE HostStep
  BY <1>2, MacOnItsOwn DEF Together
<1>3. CASE ~(HostReads \/ HostStep)
  <2>1. UNCHANGED h_vars
    BY <1>3, MacWaits
  <2>2. link' => link
    <3> USE DEF socket_vars
    <3>1. CASE TellConfirm \/ UploadQuestion \/ Upload \/ Turn \/ Ack \/ Speak \/ StopSpeech \/ Connect \/ End
      BY <3>1, SendsOrCuts DEF TellConfirm, UploadQuestion, Upload, Turn, Ack, Speak,
         StopSpeech, TellStop, Connect, End, Lost
    <3>2. CASE Stop \/ PollError \/ DeviceFails \/ Begin \/ Prompt \/ Act \/ AskQuestion \/ StopListening
               \/ QuestionRecorded \/ Record \/ Recorded \/ WalkBack \/ Guidance \/ Spoken \/ ConfirmB
      BY <3>2 DEF Stop, PollError, DeviceFails, Begin, Prompt, Act, AskQuestion, StopListening,
         QuestionRecorded, Record, Recorded, WalkBack, Guidance, Spoken, ConfirmB
    <3>3. CASE SpeechOver \/ Final \/ LastSpeech \/ EndSpeech \/ Finish \/ Read \/ Tap \/ Advance
               \/ UNCHANGED vars
      BY <3>3 DEF SpeechOver, Final, LastSpeech, EndSpeech, Finish, Read, Tap, Cancel, Choose,
         Advance, vars
    <3> QED BY <1>3, <3>1, <3>2, <3>3 DEF Next, MediaTask
  <2> QED BY <2>1, <2>2, MacIsKept DEF Together
<1> QED BY <1>1, <1>2, <1>3

-----------------------------------------------------------------------------
(* Where the connection is good after a step, it was before.               *)
LEMMA DeadStays ==
  ASSUME PlaceInv, StageInv, ScreenInv, Dead, [Next]_vars
  PROVE  Dead'
<1>1. pc \in Over \cup {"spoken"} \/ (pc = "speak" /\ cancelled)
  BY DEF PlaceInv
<1>2. CASE pc \in Over
  <2>1. D!terminal' /\ state' # "complete"
    BY <1>2, StageStep DEF Onward, StageInv, Dead
  <2> QED BY <2>1 DEF Dead, D!terminal, D!TerminalStates
<1>3. CASE pc \in {"spoken", "speak"} /\ MediaTask
  <2>1. CASE Stop
    BY <2>1, Ending DEF Stop, Dead, d_vars
  <2>2. ~Spoken
    BY DEF Spoken, Active, Dead, D!terminal, D!TerminalStates
  <2>3. CASE Speak
    BY <2>3 DEF Speak, Dead, Disconnect, d_vars, D!terminal, D!TerminalStates
  <2>4. CASE EndSpeech
    BY <2>4 DEF EndSpeech, Dead, d_vars
  <2>5. ~(PollError \/ DeviceFails \/ Begin \/ Connect \/ Prompt \/ Act \/ TellConfirm \/ AskQuestion
          \/ StopListening \/ QuestionRecorded \/ UploadQuestion \/ Record \/ Recorded \/ Upload
          \/ WalkBack \/ Turn \/ Ack \/ Guidance \/ ConfirmB \/ StopSpeech \/ SpeechOver
          \/ End \/ Final \/ LastSpeech \/ Finish \/ Read)
    BY <1>3 DEF PollError, DeviceFails, Begin, Connect, Prompt, Act, TellConfirm, AskQuestion,
         StopListening, QuestionRecorded, UploadQuestion, Record, Recorded, Upload, WalkBack, Turn,
         Ack, Guidance, ConfirmB, StopSpeech, SpeechOver, End, Final, LastSpeech, Finish, Read,
         Polling
  <2> QED BY <1>3, <2>1, <2>2, <2>3, <2>4, <2>5 DEF MediaTask
<1>4. CASE ~MediaTask
  BY <1>4 DEF Next, Tap, Cancel, Choose, HostReads, HostStep, device_vars, Advance, vars,
     d_vars, Dead
<1> QED BY <1>1, <1>2, <1>3, <1>4

(* A connection that is good now was good before a step other than         *)
(* Connect.                                                                *)
LEMMA LiveBefore ==
  ASSUME Together, [Next]_vars, ~Connect, Live'
  PROVE  Live
<1>1. ~Dead
  BY DeadStays DEF Together, GuidedInv, Live
<1>2. (link' => link) /\ (broken => broken') /\ (cancelled => cancelled')
  <2>1. CASE HostReads \/ HostStep
    BY <2>1, DeadIsSilent DEF HostReads, HostStep, device_vars, ui_vars
  <2> USE DEF socket_vars, ui_vars
  <2>2. CASE TellConfirm \/ UploadQuestion \/ Upload \/ Turn \/ Ack
    BY <2>2, SendsOrCuts DEF TellConfirm, UploadQuestion, Upload, Turn, Ack, Lost
  <2>5. CASE Speak
    BY <2>5, SendsOrCuts DEF Speak
  <2>8. CASE StopSpeech
    <3>1. CASE UNCHANGED <<link, broken>>
      BY <2>8, <3>1 DEF StopSpeech
    <3>2. CASE CutShort("spoken")
      BY <2>8, <3>2, SendsOrCuts DEF StopSpeech
    <3> QED BY <2>8, <3>1, <3>2, SendsOrCuts DEF StopSpeech, TellStop
  <2>9. CASE End
    BY <2>9 DEF End
  <2>3. CASE Stop \/ PollError \/ DeviceFails \/ Begin \/ Prompt \/ Act \/ AskQuestion \/ StopListening
             \/ QuestionRecorded \/ Record \/ Recorded \/ WalkBack \/ Guidance \/ Spoken \/ ConfirmB
    BY <2>3 DEF Stop, PollError, DeviceFails, Begin, Prompt, Act, AskQuestion, StopListening,
       QuestionRecorded, Record, Recorded, WalkBack, Guidance, Spoken, ConfirmB
  <2>4. CASE SpeechOver \/ Final \/ LastSpeech \/ EndSpeech \/ Finish \/ Read
    BY <2>4 DEF SpeechOver, Final, LastSpeech, EndSpeech, Finish, Read
  <2>6. CASE Tap
    <3>1. CASE Cancel
      BY <3>1 DEF Cancel
    <3>2. ASSUME NEW value \in {1, 2}, Choose(value)
          PROVE  (link' => link) /\ (broken => broken') /\ (cancelled => cancelled')
      BY <3>2 DEF Choose
    <3> QED BY <2>6, <3>1, <3>2 DEF Tap
  <2>7. CASE Advance \/ UNCHANGED vars
    BY <2>7 DEF Advance, vars
  <2> QED BY <2>1, <2>2, <2>3, <2>4, <2>5, <2>6, <2>7, <2>8, <2>9 DEF Next, MediaTask
<1>3. link' /\ ~broken' /\ ~cancelled'
  BY DEF Live
<1> QED BY <1>1, <1>2, <1>3 DEF Live

(* The sync is of these only.                                              *)
LEMMA SyncFrame ==
  ASSUME Together, [Next]_vars, ~Connect, UNCHANGED <<h_vars, toHost, received, pc, state, playback, stopped>>,
         UNCHANGED <<questions, questionId, captures>>
  PROVE  Sync'
<1> SUFFICES ASSUME Live' PROVE Sync'
  BY DEF Sync
<1>1. Live
  BY LiveBefore
<1>2. SyncAsk /\ SyncCapture /\ SyncReply /\ SyncSpeak
  BY <1>1 DEF Together, Sync
<1> USE DEF h_vars, Idle, Only, Told, AllRead, OneUnread, LastSent, Message, D!count, D!request
<1>3. SyncAsk'
  BY <1>2 DEF SyncAsk, AwaitA, Unasked
<1>4. SyncCapture'
  BY <1>2 DEF SyncCapture, BeforeB, BeforeR, SpeakFirst, failed, ReadyFor
<1>5. SyncReply'
  BY <1>2 DEF SyncReply, Answered
<1>6. SyncSpeak'
  BY <1>2 DEF SyncSpeak, Answered, SpeakSync, SpeakFirst, speechKey
<1> QED BY <1>3, <1>4, <1>5, <1>6 DEF Sync

-----------------------------------------------------------------------------
(* The sync through the steps of the device.  A run that goes on with a    *)
(* good connection is not over.                                            *)
LEMMA GoesLive ==
  ASSUME Together, Live
  PROVE  /\ pc \notin Over \cup {"last"} \cup Voiced => ~D!terminal
         /\ D!terminal => state = "complete" /\ pc \in Over \cup {"last"} \cup Voiced
         /\ state = "complete" /\ pc \in Voiced => finalSpeech
         /\ pc \notin {"begin", "connect"}
BY DEF Together, PlaceInv, Live, Dead, D!terminal, D!TerminalStates, GuidedInv, StageInv,
   Voiced, LastIsTorn

(* Ending it is the end of that.                                           *)
LEMMA EndedIsDead ==
  ASSUME Together, Live, Disconnect \/ Fail \/ D!Cancel \/ D!Tick, ~Dead'
  PROVE  state = "complete" /\ UNCHANGED d_vars /\ (Disconnect \/ Fail)
<1>1. ~D!Cancel /\ ~D!Tick
  BY DEF D!Cancel, D!Tick, D!Enter, Dead
<1>2. D!terminal
  BY <1>1 DEF Disconnect, Fail, D!Disconnect, D!Fail, D!Enter, Dead
<1>3. UNCHANGED d_vars
  BY <1>1, <1>2 DEF Disconnect, Fail
<1> QED BY <1>1, <1>2, <1>3, GoesLive

(* Steps after which it is not, or that do not touch it.                   *)
LEMMA SyncEnding ==
  ASSUME Together, Stop \/ PollError \/ DeviceFails \/ Begin \/ Finish, Live'
  PROVE  FALSE
<1>1. ~Connect
  BY DEF Stop, PollError, DeviceFails, Begin, Finish, Connect, Checked, Polling
<1>2. Live
  BY <1>1, LiveBefore DEF Next, MediaTask
<1>3. ~Dead' /\ ~cancelled /\ link' /\ link
  BY <1>2 DEF Live
<1>4. CASE Stop
  <2>1. ~D!terminal
    BY <1>2, <1>4, GoesLive DEF Stop, Checked, Over, Voiced
  <2>2. D!expired
    BY <1>3, <1>4, <2>1 DEF Stop, Active
  <2>3. D!Tick
    BY <1>3, <1>4, <2>2 DEF Stop
  <2> QED BY <1>2, <1>3, <2>1, <2>3, EndedIsDead DEF D!terminal, D!TerminalStates
<1>5. CASE PollError \/ Finish
  BY <1>3, <1>5 DEF PollError, Finish, socket_vars
<1>6. CASE DeviceFails
  <2>1. ~D!terminal /\ Fail
    BY <1>2, <1>6, GoesLive DEF DeviceFails, Over, Voiced
  <2> QED BY <1>2, <1>3, <2>1, EndedIsDead DEF D!terminal, D!TerminalStates
<1>7. CASE Begin
  BY <1>2, <1>7, GoesLive DEF Begin
<1> QED BY <1>4, <1>5, <1>6, <1>7

(* The connection is made.                                                 *)
LEMMA SyncConnect ==
  ASSUME Together, Connect, Live'
  PROVE  Sync'
<1>1. /\ pc = "connect" /\ broken /\ ~D!terminal
  BY DEF Connect, Together, LastIsTorn, Active
<1>2. broken' = FALSE /\ toHost' = <<[type |-> "hello"]>> /\ pc' = "hello" /\ UNCHANGED d_vars
  BY <1>1 DEF Connect, Live
<1>3. state' = "connecting" /\ outbox' = <<>> /\ received' = 0
  BY <1>1, <1>2 DEF Connect, Together, PlanInv, PlaceInv, d_vars, h_vars
<1>4. Only("hello")'
  BY <1>2, <1>3 DEF Only, AllRead, LastSent
<1> QED BY <1>2, <1>3, <1>4 DEF Sync, SyncAsk, SyncCapture, SyncReply, SyncSpeak, Unasked,
   BeforeB, BeforeR

(* Nothing is sent, and the run goes on.                                   *)
LEMMA SyncPrompt ==
  ASSUME Together, Prompt \/ Act, Live'
  PROVE  Sync'
<1>1. ~Connect /\ pc \in {"prompt", "choose"}
  BY DEF Prompt, Act, Connect
<1>2. Live
  BY <1>1, LiveBefore DEF Next, MediaTask
<1>3. ~D!terminal /\ state \in {"ready_a", "confirming", "ready_b", "return_a"}
  BY <1>1, <1>2, GoesLive DEF Together, PlanInv, Over, Voiced
<1>4. UNCHANGED <<phase, questionIds, ids, speaking, spoken, outbox, received, toHost, captures, questions, playback>>
  BY DEF Prompt, Act, d_vars, h_vars, socket_vars, stream_vars, D!ConfirmQuestion
<1>5. SyncAsk /\ SyncCapture
  BY <1>2 DEF Together, Sync
<1>6. \/ pc' \in {"choose", "record"} /\ state' = state
      \/ state = "confirming" /\ state' = "ready_a" /\ pc' \in {"use", "discard"}
      \/ state # "confirming" /\ state' = state /\ pc' \in {"record", "ask"}
  BY DEF Prompt, Act, D!ConfirmQuestion, d_vars
<1> USE DEF Idle, Only, Told, AllRead, OneUnread, LastSent, Message, D!count, D!request
<1>7. SyncAsk'
  BY <1>1, <1>3, <1>4, <1>5, <1>6 DEF SyncAsk, AwaitA, Unasked
<1>8. SyncCapture'
  BY <1>1, <1>3, <1>4, <1>5, <1>6 DEF SyncCapture, BeforeB, BeforeR, SpeakFirst, failed, ReadyFor
<1>9. SyncReply' /\ SyncSpeak'
  BY <1>3, <1>6 DEF SyncReply, SyncSpeak
<1> QED BY <1>7, <1>8, <1>9 DEF Sync

(* A question is recorded: nothing is sent of it yet.                      *)
LEMMA SyncAsking ==
  ASSUME Together, AskQuestion \/ StopListening \/ QuestionRecorded, Live'
  PROVE  Sync'
<1>1. ~Connect /\ pc \in {"ask", "listening", "recorded"}
  BY DEF AskQuestion, StopListening, QuestionRecorded, Connect
<1>2. Live
  BY <1>1, LiveBefore DEF Next, MediaTask
<1>3. ~D!terminal /\ state \in {"ready_a", "ready_b", "return_a", "asking"}
  BY <1>1, <1>2, GoesLive DEF Together, PlanInv, Over, Voiced
<1>4. UNCHANGED <<phase, questionIds, ids, speaking, spoken, outbox, received, toHost, captures, playback>>
  BY DEF AskQuestion, StopListening, QuestionRecorded, d_vars, h_vars, socket_vars, stream_vars,
         D!StartQuestion, D!QuestionRecorded
<1>5. SyncAsk
  BY <1>2 DEF Together, Sync
<1>6. \/ state \in {"ready_a", "asking"} /\ state' = "asking" /\ pc' \in {"listening", "recorded"} /\ UNCHANGED questions
      \/ /\ state = "asking" /\ state' = "transcribing" /\ pc' = "question" /\ questions' = questions + 1
         /\ questions \in Nat
  <2>1. CASE AskQuestion
    BY <2>1 DEF AskQuestion, D!StartQuestion, D!ask_vars
  <2>2. CASE StopListening
    <3>1. state = "asking"
      BY <1>2, <2>2, GoesLive DEF StopListening, Together, PlanInv, Over, Voiced
    <3> QED BY <2>2, <3>1 DEF StopListening, d_vars
  <2>3. CASE QuestionRecorded
    <3>1. questions \in Nat
      BY <1>2, SameNames
    <3> QED BY <2>3, <3>1 DEF QuestionRecorded, D!QuestionRecorded, D!Enter
  <2> QED BY <2>1, <2>2, <2>3
<1> USE DEF Idle, Only, Told, AllRead, OneUnread, LastSent, Message, D!count, D!request
<1>7. SyncAsk'
  <2>1. Unasked /\ pc \notin {"use", "discard"} /\ AwaitA(questions)
    BY <1>1, <1>5, <1>6 DEF SyncAsk, Unasked
  <2>2. CASE state' = "asking" /\ pc' \in {"listening", "recorded"} /\ UNCHANGED questions
    BY <1>4, <2>1, <2>2 DEF SyncAsk, AwaitA, Unasked
  <2>3. CASE /\ state' = "transcribing" /\ pc' = "question" /\ questions' = questions + 1
             /\ questions \in Nat
    <3>1. questions' - 1 = questions /\ questions' > 0
      BY <2>3
    <3>2. AwaitA(questions' - 1)
      BY <2>1, <3>1
    <3>3. (AwaitA(questions - 1))'
      BY <1>4, <3>2 DEF AwaitA
    <3> QED BY <2>3, <3>1, <3>3 DEF SyncAsk, Unasked
  <2> QED BY <1>6, <2>2, <2>3
<1>8. SyncCapture'
  BY <1>6 DEF SyncCapture, BeforeB, BeforeR
<1>9. SyncReply' /\ SyncSpeak'
  BY <1>6 DEF SyncReply, SyncSpeak
<1> QED BY <1>7, <1>8, <1>9 DEF Sync

(* Nor does starting a recording.                                          *)
LEMMA SyncRecord ==
  ASSUME Together, Record, Live'
  PROVE  Sync'
<1>1. ~Connect /\ pc = "record" /\ pc' = "recording"
  BY DEF Record, Connect
<1>2. Live
  BY <1>1, LiveBefore DEF Next, MediaTask
<1>4. UNCHANGED <<phase, questionIds, ids, speaking, spoken, outbox, received, toHost, captures, playback, questions>>
  BY DEF Record, h_vars, socket_vars, stream_vars, D!StartCapture, D!ask_vars
<1>5. SyncAsk /\ SyncCapture
  BY <1>2 DEF Together, Sync
<1>6. \/ state = "ready_a" /\ state' = "recording_a"
      \/ state = "ready_b" /\ state' = "recording_b"
      \/ state = "return_a" /\ state' = "recording_repeat"
  BY DEF Record, D!StartCapture
<1> USE DEF Idle, Only, Told, AllRead, OneUnread, LastSent, Message, D!count, D!request
<1>7. SyncAsk'
  BY <1>1, <1>4, <1>5, <1>6 DEF SyncAsk, AwaitA, Unasked
<1>8. SyncCapture'
  BY <1>1, <1>4, <1>5, <1>6 DEF SyncCapture, BeforeB, BeforeR, SpeakFirst, failed, ReadyFor
<1>9. SyncReply' /\ SyncSpeak'
  BY <1>1, <1>6 DEF SyncReply, SyncSpeak
<1> QED BY <1>7, <1>8, <1>9 DEF Sync

(* A recording is ready to be sent: the Mac is where it takes one.         *)
LEMMA SyncRecorded ==
  ASSUME Together, Recorded, Live'
  PROVE  Sync'
<1>1. ~Connect /\ pc = "recording" /\ pc' = "upload" /\ state' = "uploading"
  BY DEF Recorded, Connect, D!Captured, D!Enter
<1>2. Live
  BY <1>1, LiveBefore DEF Next, MediaTask
<1>3. ~D!terminal
  BY <1>1, <1>2, GoesLive DEF Over, Voiced
<1>4. UNCHANGED <<phase, questionIds, ids, speaking, spoken, outbox, received, toHost, playback, questions>>
  BY DEF Recorded, h_vars, socket_vars, stream_vars, D!Captured, D!ask_vars
<1>5. SyncAsk /\ SyncCapture
  BY <1>2 DEF Together, Sync
<1>6. \/ state = "recording_a" /\ D!count' = 1
      \/ state = "recording_b" /\ D!count' = 2
      \/ state = "recording_repeat" /\ D!count' = 3
  <2>1. \/ state = "recording_a" /\ D!count = 0
        \/ state = "recording_b" /\ D!count = 1
        \/ state = "recording_repeat" /\ D!count = 2
    BY DEF Recorded, D!Captured, D!Acceptable, D!RecordingStates, Together, CountInv
  <2>2. D!count' = D!count + 1
    <3>1. PICK c : captures' = Append(captures, c)
      BY DEF Recorded, D!Captured
    <3>2. captures \in Seq(Held)
      BY DEF Together, CountInv
    <3> DEFINE S == Held \cup {c}
    <3>3. captures \in Seq(S) /\ c \in S
      BY <3>2
    <3> HIDE DEF S
    <3> QED BY <3>1, <3>3 DEF D!count
  <2> QED BY <2>1, <2>2
<1> USE DEF Idle, Only, Told, AllRead, OneUnread, LastSent, Message
<1>7. SyncAsk'
  BY <1>1, <1>4, <1>5, <1>6 DEF SyncAsk, AwaitA, Unasked
<1>8. SyncCapture'
  BY <1>1, <1>4, <1>5, <1>6 DEF SyncCapture, BeforeB, BeforeR, SpeakFirst, failed, ReadyFor
<1>9. SyncReply' /\ SyncSpeak'
  BY <1>1 DEF SyncReply, SyncSpeak
<1> QED BY <1>7, <1>8, <1>9 DEF Sync

(* After B the Mac waits for the repeat of A.                              *)
LEMMA SyncWalk ==
  ASSUME Together, WalkBack, Live'
  PROVE  Sync'
<1>1. ~Connect /\ pc = "uploaded" /\ pc' = "prompt" /\ state' = "return_a" /\ D!count = 2
  BY DEF WalkBack, Connect, D!AwaitRepeat, D!Enter
<1>2. Live
  BY <1>1, LiveBefore DEF Next, MediaTask
<1>3. UNCHANGED <<phase, questionIds, ids, speaking, spoken, outbox, received, toHost, playback, questions, captures>>
  BY DEF WalkBack, h_vars, socket_vars, stream_vars, D!AwaitRepeat, D!ask_vars
<1>4. Idle /\ phase = "compare_ready" /\ Len(ids) = 2
  BY <1>1, <1>2 DEF Together, Sync, SyncCapture, ReadyFor
<1>5. (Idle /\ phase = "compare_ready" /\ Len(ids) = 2)'
  BY <1>3, <1>4 DEF Idle, AllRead
<1> QED BY <1>1, <1>5 DEF Sync, SyncAsk, SyncCapture, SyncReply, SyncSpeak, Unasked, BeforeB,
   BeforeR

(* The guidance is shown: the Mac is ready to read it aloud.               *)
LEMMA SyncGuidance ==
  ASSUME Together, Guidance, Live'
  PROVE  Sync'
<1>1. ~Connect /\ pc = "guidance" /\ pc' \in {"speak", "spoken"}
  BY DEF Guidance, Connect
<1>2. Live
  BY <1>1, LiveBefore DEF Next, MediaTask
<1>3. UNCHANGED <<phase, questionIds, ids, speaking, spoken, outbox, received, toHost, playback>> /\ UNCHANGED d_vars
  <2>1. ~cancelled
    BY <1>2 DEF Live
  <2> QED BY <2>1 DEF Guidance, h_vars, socket_vars, stream_vars
<1>4. /\ Idle /\ phase = Answered /\ speaking = None /\ speechKey \notin spoken
  BY <1>1, <1>2 DEF Together, Sync, SyncSpeak
<1>5. \/ state = "adjust" /\ Answered = "adjust"
      \/ state = "complete"
  BY <1>1, <1>2, SpokenOf
<1>6. (Idle /\ phase = Answered /\ speaking = None /\ speechKey \notin spoken)'
  BY <1>3, <1>4 DEF Idle, AllRead, Answered, speechKey, D!count, d_vars
<1>7. SyncCapture'
  BY <1>1, <1>3, <1>4, <1>5 DEF SyncCapture, BeforeB, BeforeR, SpeakFirst, Idle, AllRead, d_vars
<1>8. SyncAsk' /\ SyncReply' /\ SyncSpeak'
  BY <1>1, <1>3, <1>5, <1>6 DEF SyncAsk, SyncReply, SyncSpeak, Unasked, d_vars
<1> QED BY <1>7, <1>8 DEF Sync

(* B is confirmed when the reading is over, or was given up on.            *)
LEMMA SyncConfirmed ==
  ASSUME Together, Spoken \/ ConfirmB, Live'
  PROVE  Sync'
<1>1. ~Connect /\ pc \in {"spoken", "confirm_b"}
  BY DEF Spoken, ConfirmB, Connect
<1>2. Live
  BY <1>1, LiveBefore DEF Next, MediaTask
<1>3. state = "adjust"
  <2>1. ~D!terminal
    BY DEF Spoken, ConfirmB, Active
  <2> QED BY <1>1, <2>1 DEF Together, PlanInv
<1>4. UNCHANGED <<phase, questionIds, ids, speaking, spoken, outbox, received, toHost, playback, captures>>
  BY DEF Spoken, ConfirmB, h_vars, d_vars, socket_vars, stream_vars, D!Adjust, D!ask_vars
<1>5. \/ state' = "ready_b" /\ pc' = "prompt"
      \/ state' = "adjust" /\ pc' = "confirm_b"
  <2>1. CASE Spoken
    BY <1>3, <2>1 DEF Spoken, D!Adjust, d_vars
  <2>2. CASE ConfirmB
    BY <2>2 DEF ConfirmB, D!Adjust
  <2> QED BY <2>1, <2>2
<1>6. BeforeB /\ SyncCapture
  BY <1>1, <1>2, <1>3 DEF BeforeB, Together, Sync
<1>7. SyncCapture'
  BY <1>4, <1>5, <1>6 DEF SyncCapture, BeforeB, BeforeR, SpeakFirst, failed, AllRead, LastSent
<1> QED BY <1>5, <1>7 DEF Sync, SyncAsk, SyncReply, SyncSpeak, Unasked

(* A reading is over: played to the end, or given up on.                   *)
LEMMA SyncSpeechOver ==
  ASSUME Together, SpeechOver, Live'
  PROVE  Sync'
<1>1. ~Connect /\ pc = "speech" /\ pc' = "spoken"
  BY DEF SpeechOver, Connect
<1>2. Live
  BY <1>1, LiveBefore DEF Next, MediaTask
<1>3. UNCHANGED <<phase, questionIds, ids, speaking, spoken, outbox, received, toHost, captures, state>>
  BY DEF SpeechOver, h_vars, d_vars, socket_vars
<1>4. \/ state = "adjust" /\ speechKey = "r1" /\ Answered = "adjust"
      \/ state = "complete"
  BY <1>1, <1>2, SpokenOf
<1>5. CASE state = "complete"
  BY <1>1, <1>3, <1>5 DEF Sync, SyncAsk, SyncCapture, SyncReply, SyncSpeak, Unasked, BeforeB,
     BeforeR
<1>6. CASE state = "adjust" /\ speechKey = "r1" /\ Answered = "adjust"
  <2>1. SyncSpeak /\ SpeakSync
    BY <1>1, <1>2, <1>6 DEF Together, Sync, SyncSpeak
  <2>2. toHost = <<>> => phase = "adjust"
    BY <1>1, <1>6, <2>1 DEF SyncSpeak
  <2>3. toHost # <<>> => LastSent.type \in {"speak", "speech_stop"} /\ LastSent.key = "r1"
    <3> SUFFICES ASSUME toHost # <<>> PROVE LastSent.type \in {"speak", "speech_stop"} /\ LastSent.key = "r1"
      OBVIOUS
    <3>1. Len(toHost) \in 1..Len(toHost)
      BY <1>2, Shape DEF Together, GuidedInv, EvidenceInv
    <3> QED BY <1>1, <1>6, <2>1, <3>1 DEF SyncSpeak, LastSent
  <2>4. failed' \/ (AllRead /\ speaking = None /\ ~SpeakFirst)
    BY <2>1 DEF SpeechOver, SpeakSync, failed
  <2>5. SyncCapture'
    BY <1>1, <1>3, <1>6, <2>2, <2>3, <2>4 DEF SyncCapture, BeforeB, BeforeR, SpeakFirst,
       AllRead, LastSent
  <2> QED BY <1>1, <1>3, <1>6, <2>5 DEF Sync, SyncAsk, SyncReply, SyncSpeak, Unasked
<1> QED BY <1>4, <1>5, <1>6

(* What comes after the result says nothing to the Mac.                    *)
LEMMA SyncOver ==
  ASSUME Together, End \/ Final \/ LastSpeech \/ EndSpeech, Live'
  PROVE  Sync'
<1>1. ~Connect /\ pc \in {"end", "final", "last", "spoken"}
  BY DEF End, Final, LastSpeech, EndSpeech, Connect
<1>2. Live
  BY <1>1, LiveBefore DEF Next, MediaTask
<1>3. state = "complete"
  <2>1. CASE End \/ Final
    <3>1. D!terminal
      BY <2>1 DEF End, Final, Together, GuidedInv, StageInv, Over
    <3> QED BY <1>2, <3>1, GoesLive
  <2>2. CASE LastSpeech \/ EndSpeech
    BY <2>2 DEF LastSpeech, EndSpeech, Together, GuidedInv, StageInv
  <2> QED BY <2>1, <2>2
<1>4. UNCHANGED <<phase, questionIds, ids, speaking, spoken, outbox, received, toHost, playback, captures, state>>
  <2>1. CASE End
    BY <1>3, <2>1 DEF End, Fail, D!terminal, D!TerminalStates, h_vars, d_vars
  <2>2. CASE Final \/ LastSpeech \/ EndSpeech
    BY <1>3, <2>2 DEF Final, LastSpeech, EndSpeech, h_vars, d_vars, socket_vars, stream_vars
  <2> QED BY <2>1, <2>2
<1>5. \/ pc' \in {"final", "last", "speak"} /\ pc \in {"end", "final", "last"}
      \/ pc' \in {"spoken", "finish"}
  BY <1>3 DEF End, Final, LastSpeech, EndSpeech
<1>6. SyncSpeak
  BY <1>2 DEF Together, Sync
<1>7. SyncSpeak'
  BY <1>3, <1>4, <1>5, <1>6 DEF SyncSpeak, Idle, AllRead, Answered, speechKey, D!count
<1> QED BY <1>3, <1>4, <1>5, <1>7 DEF Sync, SyncAsk, SyncCapture, SyncReply, Unasked, BeforeB,
   BeforeR

(* A message sent over a good connection is the last one, behind those     *)
(* that wait.                                                              *)
LEMMA SentLive ==
  ASSUME Together, Live, Live', NEW m, NEW next, Sent(m, next)
  PROVE  /\ pc' = next /\ toHost' # <<>> /\ LastSent' = m
         /\ toHost # <<>> => toHost'[1] = toHost[1]
         /\ toHost = <<>> => toHost'[1] = m /\ Len(toHost') = 1
         /\ \A i \in 1..Len(toHost') : \/ i \in 1..Len(toHost) /\ toHost'[i] = toHost[i]
                                       \/ toHost'[i] = m
<1>1. toHost' = Append(toHost, m) /\ pc' = next
  BY DEF Sent, Live
<1>2. toHost \in Seq({toHost[i] : i \in DOMAIN toHost})
  BY DEF Together, GuidedInv, EvidenceInv, Channel
<1>3. /\ toHost' \in Seq({toHost'[i] : i \in DOMAIN toHost'})
      /\ Len(toHost) \in Nat /\ Len(toHost') = Len(toHost) + 1
      /\ toHost'[Len(toHost')] = m
      /\ \A i \in 1..Len(toHost) : toHost'[i] = toHost[i]
  BY <1>1, <1>2, Appended
<1>4. toHost' # <<>> /\ (toHost = <<>> <=> Len(toHost) = 0)
  BY <1>2, <1>3
<1>5. toHost # <<>> => toHost'[1] = toHost[1]
  BY <1>3, <1>4
<1>6. toHost = <<>> => toHost'[1] = m /\ Len(toHost') = 1
  BY <1>3, <1>4
<1>7. ASSUME NEW i \in 1..Len(toHost') PROVE (i \in 1..Len(toHost) /\ toHost'[i] = toHost[i]) \/ toHost'[i] = m
  BY <1>3
<1> QED BY <1>1, <1>3, <1>4, <1>5, <1>6, <1>7 DEF LastSent

(* Use or Retry is on its way to the Mac.                                  *)
LEMMA SyncTellConfirm ==
  ASSUME Together, TellConfirm, Live'
  PROVE  Sync'
<1> DEFINE m == [type |-> "question_confirm", key |-> questionId, accepted |-> pc = "use"]
<1>1. ~Connect /\ pc \in {"use", "discard"}
  BY DEF TellConfirm, Connect
<1>2. Live
  BY <1>1, LiveBefore DEF Next, MediaTask
<1>3. PICK next : /\ Sent(m, next) /\ next \in {"ask", "prompt"} /\ UNCHANGED d_vars
  BY SendsOrCuts DEF TellConfirm, Lost, Live
<1>4. Idle /\ phase = "await_confirm" /\ Len(questionIds) = questions
  BY <1>1, <1>2 DEF Together, Sync, SyncAsk
<1>5. questions > 0 /\ questionId = questionNames[questions]
  BY <1>2, <1>4, SameNames DEF Together, MacInv
<1>6. state = "ready_a"
  BY <1>1, <1>2, GoesLive DEF Together, PlanInv, Over, Voiced
<1>7. /\ toHost' # <<>> /\ LastSent' = m /\ pc' = next
  BY <1>2, <1>3, SentLive
<1>8. AllRead'
  BY <1>4 DEF Idle, AllRead, TellConfirm, h_vars
<1>9. AwaitA(questions)'
  BY <1>3, <1>5, <1>7, <1>8 DEF AwaitA, Only, d_vars
<1>10. state' = "ready_a"
  BY <1>3, <1>6 DEF d_vars
<1> QED BY <1>3, <1>7, <1>9, <1>10 DEF Sync, SyncAsk, SyncCapture, SyncReply, SyncSpeak,
   Unasked, BeforeB, BeforeR

(* A question is on its way.                                               *)
LEMMA SyncQuestion ==
  ASSUME Together, UploadQuestion, Live'
  PROVE  Sync'
<1>1. ~Connect /\ pc \in {"question", "question_end"}
  BY DEF UploadQuestion, Connect
<1>2. Live
  BY <1>1, LiveBefore DEF Next, MediaTask
<1>3. state = "transcribing"
  BY <1>1, <1>2, GoesLive DEF Together, PlanInv, Over, Voiced
<1>4. SyncAsk /\ UNCHANGED <<outbox, received>>
  BY <1>2 DEF Together, Sync, UploadQuestion, h_vars
<1>5. ~Lost
  BY SendsOrCuts DEF Lost, Live
<1>6. CASE pc = "question" /\ Sent([type |-> "question_start", key |-> questionId], "question_end") /\ UNCHANGED d_vars
  <2>1. /\ toHost' # <<>> /\ LastSent' = [type |-> "question_start", key |-> questionId] /\ pc' = "question_end"
    BY <1>2, <1>6, SentLive
  <2>2. AllRead'
    BY <1>4, <1>6 DEF SyncAsk, AwaitA, Idle, Only, AllRead
  <2> QED BY <1>3, <1>6, <2>1, <2>2
      DEF Sync, SyncAsk, SyncCapture, SyncReply, SyncSpeak, Unasked, BeforeB, BeforeR, Only, d_vars
<1>7. CASE /\ pc = "question_end" /\ Sent([type |-> "question_end", key |-> questionId, valid |-> TRUE], "transcript")
           /\ UNCHANGED d_vars
  <2>1. /\ toHost' # <<>> /\ LastSent' = [type |-> "question_end", key |-> questionId, valid |-> TRUE]
        /\ pc' = "transcript"
    BY <1>2, <1>7, SentLive
  <2>2. AllRead'
    BY <1>4, <1>7 DEF SyncAsk, AwaitA, Idle, Only, AllRead
  <2> QED BY <1>3, <1>7, <2>1, <2>2
      DEF Sync, SyncAsk, SyncCapture, SyncReply, SyncSpeak, Unasked, BeforeB, BeforeR, Only, d_vars
<1> QED BY <1>1, <1>5, <1>6, <1>7 DEF UploadQuestion

(* A capture is on its way.                                                *)
LEMMA SyncUpload ==
  ASSUME Together, Upload, Live'
  PROVE  Sync'
<1>1. ~Connect /\ pc \in {"upload", "capture_end"}
  BY DEF Upload, Connect
<1>2. Live
  BY <1>1, LiveBefore DEF Next, MediaTask
<1>3. state = "uploading"
  BY <1>1, <1>2, GoesLive DEF Together, PlanInv, Over, Voiced
<1>4. SyncAsk /\ SyncCapture /\ UNCHANGED <<outbox, received, playback>>
  BY <1>2 DEF Together, Sync, Upload, h_vars, stream_vars
<1>5. ~Lost
  BY SendsOrCuts DEF Lost, Live
<1>6. D!count \in 1..3 /\ captureId = captureNames[D!count]
  BY <1>2, <1>3, SameNames DEF Together, CountInv, captureId
<1>7. CASE pc = "upload" /\ Sent([type |-> "capture_start", key |-> captureId], "started") /\ UNCHANGED d_vars
  <2>1. /\ toHost' # <<>> /\ LastSent' = [type |-> "capture_start", key |-> captureId] /\ pc' = "started"
    BY <1>2, <1>7, SentLive
  <2>2. AllRead' \/ failed'
    <3>1. D!count = 1 \/ D!count = 2 \/ D!count = 3
      BY <1>6
    <3> QED BY <1>4, <1>7, <3>1 DEF SyncAsk, SyncCapture, Unasked, BeforeB, BeforeR, AwaitA,
       Idle, Only, AllRead, failed
  <2> QED BY <1>3, <1>6, <1>7, <2>1, <2>2 DEF Sync, SyncAsk, SyncCapture, SyncReply, SyncSpeak,
     Unasked, BeforeB, BeforeR, Only, d_vars, D!count
<1>8. CASE /\ pc = "capture_end" /\ Sent([type |-> "capture_end", key |-> captureId, valid |-> TRUE], "stored")
           /\ UNCHANGED d_vars
  <2>1. /\ toHost' # <<>> /\ LastSent' = [type |-> "capture_end", key |-> captureId, valid |-> TRUE]
        /\ pc' = "stored"
    BY <1>2, <1>8, SentLive
  <2>2. AllRead'
    BY <1>4, <1>8 DEF SyncCapture, Idle, AllRead
  <2> QED BY <1>3, <1>6, <1>8, <2>1, <2>2 DEF Sync, SyncAsk, SyncCapture, SyncReply, SyncSpeak,
     Unasked, BeforeB, BeforeR, Only, d_vars, D!count
<1> QED BY <1>1, <1>5, <1>7, <1>8 DEF Upload

(* The turn is on its way.                                                 *)
LEMMA SyncTurn ==
  ASSUME Together, Turn, Live'
  PROVE  Sync'
<1>1. ~Connect /\ pc = "uploaded"
  BY DEF Turn, Connect
<1>2. Live
  BY <1>1, LiveBefore DEF Next, MediaTask
<1>3. Idle /\ Len(ids) = D!count
  BY <1>1, <1>2 DEF Together, Sync, SyncCapture
<1>4. PICK m : Sent(m, "reply") /\ m.type = "turn" /\ D!Turn
  <2>1. ~Lost
    BY SendsOrCuts DEF Lost, Live
  <2> QED BY <2>1 DEF Turn
<1>5. state' = "waiting" /\ UNCHANGED captures
  <2>1. ~D!Tick
    BY DEF D!Tick, D!Enter, Live, Dead
  <2> QED BY <1>4, <2>1 DEF D!Turn, D!Enter
<1>6. toHost' # <<>> /\ LastSent' = m /\ pc' = "reply"
  BY <1>2, <1>4, SentLive
<1>7. AllRead' /\ UNCHANGED ids
  BY <1>3 DEF Idle, AllRead, Turn, h_vars
<1>8. Only("turn")' /\ Len(ids') = D!count'
  BY <1>3, <1>4, <1>5, <1>6, <1>7 DEF Only, D!count
<1> QED BY <1>5, <1>6, <1>8 DEF Sync, SyncAsk, SyncCapture, SyncReply, SyncSpeak, Unasked,
   BeforeB, BeforeR

(* The ack is on its way.                                                  *)
LEMMA SyncAck ==
  ASSUME Together, Ack, Live'
  PROVE  Sync'
<1>1. ~Connect /\ pc = "ack"
  BY DEF Ack, Connect
<1>2. Live
  BY <1>1, LiveBefore DEF Next, MediaTask
<1>3. Idle /\ Len(ids) = D!count
  BY <1>1, <1>2 DEF Together, Sync, SyncReply
<1>4. PICK m : Sent(m, "acked") /\ m.type = "ack" /\ D!Ack
  <2>1. ~Lost
    BY SendsOrCuts DEF Lost, Live
  <2> QED BY <2>1 DEF Ack
<1>5. state' = "acknowledging" /\ UNCHANGED captures
  BY <1>4 DEF D!Ack
<1>6. toHost' # <<>> /\ LastSent' = m /\ pc' = "acked"
  BY <1>2, <1>4, SentLive
<1>7. AllRead' /\ UNCHANGED ids
  BY <1>3 DEF Idle, AllRead, Ack, h_vars
<1>8. Only("ack")' /\ Len(ids') = D!count'
  BY <1>3, <1>4, <1>5, <1>6, <1>7 DEF Only, D!count
<1> QED BY <1>5, <1>6, <1>8 DEF Sync, SyncAsk, SyncCapture, SyncReply, SyncSpeak, Unasked,
   BeforeB, BeforeR

(* A reading is asked for.                                                 *)
LEMMA SyncSpeakSent ==
  ASSUME Together, Speak, Live'
  PROVE  Sync'
<1> DEFINE m == [type |-> "speak", key |-> speechKey]
<1>1. ~Connect /\ pc = "speak"
  BY DEF Speak, Connect
<1>2. Live
  BY <1>1, LiveBefore DEF Next, MediaTask
<1>3. Idle
  BY <1>1, <1>2 DEF Together, Sync, SyncSpeak
<1>4. Sent(m, "speech") /\ playback' = "begun" /\ UNCHANGED d_vars
  <2>1. ~CutShort("spoken")
    BY SendsOrCuts DEF Live
  <2> QED BY <2>1 DEF Speak
<1>5. /\ pc' = "speech" /\ toHost' # <<>> /\ toHost'[1] = m
      /\ \A i \in 1..Len(toHost') : toHost'[i] = m
  <2>1. /\ pc' = "speech" /\ toHost' # <<>>
        /\ toHost = <<>> => toHost'[1] = m /\ Len(toHost') = 1
        /\ \A i \in 1..Len(toHost') : \/ i \in 1..Len(toHost) /\ toHost'[i] = toHost[i]
                                      \/ toHost'[i] = m
    BY <1>2, <1>4, SentLive
  <2>2. 1..Len(toHost) = {}
    BY <1>3 DEF Idle
  <2> QED BY <1>3, <2>1, <2>2 DEF Idle
<1>6. SpeakFirst' /\ AllRead'
  BY <1>3, <1>5 DEF Idle, AllRead, Speak, h_vars, SpeakFirst
<1>7. speechKey' = speechKey /\ state' = state
  BY <1>4 DEF speechKey, d_vars
<1>8. SyncSpeak'
  BY <1>4, <1>5, <1>6, <1>7 DEF SyncSpeak, SpeakSync
<1>9. state \in {"adjust", "complete"}
  BY <1>1, <1>2, SpokenOf
<1> QED BY <1>5, <1>7, <1>8, <1>9 DEF Sync, SyncAsk, SyncCapture, SyncReply, Unasked, BeforeB,
   BeforeR

(* A reading is stopped early, and read on to its end.                     *)
LEMMA SyncStopSpeech ==
  ASSUME Together, StopSpeech, Live'
  PROVE  Sync'
<1> DEFINE m == [type |-> "speech_stop", key |-> speechKey]
<1>1. ~Connect /\ pc = "speech" /\ stopped'
  BY DEF StopSpeech, Connect
<1>2. Live
  BY <1>1, LiveBefore DEF Next, MediaTask
<1>3. UNCHANGED <<phase, questionIds, ids, speaking, spoken, outbox, received, playback>>
  BY DEF StopSpeech, h_vars
<1>4. UNCHANGED d_vars /\ (UNCHANGED <<socket_vars, pc>> \/ Sent(m, "speech"))
  <2>1. ~cancelled /\ ~CutShort("spoken")
    BY <1>2, SendsOrCuts DEF Live
  <2> QED BY <2>1 DEF StopSpeech, TellStop
<1>5. SyncSpeak
  BY <1>2 DEF Together, Sync
<1>6. state' = state /\ captures' = captures /\ speechKey' = speechKey
  BY <1>4 DEF d_vars, speechKey
<1>7. /\ pc' = "speech" /\ (toHost' = <<>> => toHost = <<>>)
      /\ \A i \in 1..Len(toHost') : \/ i \in 1..Len(toHost) /\ toHost'[i] = toHost[i]
                                    \/ toHost'[i] = m
      /\ SpeakFirst' <=> SpeakFirst
  <2>1. CASE UNCHANGED <<socket_vars, pc>>
    BY <1>1, <2>1 DEF socket_vars, SpeakFirst
  <2>2. CASE Sent(m, "speech")
    BY <1>2, <2>2, SentLive DEF SpeakFirst
  <2> QED BY <1>4, <2>1, <2>2
<1>8. SyncSpeak'
  <2>1. toHost' = <<>> => phase' = Answered' /\ speechKey' \in spoken'
    BY <1>1, <1>3, <1>5, <1>6, <1>7 DEF SyncSpeak, Answered, D!count
  <2>2. \A i \in 1..Len(toHost') :
           /\ toHost'[i].type \in {"speak", "speech_stop"} /\ toHost'[i].key = speechKey'
           /\ toHost'[i].type = "speech_stop" => stopped'
    BY <1>1, <1>5, <1>6, <1>7 DEF SyncSpeak
  <2>3. state = "adjust" => SpeakSync'
    BY <1>1, <1>3, <1>5, <1>7 DEF SyncSpeak, SpeakSync, AllRead
  <2> QED BY <1>6, <1>7, <2>1, <2>2, <2>3 DEF SyncSpeak
<1>9. state \in {"adjust", "complete"}
  BY <1>1, <1>2, SpokenOf
<1> QED BY <1>6, <1>7, <1>8, <1>9 DEF Sync, SyncAsk, SyncCapture, SyncReply, Unasked, BeforeB,
   BeforeR

(* The device takes the answer it waits for.                               *)
LEMMA SyncReplied ==
  ASSUME Together, Live, Live', Read, Expected(Message), OnReply(Message)
  PROVE  Sync'
<1>1. /\ received' = received + 1 /\ received \in Nat /\ ~AllRead
      /\ UNCHANGED <<phase, questionIds, ids, speaking, spoken, outbox, toHost, playback, stopped>>
  BY Replying DEF Read, h_vars, Together, SaidInv, AllRead
<1>2. SyncAsk /\ SyncReply
  BY DEF Together, Sync
<1>3. AllRead' <=> OneUnread
  BY <1>1 DEF AllRead, OneUnread
<1>4. CASE /\ pc = "hello" /\ state = "connecting" /\ state' = "ready_a" /\ pc' = "prompt"
           /\ UNCHANGED <<questions, questionId, captures>>
  <2>1. Told /\ phase = "await_a" /\ Len(questionIds) = 0
    BY <1>1, <1>2, <1>4 DEF SyncAsk, Only
  <2>2. questions = 0
    BY <1>4 DEF Together, CountInv
  <2>3. AwaitA(questions)'
    BY <1>1, <1>3, <1>4, <2>1, <2>2 DEF AwaitA, Idle, Told
  <2> QED BY <1>4, <2>3 DEF Sync, SyncAsk, SyncCapture, SyncReply, SyncSpeak, Unasked, BeforeB,
     BeforeR
<1>5. CASE /\ pc = "transcript" /\ pc' = "prompt"
           /\ state' = (IF Message.status = "heard" THEN "confirming" ELSE "ready_a")
           /\ UNCHANGED <<speech, voice, questions, questionId, captures>>
  <2>1. Told /\ Len(questionIds) = questions /\ phase = IF Message.status = "heard" THEN "await_confirm" ELSE "await_a"
    BY <1>1, <1>2, <1>5 DEF SyncAsk, Only, Idle
  <2>2. Idle'
    BY <1>1, <1>3, <2>1 DEF Idle, Told
  <2>3. state' = "ready_a" => AwaitA(questions)'
    BY <1>1, <1>5, <2>1, <2>2 DEF AwaitA
  <2>4. state' = "confirming" => phase' = "await_confirm" /\ Len(questionIds') = questions'
    BY <1>1, <1>5, <2>1
  <2> QED BY <1>5, <2>2, <2>3, <2>4 DEF Sync, SyncAsk, SyncCapture, SyncReply, SyncSpeak,
     Unasked, BeforeB, BeforeR
<1>6. CASE /\ pc = "reply" /\ Message.type \in TurnReplies /\ state' = "acknowledging" /\ pc' = "ack"
           /\ UNCHANGED <<speech, voice, questions, questionId, captures>>
  <2>1. Told /\ phase = "await_ack" /\ Len(ids) = D!count
    BY <1>1, <1>2, <1>6 DEF SyncReply, Only, Idle, TurnReplies
  <2>2. Idle' /\ phase' = "await_ack" /\ Len(ids') = D!count'
    BY <1>1, <1>3, <1>6, <2>1 DEF Idle, Told, D!count
  <2> QED BY <1>6, <2>2 DEF Sync, SyncAsk, SyncCapture, SyncReply, SyncSpeak, Unasked, BeforeB,
     BeforeR
<1>7. CASE /\ pc = "acked"
           /\ state' = (IF D!count = 1 THEN "adjust" ELSE "complete")
           /\ pc' = (IF D!count = 1 THEN "guidance" ELSE "end")
           /\ UNCHANGED <<speech, voice, questions, questionId, captures>>
  <2>1. Told /\ phase = Answered /\ speaking = None /\ D!request \notin spoken
    BY <1>1, <1>2, <1>7 DEF SyncReply, Only
  <2>2. speechKey' = D!request
    BY <1>7 DEF speechKey, D!request
  <2>3. Idle' /\ phase' = Answered' /\ speaking' = None /\ speechKey' \notin spoken'
    BY <1>1, <1>3, <1>7, <2>1, <2>2 DEF Idle, Told, D!count, Answered
  <2> QED BY <1>7, <2>3 DEF Sync, SyncAsk, SyncCapture, SyncReply, SyncSpeak, Unasked, BeforeB,
     BeforeR
<1> QED BY <1>4, <1>5, <1>6, <1>7, Replying

(* An acknowledged capture: the device goes on to the next message.        *)
LEMMA SyncAcked ==
  ASSUME Together, Live, Live', Read, Expected(Message), OnCaptureAck(Message)
  PROVE  Sync'
<1>1. /\ received' = received + 1 /\ received \in Nat /\ ~AllRead
      /\ UNCHANGED <<phase, questionIds, ids, speaking, spoken, outbox, toHost, captures, state>>
  BY DEF Read, OnCaptureAck, h_vars, d_vars, socket_vars, Together, SaidInv, AllRead
<1>2. SyncCapture
  BY DEF Together, Sync
<1>3. AllRead' <=> OneUnread
  BY <1>1 DEF AllRead, OneUnread
<1>4. state = "uploading"
  BY GoesLive DEF OnCaptureAck, Together, PlanInv, Over, Voiced
<1>5. CASE pc = "started" /\ pc' = "capture_end"
  <2>1. ~failed
    <3>1. Message.type = "capture_ack"
      BY <1>5 DEF Expected
    <3> QED BY <1>1, <1>5, <3>1 DEF Together, FailedInv, Over, Behind, SpeechTypes
  <2>2. Told /\ phase = Recordings[D!count] /\ Len(ids) = D!count - 1
    BY <1>1, <1>2, <1>5, <2>1 DEF SyncCapture, Only
  <2>3. (Idle /\ phase = Recordings[D!count] /\ Len(ids) = D!count - 1)'
    BY <1>1, <1>3, <2>2 DEF Idle, Told, D!count
  <2> QED BY <1>1, <1>4, <1>5, <2>3 DEF Sync, SyncAsk, SyncCapture, SyncReply, SyncSpeak,
     Unasked, BeforeB, BeforeR
<1>6. CASE pc = "stored" /\ pc' = "uploaded"
  <2>1. Told /\ phase = ReadyFor /\ Len(ids) = D!count
    BY <1>1, <1>2, <1>6 DEF SyncCapture, Only
  <2>2. (Idle /\ phase = ReadyFor /\ Len(ids) = D!count)'
    BY <1>1, <1>3, <2>1 DEF Idle, Told, D!count, ReadyFor
  <2> QED BY <1>1, <1>4, <1>6, <2>2 DEF Sync, SyncAsk, SyncCapture, SyncReply, SyncSpeak,
     Unasked, BeforeB, BeforeR
<1> QED BY <1>5, <1>6 DEF OnCaptureAck

(* A part of the stream is read.                                           *)
LEMMA SyncStreamed ==
  ASSUME Together, Live, Live', Read, Expected(Message), OnSpeech(Message)
  PROVE  Sync'
<1>1. /\ received' = received + 1 /\ received \in 0..Len(outbox) /\ Len(outbox) \in Nat /\ received + 1 \in 1..Len(outbox)
      /\ UNCHANGED <<phase, questionIds, ids, speaking, spoken, outbox, toHost, captures, state, stopped>>
  <2>1. outbox \in Seq({outbox[i] : i \in DOMAIN outbox}) /\ received \in 0..Len(outbox) /\ received < Len(outbox)
    BY DEF Read, Together, SaidInv
  <2>2. Len(outbox) \in Nat
    BY <2>1
  <2> QED BY <2>1, <2>2 DEF Read, OnSpeech, h_vars, d_vars, socket_vars
<1>2. SyncSpeak
  BY DEF Together, Sync
<1>3. pc = "speech" /\ pc' = "speech" /\ playback # "ended"
  BY DEF OnSpeech, Expected
<1>4. playback' = IF outbox[received + 1].type = "speech_end" THEN "ended" ELSE "started"
  BY DEF OnSpeech, Message
<1>5. ASSUME state = "adjust" PROVE SpeakSync'
  <2>1. SpeakSync /\ ~AllRead /\ (SpeakFirst' <=> SpeakFirst)
    BY <1>1, <1>2, <1>3, <1>5 DEF SyncSpeak, AllRead, SpeakFirst
  <2>2. CASE /\ ~SpeakFirst /\ speaking # None
             /\ \A i \in received + 1..Len(outbox) : outbox[i].type # "speech_end"
    <3>1. received + 1 \in received + 1..Len(outbox) /\ \A i \in received' + 1..Len(outbox) : i \in received + 1..Len(outbox)
      BY <1>1
    <3> QED BY <1>1, <1>4, <2>1, <2>2, <3>1 DEF SpeakSync
  <2>3. CASE /\ ~SpeakFirst /\ speaking = None
             /\ \A i \in received + 1..Len(outbox) : outbox[i].type = "speech_end" <=> i = Len(outbox)
    <3>1. received + 1 \in received + 1..Len(outbox) /\ \A i \in received' + 1..Len(outbox) : i \in received + 1..Len(outbox)
      BY <1>1
    <3>2. CASE received + 1 = Len(outbox)
      BY <1>1, <1>4, <2>1, <2>3, <3>1, <3>2 DEF SpeakSync, AllRead
    <3>3. CASE received + 1 # Len(outbox)
      BY <1>1, <1>4, <2>1, <2>3, <3>1, <3>3 DEF SpeakSync, AllRead
    <3> QED BY <3>2, <3>3
  <2> QED BY <2>1, <2>2, <2>3 DEF SpeakSync
<1>6. SyncSpeak'
  BY <1>1, <1>2, <1>3, <1>5 DEF SyncSpeak, Answered, speechKey, D!count
<1>7. state \in {"adjust", "complete"}
  BY <1>3, SpokenOf
<1> QED BY <1>1, <1>3, <1>6, <1>7 DEF Sync, SyncAsk, SyncCapture, SyncReply, Unasked, BeforeB,
   BeforeR

(* Whatever the device reads.                                              *)
LEMMA SyncRead ==
  ASSUME Together, Read, Live'
  PROVE  Sync'
<1>1. ~Connect /\ pc \in Polling
  BY DEF Read, Connect, Polling
<1>2. Live
  BY <1>1, LiveBefore DEF Next, MediaTask
<1>3. CASE Unexpected
  <2>1. state = "complete" /\ UNCHANGED d_vars
    BY <1>2, <1>3, EndedIsDead DEF Unexpected, Live
  <2>2. pc = "speech"
    BY <2>1 DEF Read, Active, D!terminal, D!TerminalStates
  <2>3. pc' = "spoken" /\ state' = "complete"
    BY <1>3, <2>1, <2>2 DEF Unexpected, d_vars
  <2> QED BY <2>3 DEF Sync, SyncAsk, SyncCapture, SyncReply, SyncSpeak, Unasked, BeforeB, BeforeR
<1> QED BY <1>2, <1>3, SyncReplied, SyncAcked, SyncStreamed DEF Read

-----------------------------------------------------------------------------
(* The sync through the steps of the Mac.  One more message waits behind   *)
(* the one it takes: what is sent last stays so.                           *)
LEMMA SyncTaken ==
  ASSUME Together, HostReads, Live', toHost' # <<>>
  PROVE  Sync'
<1>1. /\ toHost # <<>> /\ LastSent' = LastSent /\ UNCHANGED outbox /\ ~SpeakFirst' /\ Live
      /\ toHost[1].type \in {"question_start", "question_confirm", "speak", "speech_stop"}
      /\ UNCHANGED device_vars /\ Took(toHost[1])
      /\ \A i \in 1..Len(toHost') : i + 1 \in 1..Len(toHost) /\ toHost'[i] = toHost[i + 1]
  BY HeadTaken DEF Together, GuidedInv, EvidenceInv
<1>2. UNCHANGED <<pc, state, questions, questionId, captures, playback, stopped, received, outbox, ids>>
  BY <1>1 DEF device_vars, d_vars, stream_vars, Took
<1>3. toHost[1].type # "speak" => UNCHANGED speaking
  BY <1>1 DEF Took
<1>4. SyncAsk /\ SyncCapture /\ SyncReply /\ SyncSpeak
  BY <1>1 DEF Together, Sync
<1> USE DEF Idle, Only, Told, AllRead, OneUnread, Message, D!count, D!request
<1>5. SyncAsk'
  BY <1>1, <1>2, <1>4 DEF SyncAsk, AwaitA, Unasked
<1>6. SyncCapture'
  BY <1>1, <1>2, <1>3, <1>4 DEF SyncCapture, BeforeB, BeforeR, SpeakFirst, failed, ReadyFor
<1>7. SyncReply'
  BY <1>1, <1>2, <1>4 DEF SyncReply, Answered
<1>8. (pc = "speech" /\ state = "adjust" => SpeakSync)'
  <2> SUFFICES ASSUME pc = "speech", state = "adjust" PROVE SpeakSync'
    BY <1>2
  <2>1. SpeakSync
    BY <1>4 DEF SyncSpeak
  <2>2. CASE SpeakFirst
    <3>1. speaking' = toHost[1].key /\ toHost[1].key = "r1" /\ AllRead
      <4>1. toHost[1].type = "speak" /\ 1 \in 1..Len(toHost)
        BY <1>1, <2>2, HeadTaken DEF SpeakFirst, Together, GuidedInv, EvidenceInv
      <4>2. toHost[1].key = speechKey
        BY <1>4, <4>1 DEF SyncSpeak
      <4> QED BY <1>1, <2>1, <2>2, <4>1, <4>2 DEF Took, SpeakSync, speechKey
    <3>2. \A i \in received + 1..Len(outbox) : FALSE
      BY <3>1 DEF Together, SaidInv
    <3> QED BY <1>1, <1>2, <2>1, <2>2, <3>1, <3>2, NameFacts DEF SpeakSync
  <2>3. CASE ~SpeakFirst
    BY <1>1, <1>2, <1>3, <2>1, <2>3 DEF SpeakSync, SpeakFirst
  <2> QED BY <2>2, <2>3
<1>9. SyncSpeak'
  BY <1>1, <1>2, <1>4, <1>8 DEF SyncSpeak, Answered, speechKey
<1> QED BY <1>5, <1>6, <1>7, <1>9 DEF Sync

(* The number of a name.                                                   *)
LEMMA Numbered ==
  /\ \A i, j \in 0..5 : i > 0 /\ j > 0 /\ questionNames[i] = questionNames[j] => i = j
  /\ \A i \in 0..2, j \in 1..3 : captureNames[i + 1] = captureNames[j] => j = i + 1
<1>1. ASSUME NEW i \in 0..5, NEW j \in 0..5, i > 0, j > 0, questionNames[i] = questionNames[j] PROVE i = j
  <2>1. i \in 1..5 /\ j \in 1..5
    BY <1>1
  <2> QED BY <1>1, <2>1, NameFacts
<1>2. ASSUME NEW i \in 0..2, NEW j \in 1..3, captureNames[i + 1] = captureNames[j] PROVE j = i + 1
  <2>1. i + 1 \in 1..3
    BY <1>2
  <2> QED BY <1>2, <2>1, NameFacts
<1> QED BY <1>1, <1>2

(* The message it takes is the last one sent.                              *)
LEMMA LastTaken ==
  ASSUME Together, HostReads, Live', toHost' = <<>>
  PROVE  /\ Live /\ toHost # <<>> /\ toHost[1] = LastSent /\ Took(LastSent)
         /\ UNCHANGED <<pc, state, questions, questionId, captures, playback, stopped, received>>
         /\ LastSent.type \notin {"ack", "hello", "capture_start", "capture_end"} =>
              UNCHANGED outbox /\ (AllRead => AllRead')
         /\ LastSent.type # "speak" => UNCHANGED speaking
         /\ AllRead /\ ~AllRead' => OneUnread'
         /\ handler = "reading" /\ Stages /\ Named /\ received \in Nat
<1>1. /\ toHost # <<>> /\ Live /\ UNCHANGED device_vars /\ Took(toHost[1]) /\ toHost[1] = LastSent
      /\ Fit(toHost[1])
  BY HeadTaken DEF Together, GuidedInv, EvidenceInv
<1>2. UNCHANGED <<pc, state, questions, questionId, captures, playback, stopped, received>>
  BY <1>1 DEF device_vars, d_vars, stream_vars
<1>3. LastSent.type # "torn"
  <2>1. Len(toHost) \in 1..3 /\ ~broken
    BY <1>1, HeadTaken DEF Together, GuidedInv, EvidenceInv, Live
  <2>2. Len(toHost) \in 1..Len(toHost)
    BY <2>1
  <2> QED BY <2>1, <2>2 DEF Together, QueueInv, LastSent
<1>4. /\ LastSent.type \notin {"ack", "hello", "capture_start", "capture_end"} =>
          UNCHANGED outbox
      /\ LastSent.type # "speak" => UNCHANGED speaking
  <2>1. LastSent.type # "cancel"
    <3>1. Len(toHost) \in 1..3 /\ ~cancelled
      BY <1>1, HeadTaken DEF Together, GuidedInv, EvidenceInv, Live
    <3>2. Len(toHost) \in 1..Len(toHost)
      BY <3>1
    <3> QED BY <3>1, <3>2 DEF Together, QueueInv, LastSent, Cancelling
  <2>2. \/ LastSent.type \in {"hello", "cancel", "question_start", "question_end", "question_confirm"}
        \/ LastSent.type \in {"capture_start", "capture_end", "turn", "ack", "speak", "speech_stop"}
    BY <1>1, <1>3 DEF Fit
  <2> QED BY <1>1, <2>1, <2>2 DEF Took
<1>5. AllRead /\ ~AllRead' => OneUnread'
  <2> SUFFICES ASSUME AllRead, ~AllRead' PROVE OneUnread'
    OBVIOUS
  <2>1. \E m : outbox' = Append(outbox, m)
    BY <1>2, MacSays DEF AllRead
  <2> QED BY <1>2, <2>1, Grows DEF Together
<1>6. handler = "reading" /\ Stages /\ Named /\ received \in Nat
  BY <1>1, SameNames DEF Together, SaidInv
<1> QED BY <1>1, <1>2, <1>4, <1>5, <1>6 DEF AllRead

(* The Mac has taken what was said of a question: it is where the device   *)
(* expects it.                                                             *)
LEMMA AskTaken ==
  ASSUME Together, HostReads, Live', toHost' = <<>>
  PROVE  SyncAsk'
<1>1. /\ Live /\ toHost # <<>> /\ Took(LastSent)
      /\ UNCHANGED <<pc, state, questions, questionId, captures, received>>
      /\ LastSent.type \notin {"ack", "hello", "capture_start", "capture_end"} =>
           UNCHANGED outbox /\ (AllRead => AllRead')
      /\ AllRead /\ ~AllRead' => OneUnread'
      /\ Stages /\ Named
  BY LastTaken
<1>2. SyncAsk
  BY <1>1 DEF Together, Sync
<1>3. /\ Len(questionIds) \in 0..5 /\ questions \in 0..5
      /\ questions > 0 => questionId = questionNames[questions]
      /\ \A i \in 1..Len(questionIds) : questionIds[i] = questionNames[i]
      /\ phase = "new" => Len(questionIds) = 0
      /\ phase \in {"question_upload", "transcribing", "await_confirm"} => Len(questionIds) > 0
  BY <1>1, SameNames DEF Together, MacInv
<1>30. phase \in {"question_upload", "transcribing", "await_confirm"} =>
         questionIds[Len(questionIds)] = questionNames[Len(questionIds)]
  <2> SUFFICES ASSUME Len(questionIds) > 0 PROVE questionIds[Len(questionIds)] = questionNames[Len(questionIds)]
    BY <1>3
  <2>1. Len(questionIds) \in 1..Len(questionIds)
    BY <1>3
  <2> QED BY <1>3, <2>1
<1>4. ~Idle /\ ~Told
  BY <1>1 DEF Idle, Told
<1>5. (pc = "hello" => Only("hello") \/ (Told /\ phase = "await_a" /\ Len(questionIds) = 0))'
  <2> SUFFICES ASSUME pc = "hello" PROVE (Told /\ phase = "await_a" /\ Len(questionIds) = 0)'
    BY <1>1
  <2>1. AllRead /\ LastSent.type = "hello"
    BY <1>2, <1>4 DEF SyncAsk, Only
  <2>2. phase' = "await_a" /\ outbox' = Append(outbox, H!Ready) /\ UNCHANGED questionIds /\ phase = "new"
    BY <1>1, <2>1 DEF Took
  <2>3. OneUnread'
    BY <1>1, <2>1, <2>2, Grows DEF Together
  <2> QED BY <1>3, <2>2, <2>3 DEF Told
<1>6. ASSUME NEW n \in 0..5, AwaitA(n)
      PROVE  /\ Idle' /\ phase' = "await_a" /\ Len(questionIds') = n
  <2>1. AllRead /\ LastSent.type = "question_confirm" /\ n > 0 /\ LastSent.key = questionNames[n]
    BY <1>4, <1>6 DEF AwaitA, Only
  <2>2. phase = "await_confirm" /\ phase' = "await_a" /\ LastSent.key = questionIds[Len(questionIds)] /\ UNCHANGED questionIds
    BY <1>1, <2>1 DEF Took
  <2>3. Len(questionIds) = n
    BY <1>3, <1>30, <1>6, <2>1, <2>2, Numbered
  <2> QED BY <1>1, <2>1, <2>2, <2>3 DEF Idle
<1>7. \A n \in 0..5 : n > 0 => n - 1 \in 0..5
  OBVIOUS
<1>8. ASSUME pc = "question_end"
      PROVE  Idle' /\ phase' = "question_upload" /\ Len(questionIds') = questions
  <2>1. AllRead /\ LastSent.type = "question_start" /\ LastSent.key = questionId
    BY <1>2, <1>4, <1>8 DEF SyncAsk, Only
  <2>2. /\ phase' = "question_upload" /\ questionIds' = Append(questionIds, LastSent.key)
        /\ LastSent.key = questionNames[Len(questionIds) + 1] /\ LastSent.key \in Ids
    BY <1>1, <2>1 DEF Took
  <2>3. Len(questionIds') = Len(questionIds) + 1 /\ Len(questionIds') <= 5
    <3>1. questionIds \in Seq(Ids)
      BY <1>1 DEF Named
    <3>2. Len(questionIds') \in 0..5
      <4>1. Live'
        OBVIOUS
      <4>2. MacInv'
        <5>1. [Next]_vars
          BY DEF Next
        <5> QED BY <5>1, MacStep
      <4>3. Named'
        BY <4>1, <4>2 DEF Live, MacInv
      <4>4. questionIds' \in Seq(Ids) /\ Len(questionIds') <= MaxQuestions /\ MaxQuestions \in 0..5
        BY <4>3, NameFacts DEF Named
      <4>5. Len(questionIds') \in Nat
        BY <4>4
      <4>6. \A n \in Nat, k \in 0..5 : n <= k => n \in 0..5
        OBVIOUS
      <4> QED BY <4>4, <4>5, <4>6
    <3> QED BY <2>2, <3>1, <3>2
  <2>4. questionId # None /\ questionId = questionNames[questions] /\ questions > 0
    <3>1. questionId # None
      BY <2>1, <2>2, NameFacts
    <3> QED BY <3>1 DEF Together, CountInv
  <2>5. Len(questionIds) + 1 \in 0..5 /\ Len(questionIds) + 1 > 0
    BY <1>3, <2>3
  <2>6. Len(questionIds) + 1 = questions
    BY <1>3, <2>1, <2>2, <2>4, <2>5, Numbered
  <2> QED BY <1>1, <2>1, <2>2, <2>3, <2>6 DEF Idle
<1>9. ASSUME pc = "transcript", ~Told
      PROVE  Idle' /\ phase' = "transcribing" /\ Len(questionIds') = questions
  <2>1. AllRead /\ LastSent.type = "question_end" /\ LastSent.key = questionId
    BY <1>2, <1>4, <1>9 DEF SyncAsk, Only
  <2>2. /\ phase = "question_upload" /\ phase' = "transcribing" /\ LastSent.key = questionIds[Len(questionIds)]
        /\ UNCHANGED questionIds
    BY <1>1, <2>1 DEF Took
  <2>3. questionNames[Len(questionIds)] \in Ids
    <3>1. \A n \in 0..5 : n > 0 => n \in 1..5
      OBVIOUS
    <3> QED BY <1>3, <2>2, <3>1, NameFacts
  <2>4. questionId # None /\ questionId = questionNames[questions] /\ questions > 0
    <3>1. questionId # None
      BY <1>30, <2>1, <2>2, <2>3, NameFacts
    <3> QED BY <3>1 DEF Together, CountInv
  <2>5. Len(questionIds) = questions
    BY <1>3, <1>30, <2>1, <2>2, <2>4, Numbered
  <2> QED BY <1>1, <2>1, <2>2, <2>5 DEF Idle
<1>10. (state = "confirming" \/ pc \in {"use", "discard"} =>
          Idle /\ phase = "await_confirm" /\ Len(questionIds) = questions)'
  BY <1>1, <1>2, <1>4 DEF SyncAsk
<1>11. (Unasked /\ pc \notin {"use", "discard"} => AwaitA(questions))'
  <2> SUFFICES ASSUME Unasked, pc \notin {"use", "discard"} PROVE AwaitA(questions)'
    BY <1>1 DEF Unasked, D!count
  <2>1. AwaitA(questions)
    BY <1>2 DEF SyncAsk
  <2> QED BY <1>1, <1>3, <1>6, <2>1 DEF AwaitA
<1>12. (pc = "question" => questions > 0 /\ AwaitA(questions - 1))'
  <2> SUFFICES ASSUME pc = "question" PROVE questions > 0 /\ AwaitA(questions - 1)'
    BY <1>1
  <2>1. questions > 0 /\ AwaitA(questions - 1) /\ questions - 1 \in 0..5
    BY <1>2, <1>3, <1>7 DEF SyncAsk
  <2> QED BY <1>1, <1>6, <2>1 DEF AwaitA
<1> QED BY <1>1, <1>4, <1>5, <1>8, <1>9, <1>10, <1>11, <1>12 DEF SyncAsk

(* It has taken what was said of a capture.                                *)
LEMMA CaptureTaken ==
  ASSUME Together, HostReads, Live', toHost' = <<>>
  PROVE  SyncCapture'
<1>1. /\ Live /\ toHost # <<>> /\ Took(LastSent) /\ toHost[1] = LastSent
      /\ UNCHANGED <<pc, state, questions, questionId, captures, playback, received>>
      /\ LastSent.type \notin {"ack", "hello", "capture_start", "capture_end"} =>
           UNCHANGED outbox /\ (AllRead => AllRead')
      /\ LastSent.type # "speak" => UNCHANGED speaking
      /\ Stages /\ Named
  BY LastTaken
<1>2. SyncCapture
  BY <1>1 DEF Together, Sync
<1>3. ~Idle /\ ~Told
  BY <1>1 DEF Idle, Told
<1>4. (BeforeB =>
         /\ toHost = <<>> => phase = "adjust"
         /\ toHost # <<>> => LastSent.type \in {"speak", "speech_stop"} /\ LastSent.key = "r1"
         /\ failed \/ (AllRead /\ speaking = None /\ ~SpeakFirst))'
  <2> SUFFICES ASSUME BeforeB
               PROVE  phase' = "adjust" /\ (failed \/ (AllRead /\ speaking = None /\ ~SpeakFirst))'
    BY <1>1 DEF BeforeB, D!count
  <2>1. /\ LastSent.type \in {"speak", "speech_stop"} /\ LastSent.key = "r1"
        /\ failed \/ (AllRead /\ speaking = None /\ ~SpeakFirst)
    BY <1>1, <1>2 DEF SyncCapture
  <2>2. phase \in {"adjust", "complete"} /\ acknowledged = "r1" /\ UNCHANGED phase
    BY <1>1, <2>1 DEF Took
  <2>3. phase = "adjust"
    BY <1>1, <2>2 DEF Stages, Before
  <2> QED BY <1>1, <2>1, <2>2, <2>3 DEF failed, SpeakFirst
<1>5. ~BeforeR'
  BY <1>1, <1>2, <1>3 DEF SyncCapture, BeforeR, D!count
<1>6. pc \in {"started", "stored"} => D!count \in 1..3
  <2> SUFFICES ASSUME pc \in {"started", "stored"} PROVE D!count \in 1..3
    OBVIOUS
  <2>1. state = "uploading"
    BY <1>1, GoesLive DEF Together, PlanInv, Over, Voiced
  <2> QED BY <2>1 DEF Together, CountInv
<1>7. ASSUME pc = "started", ~failed
      PROVE  (Told /\ phase = Recordings[D!count] /\ Len(ids) = D!count - 1)'
  <2>1. AllRead /\ LastSent.type = "capture_start" /\ LastSent.key = captureNames[D!count]
    BY <1>2, <1>3, <1>7 DEF SyncCapture, Only
  <2>2. /\ LastSent.key = captureNames[Len(ids) + 1] /\ phase' = Recordings[Len(ids) + 1]
        /\ Len(ids) \in 0..2 /\ UNCHANGED ids
        /\ outbox' = Append(outbox, [type |-> "capture_ack", key |-> LastSent.key, stage |-> "start"])
    BY <1>1, <2>1 DEF Took
  <2>3. D!count = Len(ids) + 1
    BY <1>6, <1>7, <2>1, <2>2, Numbered
  <2>4. OneUnread'
    BY <1>1, <2>1, <2>2, Grows DEF Together
  <2>5. Len(ids) = D!count - 1
    BY <2>2, <2>3
  <2> QED BY <1>1, <2>2, <2>3, <2>4, <2>5 DEF Told, D!count
<1>8. ASSUME pc = "stored"
      PROVE  (Told /\ phase = ReadyFor /\ Len(ids) = D!count)'
  <2>1. AllRead /\ LastSent.type = "capture_end" /\ LastSent.key = captureNames[D!count]
    BY <1>2, <1>3, <1>8 DEF SyncCapture, Only
  <2>2. /\ Len(ids) \in 0..2 /\ LastSent.key = captureNames[Len(ids) + 1] /\ ids' = Append(ids, LastSent.key)
        /\ phase' = IF Len(ids) = 0 THEN "guide_ready" ELSE "compare_ready"
        /\ outbox' = Append(outbox, [type |-> "capture_ack", key |-> LastSent.key, stage |-> "complete"])
    BY <1>1, <2>1 DEF Took
  <2>3. D!count = Len(ids) + 1
    BY <1>6, <1>8, <2>1, <2>2, Numbered
  <2>4. OneUnread'
    BY <1>1, <2>1, <2>2, Grows DEF Together
  <2>5. Len(ids') = Len(ids) + 1
    BY <1>1, <2>2 DEF Named
  <2>6. ReadyFor' = IF Len(ids) = 0 THEN "guide_ready" ELSE "compare_ready"
    BY <1>1, <2>2, <2>3 DEF ReadyFor, D!count
  <2> QED BY <1>1, <2>2, <2>3, <2>4, <2>5, <2>6 DEF Told, D!count
<1>9. pc \notin {"capture_end", "uploaded"}
  BY <1>2, <1>3 DEF SyncCapture
<1> QED BY <1>1, <1>4, <1>5, <1>7, <1>8, <1>9 DEF SyncCapture, failed

(* It has taken the turn, or the ack.                                      *)
LEMMA ReplyTaken ==
  ASSUME Together, HostReads, Live', toHost' = <<>>
  PROVE  SyncReply'
<1>1. /\ Live /\ toHost # <<>> /\ Took(LastSent)
      /\ UNCHANGED <<pc, state, captures, received>>
      /\ LastSent.type \notin {"ack", "hello", "capture_start", "capture_end"} =>
           UNCHANGED outbox /\ (AllRead => AllRead')
  BY LastTaken
<1>2. SyncReply
  BY <1>1 DEF Together, Sync
<1>3. ~Idle /\ ~Told
  BY <1>1 DEF Idle, Told
<1>4. pc # "ack"
  BY <1>2, <1>3 DEF SyncReply
<1>5. ASSUME pc = "reply" PROVE (Idle /\ phase = "pending" /\ Len(ids) = D!count)'
  <2>1. AllRead /\ LastSent.type = "turn" /\ Len(ids) = D!count
    BY <1>2, <1>3, <1>5 DEF SyncReply, Only
  <2> QED BY <1>1, <2>1 DEF Took, Idle, D!count
<1>6. ASSUME pc = "acked"
      PROVE  (Told /\ phase = Answered /\ speaking = None /\ D!request \notin spoken /\ Len(ids) = D!count)'
  <2>1. AllRead /\ LastSent.type = "ack" /\ Len(ids) = D!count
    BY <1>2, <1>3, <1>6 DEF SyncReply, Only
  <2>2. /\ speaking = None /\ spoken \subseteq (IF Len(ids) = 1 THEN {} ELSE {"r1"})
        /\ phase' = (IF Len(ids) = 1 THEN "adjust" ELSE "complete")
        /\ outbox' = Append(outbox, [type |-> "acknowledged", key |-> LastSent.key, state |-> phase'])
        /\ UNCHANGED <<ids, speaking, spoken>>
    BY <1>1, <2>1 DEF Took
  <2>3. OneUnread'
    BY <1>1, <2>1, <2>2, Grows DEF Together
  <2>4. phase' = Answered'
    BY <1>1, <2>1, <2>2 DEF Answered, D!count
  <2>5. D!request' \notin spoken'
    BY <1>1, <2>1, <2>2 DEF D!request, D!count
  <2> QED BY <1>1, <2>1, <2>2, <2>3, <2>4, <2>5 DEF Told, D!count
<1> QED BY <1>1, <1>4, <1>5, <1>6 DEF SyncReply

(* It has taken what was said of a reading.                                *)
LEMMA SpeakTaken ==
  ASSUME Together, HostReads, Live', toHost' = <<>>
  PROVE  SyncSpeak'
<1>1. /\ Live /\ toHost # <<>> /\ Took(LastSent) /\ toHost[1] = LastSent
      /\ UNCHANGED <<pc, state, captures, playback, stopped, received>>
      /\ LastSent.type \notin {"ack", "hello", "capture_start", "capture_end"} =>
           UNCHANGED outbox /\ (AllRead => AllRead')
      /\ LastSent.type # "speak" => UNCHANGED speaking
      /\ received \in Nat
  BY LastTaken
<1>2. SyncSpeak
  BY <1>1 DEF Together, Sync
<1>3. ~Idle
  BY <1>1 DEF Idle
<1>4. ~(pc \in {"guidance", "speak"} \/ (pc \in {"end", "final", "last"} /\ state = "complete"))
  BY <1>2, <1>3 DEF SyncSpeak
<1>5. ASSUME pc = "speech"
      PROVE  /\ (phase = Answered /\ speechKey \in spoken)'
             /\ state = "adjust" => SpeakSync'
  <2>1. 1 \in 1..Len(toHost)
    BY <1>1, HeadTaken DEF Together, GuidedInv, EvidenceInv
  <2>2. LastSent.type \in {"speak", "speech_stop"} /\ LastSent.key = speechKey
    BY <1>1, <1>2, <1>5, <2>1 DEF SyncSpeak
  <2>3. /\ phase \in {"adjust", "complete"} /\ acknowledged = speechKey /\ UNCHANGED <<phase, outbox>>
        /\ speechKey \in spoken'
        /\ LastSent.type = "speak" => speaking' = speechKey
    BY <1>1, <2>2 DEF Took
  <2>4. phase = Answered
    BY <1>1, <1>5, <2>3, SpokenOf
  <2>5. Answered' = Answered /\ speechKey' = speechKey
    BY <1>1 DEF Answered, speechKey, D!count
  <2>6. ASSUME state = "adjust" PROVE SpeakSync'
    <3>1. SpeakSync
      BY <1>2, <1>5, <2>6 DEF SyncSpeak
    <3>2. ~SpeakFirst' /\ UNCHANGED <<outbox, received, playback>>
      BY <1>1, <2>3 DEF SpeakFirst
    <3>3. CASE SpeakFirst
      <4>1. LastSent.type = "speak" /\ speaking' = "r1" /\ AllRead /\ playback # "ended"
        BY <1>1, <2>3, <2>6, <3>1, <3>3 DEF SpeakFirst, SpeakSync, speechKey
      <4>2. \A i \in received + 1..Len(outbox) : FALSE
        BY <4>1 DEF Together, SaidInv, AllRead
      <4> QED BY <3>2, <4>1, <4>2, NameFacts DEF SpeakSync
    <3>4. CASE ~SpeakFirst
      <4>1. LastSent.type # "speak"
        BY <1>1, <3>4 DEF SpeakFirst
      <4> QED BY <1>1, <3>1, <3>2, <3>4, <4>1 DEF SpeakSync, AllRead
    <3> QED BY <3>3, <3>4
  <2> QED BY <2>3, <2>4, <2>5, <2>6
<1>6. (\A i \in 1..Len(toHost) :
         /\ toHost[i].type \in {"speak", "speech_stop"} /\ toHost[i].key = speechKey
         /\ toHost[i].type = "speech_stop" => stopped)'
  OBVIOUS
<1> QED BY <1>1, <1>4, <1>5, <1>6 DEF SyncSpeak

(* The sync through a message the Mac takes.                               *)
LEMMA SyncMessage ==
  ASSUME Together, HostReads, Live'
  PROVE  Sync'
BY SyncTaken, AskTaken, CaptureTaken, ReplyTaken, SpeakTaken DEF Sync

(* What a task of the Mac that ends leaves alone.                          *)
LEMMA AfterWork ==
  ASSUME Together, HostStep, Live'
  PROVE  /\ Live /\ Worked /\ Stages /\ received \in Nat /\ SyncAsk /\ SyncCapture /\ SyncReply /\ SyncSpeak
         /\ UNCHANGED <<toHost, pc, state, questions, questionId, captures, playback, stopped, received>>
<1>1. Live
  <2>1. UNCHANGED <<broken, cancelled, state>> /\ link'
    BY DEF HostStep, device_vars, d_vars, ui_vars, Live
  <2> QED BY <2>1, Working DEF Live, Together, Dead
<1>2. Worked /\ UNCHANGED <<toHost, device_vars>>
  BY <1>1, Working DEF Live, Together
<1>3. Stages /\ received \in Nat
  BY <1>1, SameNames DEF Together, SaidInv
<1>4. UNCHANGED <<pc, state, questions, questionId, captures, playback, stopped, received>>
  BY <1>2 DEF device_vars, d_vars, stream_vars
<1> QED BY <1>1, <1>2, <1>3, <1>4 DEF Together, Sync

(* The answer to a question, or to the captures: nothing else was waited   *)
(* for.                                                                    *)
LEMMA SyncAnswer ==
  ASSUME Together, HostStep, Live', phase \in {"pending", "transcribing"}
  PROVE  Sync'
<1>1. /\ Live /\ Worked /\ SyncAsk /\ SyncCapture /\ SyncReply /\ SyncSpeak
      /\ UNCHANGED <<toHost, pc, state, questions, questionId, captures, playback, stopped, received>>
  BY AfterWork
<1>2. toHost = <<>>
  BY <1>1, Shape DEF Together, GuidedInv, EvidenceInv
<1>3. UNCHANGED <<questionIds, ids, spoken, speaking>> /\ speaking = None
  <2>1. speaking = None
    BY <1>1 DEF Together, MacInv, Live
  <2> QED BY <1>1, <2>1 DEF Worked
<1>4. \A type : ~Only(type)
  BY <1>2 DEF Only
<1>5. pc # "hello" /\ state # "confirming" /\ pc \notin {"use", "discard", "question", "question_end"} /\ ~Unasked
  BY <1>1, <1>4 DEF SyncAsk, AwaitA
<1>6. ~BeforeB /\ ~BeforeR /\ pc \notin {"capture_end", "stored", "uploaded"} /\ (pc = "started" => failed)
  <2>1. ~BeforeB /\ ~BeforeR /\ pc # "capture_end" /\ (pc = "started" => failed)
    <3>1. phase # Recordings[D!count] \/ pc \notin {"started", "capture_end"}
      <4> SUFFICES ASSUME pc \in {"started", "capture_end"} PROVE phase # Recordings[D!count]
        OBVIOUS
      <4>1. state = "uploading"
        BY <1>1, GoesLive DEF Together, PlanInv, Over, Voiced
      <4>2. D!count \in 1..3
        BY <4>1 DEF Together, CountInv
      <4>3. D!count = 1 \/ D!count = 2 \/ D!count = 3
        BY <4>2
      <4> QED BY <4>3 DEF Recordings
    <3> QED BY <1>1, <1>2, <1>4, <3>1 DEF SyncCapture
  <2>2. pc \notin {"stored", "uploaded"}
    BY <1>1, <1>4 DEF SyncCapture, ReadyFor
  <2> QED BY <2>1, <2>2
<1>7. pc \notin {"ack", "acked", "guidance", "speak", "speech"}
      /\ ~(pc \in {"end", "final", "last"} /\ state = "complete")
  BY <1>1, <1>2, <1>4 DEF SyncReply, SyncSpeak, Answered
<1>8. (pc = "transcript" => phase = "transcribing" /\ AllRead) /\ (pc = "reply" => phase = "pending" /\ AllRead)
  BY <1>1, <1>4 DEF SyncAsk, SyncReply, Idle
<1>9. CASE phase = "transcribing"
  <2>1. PICK how \in {"heard", "empty", "failed"} :
          /\ phase' = IF how = "heard" THEN "await_confirm" ELSE "await_a"
          /\ outbox' = Append(outbox, [type |-> "transcript", key |-> questionIds[Len(questionIds)], status |-> how])
    BY <1>1, <1>3, <1>9 DEF Worked
  <2>2. pc = "transcript" => Told' /\ Message'.status = how /\ Len(questionIds) = questions
    BY <1>1, <1>2, <1>4, <1>8, <2>1, Grows DEF Together, Told, SyncAsk
  <2>3. SyncAsk'
    BY <1>1, <1>3, <1>5, <2>1, <2>2 DEF SyncAsk, Unasked, D!count
  <2>4. SyncReply'
    BY <1>1, <1>3, <1>7, <1>8, <1>9 DEF SyncReply, D!count
  <2> QED BY <1>1, <1>6, <1>7, <2>3, <2>4 DEF Sync, SyncCapture, SyncSpeak, BeforeB, BeforeR,
     failed, D!count
<1>10. CASE phase = "pending"
  <2>1. \/ phase' = "await_ack" /\ \E m : outbox' = Append(outbox, m) /\ m.type \in TurnReplies
        \/ phase' = "incomplete" /\ outbox' = Append(outbox, [type |-> "incomplete"])
    BY <1>1, <1>3, <1>10 DEF Worked
  <2>2. pc = "reply" => Told' /\ (phase' = "await_ack" \/ (phase' = "incomplete" /\ Message'.type = "incomplete"))
    BY <1>1, <1>2, <1>8, <2>1, Grows DEF Together, Told
  <2>3. SyncReply'
    BY <1>1, <1>3, <1>7, <2>2 DEF SyncReply, D!count
  <2>4. SyncAsk'
    BY <1>1, <1>3, <1>5, <1>8, <1>10 DEF SyncAsk, Unasked, D!count
  <2> QED BY <1>1, <1>6, <1>7, <2>3, <2>4 DEF Sync, SyncCapture, SyncSpeak, BeforeB, BeforeR,
     failed, D!count
<1> QED BY <1>9, <1>10

(* A part of the stream: the run is at a reading, or gave one up.          *)
LEMMA SyncPart ==
  ASSUME Together, HostStep, Live', phase \notin {"pending", "transcribing"}
  PROVE  Sync'
<1>1. /\ Live /\ Worked /\ received \in Nat /\ SyncAsk /\ SyncCapture /\ SyncReply /\ SyncSpeak
      /\ UNCHANGED <<toHost, pc, state, questions, questionId, captures, playback, stopped, received>>
  BY AfterWork
<1>2. speaking # None /\ UNCHANGED <<phase, questionIds, ids, spoken>>
  BY <1>1 DEF Worked
<1>3. PICK m : /\ outbox' = Append(outbox, m) /\ m.type \in SpeechTypes
               /\ speaking' = IF m.type = "speech_end" THEN None ELSE speaking
  BY <1>1 DEF Worked
<1>4. phase \in {"adjust", "complete"} /\ handler = "reading"
  BY <1>1, <1>2 DEF Together, MacInv, Live
<1>5. Only("hello") \/ Only("question_confirm") \/ Only("capture_end") \/ Only("turn") \/ Only("ack") => FALSE
  <2> SUFFICES ASSUME toHost # <<>>, LastSent.type \in {"hello", "question_confirm", "capture_end", "turn", "ack"}
               PROVE  FALSE
    BY DEF Only
  <2>1. Len(toHost) = 1 /\ Fit(toHost[1])
    BY <1>1, Shape DEF Together, GuidedInv, EvidenceInv
  <2>2. toHost[1] = LastSent
    BY <2>1 DEF LastSent
  <2> QED BY <1>4, <2>1, <2>2 DEF Fit, H!MayConfirm, H!MayEndCapture, H!MayTurn, H!Recording
<1>6. Only("question_start") \/ Only("question_end") => FALSE
  <2> SUFFICES ASSUME toHost # <<>>, LastSent.type \in {"question_start", "question_end"}
               PROVE  FALSE
    BY DEF Only
  <2>1. Fit(toHost[1]) /\ toHost[1].type \in {"question_confirm", "question_start", "question_end"}
    BY <1>1, Shape DEF Together, GuidedInv, EvidenceInv
  <2> QED BY <1>4, <2>1 DEF Fit, H!MayConfirm, H!MayAsk, H!MayEndQuestion
<1>7. Only("capture_start") => failed
  <2> SUFFICES ASSUME toHost # <<>>, LastSent.type = "capture_start"
               PROVE  failed
    BY DEF Only
  <2>1. Len(toHost) \in 1..3
    BY <1>1, Shape DEF Together, GuidedInv, EvidenceInv
  <2>2. Len(toHost) \in 1..Len(toHost)
    BY <2>1
  <2> QED BY <1>2, <1>4, <2>2 DEF Together, QueueInv, LastSent, failed
<1>8. ~SpeakFirst
  <2> SUFFICES ASSUME SpeakFirst PROVE FALSE
    OBVIOUS
  <2>1. Fit(toHost[1]) /\ toHost[1].type = "speak"
    BY <1>4 DEF SpeakFirst, Together, QueueInv
  <2> QED BY <1>2, <2>1 DEF Fit
<1>9. pc \notin {"hello", "use", "discard", "question", "question_end"} /\ state # "confirming" /\ ~Unasked
  BY <1>1, <1>4, <1>5, <1>6 DEF SyncAsk, AwaitA
<1>10. pc # "transcript"
  BY <1>1, <1>4, <1>6 DEF SyncAsk
<1>11. pc \notin {"reply", "ack", "acked", "guidance", "speak"}
       /\ ~(pc \in {"end", "final", "last"} /\ state = "complete")
  BY <1>1, <1>2, <1>4, <1>5 DEF SyncReply, SyncSpeak
<1>12. ~BeforeR /\ pc \notin {"stored", "uploaded"}
  BY <1>1, <1>4, <1>5 DEF SyncCapture, ReadyFor
<1>13. pc # "capture_end" /\ (pc = "started" => failed)
  <2>1. phase # Recordings[D!count] \/ pc \notin {"started", "capture_end"}
    <3> SUFFICES ASSUME pc \in {"started", "capture_end"} PROVE phase # Recordings[D!count]
      OBVIOUS
    <3>1. state = "uploading"
      BY <1>1, GoesLive DEF Together, PlanInv, Over, Voiced
    <3>2. D!count \in 1..3
      BY <3>1 DEF Together, CountInv
    <3>3. D!count = 1 \/ D!count = 2 \/ D!count = 3
      BY <3>2
    <3> QED BY <1>4, <3>3 DEF Recordings
  <2> QED BY <1>1, <1>7, <2>1 DEF SyncCapture
<1>14. SyncAsk' /\ SyncReply'
  BY <1>1, <1>9, <1>10, <1>11 DEF SyncAsk, SyncReply, Unasked, D!count
<1>15. SyncCapture'
  <2>1. BeforeB => failed
    BY <1>1, <1>2 DEF SyncCapture
  <2> QED BY <1>1, <1>2, <1>12, <1>13, <2>1 DEF SyncCapture, BeforeB, BeforeR, failed, D!count,
     LastSent
<1>16. ASSUME pc = "speech", state = "adjust" PROVE SpeakSync'
  <2>1. /\ playback # "ended" /\ \A i \in received + 1..Len(outbox) : outbox[i].type # "speech_end"
    BY <1>1, <1>2, <1>8, <1>16 DEF SyncSpeak, SpeakSync
  <2>2. /\ Len(outbox) \in Nat /\ received \in 0..Len(outbox) /\ Len(outbox') = Len(outbox) + 1
        /\ outbox'[Len(outbox) + 1] = m /\ ~AllRead'
        /\ \A i \in 1..Len(outbox) : outbox'[i] = outbox[i]
    BY <1>1, <1>3, Grows DEF Together
  <2>3. ASSUME NEW i \in received' + 1..Len(outbox')
        PROVE  \/ i = Len(outbox') /\ outbox'[i] = m
               \/ i # Len(outbox') /\ outbox'[i].type # "speech_end"
    <3>1. i = Len(outbox) + 1 \/ (i \in 1..Len(outbox) /\ i \in received + 1..Len(outbox))
      BY <1>1, <2>2, <2>3
    <3>2. i = Len(outbox) + 1 <=> i = Len(outbox')
      BY <2>2
    <3> QED BY <2>1, <2>2, <3>1, <3>2
  <2>4. ~SpeakFirst' /\ playback' # "ended"
    BY <1>1, <1>8, <2>1 DEF SpeakFirst
  <2>5. CASE m.type = "speech_end"
    BY <1>3, <2>2, <2>3, <2>4, <2>5 DEF SpeakSync
  <2>6. CASE m.type # "speech_end"
    <3>1. \A i \in received' + 1..Len(outbox') : outbox'[i].type # "speech_end"
      BY <2>3, <2>6
    <3> QED BY <1>2, <1>3, <2>4, <2>6, <3>1 DEF SpeakSync
  <2> QED BY <2>5, <2>6
<1>17. SyncSpeak'
  BY <1>1, <1>2, <1>11, <1>16 DEF SyncSpeak, Answered, speechKey, D!count
<1> QED BY <1>14, <1>15, <1>17 DEF Sync

(* Together: the two sides stay in step.                                   *)
LEMMA SyncStep ==
  ASSUME Together, [Next]_vars
  PROVE  Sync'
<1> SUFFICES ASSUME Live' PROVE Sync'
  BY DEF Sync
<1>1. CASE HostReads
  BY <1>1, SyncMessage
<1>2. CASE HostStep
  BY <1>2, SyncAnswer, SyncPart
<1>3. CASE Tap \/ Advance \/ UNCHANGED vars
  <2>1. /\ UNCHANGED <<h_vars, toHost, received, pc, state, playback, stopped>>
        /\ UNCHANGED <<questions, questionId, captures>> /\ ~Connect
    <3>1. CASE Cancel
      BY <3>1 DEF Cancel, Connect, d_vars, socket_vars, stream_vars
    <3>2. ASSUME NEW value \in {1, 2}, Choose(value)
          PROVE  /\ UNCHANGED <<h_vars, toHost, received, pc, state, playback, stopped>>
                 /\ UNCHANGED <<questions, questionId, captures>> /\ ~Connect
      BY <3>2 DEF Choose, Connect, d_vars, socket_vars, stream_vars
    <3>3. CASE Advance
      BY <3>3 DEF Advance, Connect, d_vars, socket_vars, stream_vars
    <3>4. CASE UNCHANGED vars
      BY <3>4 DEF vars, Connect, d_vars, socket_vars, stream_vars
    <3> QED BY <1>3, <3>1, <3>2, <3>3, <3>4 DEF Tap
  <2> QED BY <2>1, SyncFrame
<1>4. CASE Stop \/ PollError \/ DeviceFails \/ Begin \/ Finish
  BY <1>4, SyncEnding
<1>5. CASE Connect \/ Prompt \/ Act \/ TellConfirm \/ AskQuestion \/ StopListening \/ QuestionRecorded
  BY <1>5, SyncConnect, SyncPrompt, SyncTellConfirm, SyncAsking
<1>6. CASE UploadQuestion \/ Record \/ Recorded \/ Upload \/ WalkBack \/ Turn \/ Ack
  BY <1>6, SyncQuestion, SyncRecord, SyncRecorded, SyncUpload, SyncWalk, SyncTurn, SyncAck
<1>7. CASE Guidance \/ Spoken \/ ConfirmB \/ Speak \/ StopSpeech \/ SpeechOver
  BY <1>7, SyncGuidance, SyncConfirmed, SyncSpeakSent, SyncStopSpeech, SyncSpeechOver
<1>8. CASE End \/ Final \/ LastSpeech \/ EndSpeech \/ Read
  BY <1>8, SyncOver, SyncRead
<1> QED BY <1>1, <1>2, <1>3, <1>4, <1>5, <1>6, <1>7, <1>8 DEF Next, MediaTask

-----------------------------------------------------------------------------
(* What the Mac says, it says on a connection that lasts.                  *)
LEMMA Alive ==
  ASSUME HostReads \/ HostStep, ~link'
  PROVE  UNCHANGED outbox
<1> USE DEF H!wire_vars, H!Silent, H!Answer, H!Say, H!Failed
<1>1. CASE HostReads
  <2>1. H!Receive(Head(toHost))
    BY <1>1 DEF HostReads
  <2> QED BY <2>1 DEF H!Receive, H!Refuse, H!Handle, H!OnHello, H!OnCancel, H!OnQuestionStart,
     H!OnQuestionEnd, H!OnConfirm, H!OnCaptureStart, H!OnCaptureEnd, H!OnTurn, H!OnExplain,
     H!OnAck, H!OnSpeak, H!OnSpeechStop
<1>2. CASE HostStep
  <2>1. ASSUME NEW how, H!Transcribe(how) \/ H!SpeechEnd(how) PROVE UNCHANGED outbox
    BY <2>1 DEF H!Transcribe, H!SpeechEnd, H!SpeechSend
  <2> QED BY <1>2, <2>1 DEF HostStep, H!IdleTimeout, H!Refuse, H!Disconnected, H!Close, H!Drop,
     H!TaskStep, H!Respond, H!RespondFails, H!RespondDropped, H!Explain, H!ExplainFails,
     H!SpeechStart, H!SpeechChunk, H!SpeechDies, H!SpeechSend
<1> QED BY <1>1, <1>2

(* So it says it where the device waits for it.                            *)
LEMMA SaidInStep ==
  ASSUME Together, HostReads \/ HostStep, Live', Going, ~failed
  PROVE  /\ pc \in Waiting => AllRead' \/ OneUnread'
         /\ pc \notin Waiting \cup {"speech"} => AllRead'
<1>1. UNCHANGED <<pc, state, captures, questions, playback, received>>
  BY DEF HostReads, HostStep, device_vars, d_vars, stream_vars
<1>2. SyncAsk' /\ SyncCapture' /\ SyncReply' /\ SyncSpeak'
  <2>1. [Next]_vars
    BY DEF Next
  <2>2. Sync'
    BY <2>1, SyncStep
  <2> QED BY <2>2 DEF Sync
<1>3. \A type : (Idle' \/ Only(type)' => AllRead') /\ (Told' => OneUnread')
  BY DEF Idle, Only, Told
<1>4. \A n : AwaitA(n)' => AllRead'
  BY <1>3 DEF AwaitA
<1>5. ASSUME pc \in Waiting PROVE AllRead' \/ OneUnread'
  BY <1>1, <1>2, <1>3, <1>5 DEF Waiting, SyncAsk, SyncCapture, SyncReply, failed
<1>6. PlanInv /\ ~D!terminal /\ pc \notin {"begin", "connect"}
  BY DEF Going, Together
<1>7. (Unasked' /\ pc \notin {"use", "discard"}) \/ state = "confirming" \/ pc \in {"use", "discard", "question", "question_end"} => AllRead'
  BY <1>1, <1>2, <1>3, <1>4 DEF SyncAsk
<1>8. BeforeB' \/ BeforeR' \/ pc \in {"capture_end", "uploaded"} => AllRead'
  BY <1>1, <1>2, <1>3 DEF SyncCapture, failed
<1>9. pc \in {"ack", "guidance", "speak"} => AllRead'
  BY <1>1, <1>2, <1>3 DEF SyncReply, SyncSpeak
<1>10. state = "uploading" => D!count' = 1 \/ D!count' = 2 \/ D!count' = 3
  <2>1. state = "uploading" => D!count \in 1..3
    BY DEF Together, CountInv
  <2> QED BY <1>1, <2>1 DEF D!count
<1>11. ASSUME pc \notin Waiting \cup {"speech"} PROVE AllRead'
  <2>1. CASE pc \in {"spoken", "confirm_b"}
    BY <1>1, <1>6, <1>8, <2>1 DEF PlanInv, BeforeB
  <2>2. CASE pc \in {"upload", "capture_end", "uploaded"}
    BY <1>1, <1>6, <1>7, <1>8, <1>10, <2>2 DEF PlanInv, Unasked, BeforeB, BeforeR
  <2>3. CASE pc \in {"ack", "guidance", "speak", "use", "discard", "question", "question_end"}
    BY <1>7, <1>9, <2>3
  <2>4. CASE pc \in {"prompt", "choose", "ask", "listening", "recorded", "record", "recording"}
    BY <1>1, <1>6, <1>7, <1>8, <2>4 DEF PlanInv, Unasked, BeforeB, BeforeR
  <2> QED BY <1>6, <1>11, <2>1, <2>2, <2>3, <2>4 DEF PlanInv, Waiting
<1> QED BY <1>5, <1>11

(* Through the steps of the Mac.                                           *)
LEMMA UnreadOnMac ==
  ASSUME Together, HostReads \/ HostStep
  PROVE  UnreadInv'
<1>1. UNCHANGED <<pc, state, playback, received, cancelled, broken>>
  BY DEF HostReads, HostStep, device_vars, d_vars, stream_vars, ui_vars
<1>2. CASE UNCHANGED outbox
  BY <1>1, <1>2 DEF Together, UnreadInv, Going, failed, InStream, AllRead, OneUnread, D!terminal
<1>3. CASE outbox' # outbox
  <2> SUFFICES ASSUME Going, ~failed
               PROVE  /\ pc = "speech" => InStream'
                      /\ pc \in Waiting => AllRead' \/ OneUnread'
                      /\ pc \notin Waiting \cup {"speech"} => AllRead'
    BY <1>1 DEF UnreadInv, Going, failed, D!terminal
  <2>1. Live' /\ Live
    <3>1. link' /\ link
      BY <1>3, Alive, DeadIsSilent
    <3>2. ~broken /\ ~cancelled /\ ~Dead
      BY DEF Going, Together, PlaceInv, Dead, D!terminal, D!TerminalStates
    <3> QED BY <1>1, <3>1, <3>2 DEF Live, Dead
  <2>2. ASSUME pc = "speech" PROVE InStream'
    <3>1. state = "adjust"
      BY <2>2 DEF Together, PlanInv, Going
    <3>2. SpeakSync /\ SyncSpeak
      BY <2>1, <2>2, <3>1 DEF Together, Sync, SyncSpeak
    <3>3. InStream
      BY <2>2 DEF Together, UnreadInv
    <3>4. HostStep
      <4> SUFFICES ASSUME HostReads PROVE FALSE
        OBVIOUS
      <4>1. toHost # <<>> /\ Len(toHost) \in 1..3 /\ Took(toHost[1]) /\ Fit(toHost[1])
        BY <2>1, HeadTaken DEF Together, GuidedInv, EvidenceInv
      <4>2. 1 \in 1..Len(toHost)
        BY <4>1
      <4>3. toHost[1].type \in {"speak", "speech_stop"}
        BY <2>2, <3>2, <4>2 DEF SyncSpeak
      <4> QED BY <1>3, <4>1, <4>3 DEF Took
    <3>5. Worked
      BY <2>1, <3>4, Working DEF Together, Live
    <3>6. phase \notin {"pending", "transcribing"}
      <4>1. toHost = <<>> => phase = Answered
        BY <2>2, <3>2 DEF SyncSpeak
      <4> QED BY <2>1, <4>1, Shape DEF Answered, Together, GuidedInv, EvidenceInv
    <3>7. PICK m : outbox' = Append(outbox, m) /\ m.type \in SpeechTypes /\ speaking # None
      BY <3>5, <3>6 DEF Worked
    <3>8. ~SpeakFirst
      <4> SUFFICES ASSUME SpeakFirst PROVE FALSE
        OBVIOUS
      <4>1. Fit(toHost[1]) /\ toHost[1].type = "speak"
        BY <2>1 DEF SpeakFirst, Together, QueueInv, MacInv, Live
      <4> QED BY <3>7, <4>1 DEF Fit
    <3>9. playback # "ended" /\ \A i \in received + 1..Len(outbox) : outbox[i].type # "speech_end"
      BY <3>2, <3>7, <3>8 DEF SpeakSync
    <3>10. /\ Len(outbox) \in Nat /\ received \in 0..Len(outbox) /\ Len(outbox') = Len(outbox) + 1
           /\ outbox'[Len(outbox) + 1] = m
           /\ \A i \in 1..Len(outbox) : outbox'[i] = outbox[i]
      BY <1>1, <3>7, Grows DEF Together
    <3>11. ASSUME NEW i \in received' + 1..Len(outbox')
           PROVE  outbox'[i].type \in SpeechTypes /\ (outbox'[i].type = "speech_end" => i = Len(outbox'))
      <4>1. i = Len(outbox) + 1 \/ (i \in 1..Len(outbox) /\ i \in received + 1..Len(outbox))
        BY <1>1, <3>10, <3>11
      <4> QED BY <3>3, <3>7, <3>9, <3>10, <4>1 DEF InStream
    <3> QED BY <1>1, <3>9, <3>11 DEF InStream
  <2> QED BY <2>1, <2>2, SaidInStep
<1> QED BY <1>2, <1>3

(* Where the device stops waiting without an answer, the run is over.      *)
LEMMA GivenUp ==
  ASSUME Together, Going', ~failed',
         \/ Stop \/ PollError \/ DeviceFails \/ SpeechOver \/ StopSpeech
         \/ (Read /\ Unexpected)
  PROVE  \/ pc' = "speech" /\ pc = "speech" /\ UNCHANGED <<outbox, received, playback>>
         \/ pc = "speech" /\ pc' = "spoken" /\ playback = "ended" /\ UNCHANGED <<outbox, received, playback>>
<1>1. ~D!terminal' /\ ~cancelled'
  BY DEF Going
<1>2. ~(Disconnect \/ Fail \/ D!Cancel \/ D!Tick)
  BY <1>1, Ending
<1>3. ~PollError /\ ~DeviceFails /\ ~Unexpected
  BY <1>2 DEF PollError, DeviceFails, Unexpected
<1>4. ~Stop
  BY <1>1, <1>2 DEF Stop, Active, d_vars, D!terminal, D!TerminalStates
<1>5. CASE SpeechOver
  BY <1>5 DEF SpeechOver, failed, h_vars
<1>6. CASE StopSpeech
  <2>1. ~(cancelled /\ state # "complete")
    BY <1>1, <1>6 DEF StopSpeech
  <2>2. pc' = "speech"
    BY <1>2, <1>6, <2>1, SendsOrCuts DEF StopSpeech, TellStop
  <2> QED BY <1>6, <2>2 DEF StopSpeech, h_vars
<1> QED BY <1>3, <1>4, <1>5, <1>6

(* The steps that read nothing, and leave no wait.                         *)
LEMMA UnreadElse ==
  ASSUME Together, Going', ~failed',
         \/ Begin \/ Connect \/ Prompt \/ Act \/ TellConfirm \/ AskQuestion
         \/ StopListening \/ QuestionRecorded \/ UploadQuestion \/ Record \/ Recorded \/ Upload
         \/ WalkBack \/ Turn \/ Ack \/ Guidance \/ Spoken \/ ConfirmB \/ Speak
         \/ End \/ Final \/ LastSpeech \/ EndSpeech \/ Finish
  PROVE  /\ UNCHANGED <<outbox, received>> /\ pc \notin Waiting \cup {"speech"}
         /\ pc' = "speech" => playback' = "begun"
<1> USE DEF h_vars, Waiting
<1>1. CASE Begin \/ Connect \/ Prompt \/ Act \/ AskQuestion \/ StopListening \/ QuestionRecorded \/ Record \/ Recorded
  BY <1>1 DEF Begin, Connect, Prompt, Act, AskQuestion, StopListening, QuestionRecorded, Record,
     Recorded
<1>2. CASE TellConfirm \/ UploadQuestion \/ Upload \/ Turn \/ Ack
  BY <1>2, SendsOrCuts DEF TellConfirm, UploadQuestion, Upload, Turn, Ack, Lost
<1>3. CASE WalkBack \/ Guidance \/ Spoken \/ ConfirmB
  BY <1>3 DEF WalkBack, Guidance, Spoken, ConfirmB
<1>4. CASE Speak
  BY <1>4, SendsOrCuts DEF Speak
<1>5. CASE End \/ Final \/ LastSpeech \/ EndSpeech \/ Finish
  BY <1>5 DEF End, Final, LastSpeech, EndSpeech, Finish
<1> QED BY <1>1, <1>2, <1>3, <1>4, <1>5

(* The device goes on from where it was, or has just begun.                *)
LEMMA WentOn ==
  ASSUME Together, [Next]_vars, Going', ~failed'
  PROVE  /\ ~failed /\ (Going \/ (pc \in {"begin", "connect"} /\ outbox = <<>> /\ received = 0))
<1>1. ~failed
  BY FailedStays DEF Together
<1>2. ~D!terminal
  BY StageStep DEF Together, GuidedInv, Onward, Going
<1>3. ~cancelled
  <2>1. CASE Tap
    <3>1. CASE Cancel
      BY <3>1 DEF Cancel, Going
    <3>2. ASSUME NEW value \in {1, 2}, Choose(value) PROVE ~cancelled
      BY <3>2 DEF Choose
    <3> QED BY <2>1, <3>1, <3>2 DEF Tap
  <2> USE DEF Going, ui_vars
  <2>2. CASE HostReads \/ HostStep \/ Advance \/ UNCHANGED vars
    BY <2>2 DEF HostReads, HostStep, Advance, vars, device_vars
  <2>3. CASE Stop \/ PollError \/ DeviceFails \/ Begin \/ Connect \/ Prompt \/ Act \/ TellConfirm
             \/ AskQuestion \/ StopListening \/ QuestionRecorded \/ UploadQuestion
    BY <2>3 DEF Stop, PollError, DeviceFails, Begin, Connect, Prompt, Act, TellConfirm,
         AskQuestion, StopListening, QuestionRecorded, UploadQuestion
  <2>4. CASE Record \/ Recorded \/ Upload \/ WalkBack \/ Turn \/ Ack \/ Guidance \/ Spoken
             \/ ConfirmB \/ Speak \/ StopSpeech \/ SpeechOver
    BY <2>4 DEF Record, Recorded, Upload, WalkBack, Turn, Ack, Guidance, Spoken, ConfirmB, Speak,
         StopSpeech, SpeechOver
  <2>5. CASE End \/ Final \/ LastSpeech \/ EndSpeech \/ Finish \/ Read
    BY <2>5 DEF End, Final, LastSpeech, EndSpeech, Finish, Read
  <2> QED BY <2>1, <2>2, <2>3, <2>4, <2>5 DEF Next, MediaTask
<1> QED BY <1>1, <1>2, <1>3 DEF Going, Together, PlaceInv

(* What is unread, through the steps of the device.                        *)
LEMMA UnreadOnDevice ==
  ASSUME Together, [Next]_vars, ~(HostReads \/ HostStep)
  PROVE  UnreadInv'
<1> SUFFICES ASSUME Going', ~failed'
             PROVE  /\ pc' = "speech" => InStream'
                    /\ pc' \in Waiting => AllRead' \/ OneUnread'
                    /\ pc' \notin Waiting \cup {"speech"} => AllRead'
  BY DEF UnreadInv
<1>1. ~failed /\ (Going \/ (pc \in {"begin", "connect"} /\ outbox = <<>> /\ received = 0))
  BY WentOn
<1>2. /\ Going /\ pc = "speech" => InStream
      /\ Going /\ pc \in Waiting => AllRead \/ OneUnread
      /\ pc \notin Waiting \cup {"speech"} => AllRead
  <2>1. outbox = <<>> /\ received = 0 => AllRead
    BY DEF AllRead
  <2> QED BY <1>1, <2>1 DEF Together, UnreadInv
<1>3. outbox \in Seq({outbox[i] : i \in DOMAIN outbox}) /\ received \in 0..Len(outbox) /\ Len(outbox) \in Nat
  <2>1. outbox \in Seq({outbox[i] : i \in DOMAIN outbox}) /\ received \in 0..Len(outbox)
    BY DEF Together, SaidInv
  <2>2. Len(outbox) \in Nat
    BY <2>1
  <2> QED BY <2>1, <2>2
<1>4. ASSUME AllRead, UNCHANGED <<outbox, received>>
      PROVE  AllRead' /\ InStream'
  <2>1. \A i \in received + 1..Len(outbox) : FALSE
    BY <1>3, <1>4 DEF AllRead
  <2> QED BY <1>4, <2>1 DEF AllRead, InStream
<1>5. CASE \/ Begin \/ Connect \/ Prompt \/ Act \/ TellConfirm \/ AskQuestion
           \/ StopListening \/ QuestionRecorded \/ UploadQuestion \/ Record \/ Recorded \/ Upload
           \/ WalkBack \/ Turn \/ Ack \/ Guidance \/ Spoken \/ ConfirmB \/ Speak
           \/ End \/ Final \/ LastSpeech \/ EndSpeech \/ Finish
  BY <1>2, <1>4, <1>5, UnreadElse
<1>6. CASE Stop \/ PollError \/ DeviceFails \/ SpeechOver \/ StopSpeech \/ (Read /\ Unexpected)
  <2>1. \/ pc' = "speech" /\ pc = "speech" /\ UNCHANGED <<outbox, received, playback>>
        \/ pc = "speech" /\ pc' = "spoken" /\ playback = "ended" /\ UNCHANGED <<outbox, received, playback>>
    BY <1>6, GivenUp
  <2>2. InStream
    BY <1>1, <1>2, <2>1
  <2> QED BY <2>1, <2>2 DEF InStream, AllRead, Waiting
<1>7. CASE Read /\ Expected(Message)
  <2>1. received' = received + 1 /\ UNCHANGED outbox /\ received < Len(outbox) /\ ~AllRead
    BY <1>3, <1>7 DEF Read, h_vars, AllRead
  <2>2. Going
    BY <1>1, <2>1 DEF AllRead
  <2>3. CASE OnReply(Message) \/ OnCaptureAck(Message)
    <3>1. pc \in Waiting
      BY <2>3 DEF OnReply, OnCaptureAck, Waiting
    <3>2. AllRead'
      BY <1>2, <1>3, <2>1, <2>2, <3>1 DEF AllRead, OneUnread
    <3>3. pc' # "speech"
      BY <2>3 DEF OnReply, OnCaptureAck
    <3> QED BY <3>2, <3>3
  <2>4. CASE OnSpeech(Message)
    <3>1. pc = "speech" /\ pc' = "speech" /\ InStream
          /\ playback' = IF outbox[received + 1].type = "speech_end" THEN "ended" ELSE "started"
      BY <1>2, <2>2, <2>4 DEF OnSpeech, Message
    <3>2. /\ received + 1 \in received + 1..Len(outbox)
          /\ \A i \in received' + 1..Len(outbox) : i \in received + 1..Len(outbox)
      BY <1>3, <2>1
    <3>3. playback' = "ended" => AllRead'
      BY <2>1, <3>1, <3>2 DEF InStream, AllRead
    <3> QED BY <2>1, <3>1, <3>2, <3>3 DEF InStream, Waiting
  <2> QED BY <1>7, <2>3, <2>4 DEF Read
<1>8. CASE Tap \/ Advance \/ UNCHANGED vars
  <2>1. UNCHANGED <<pc, outbox, received, playback>>
    <3>1. CASE Tap
      <4>1. CASE Cancel
        BY <4>1 DEF Cancel, h_vars, stream_vars
      <4>2. ASSUME NEW value \in {1, 2}, Choose(value) PROVE UNCHANGED <<pc, outbox, received, playback>>
        BY <4>2 DEF Choose, h_vars, stream_vars
      <4> QED BY <3>1, <4>1, <4>2 DEF Tap
    <3>2. CASE Advance \/ UNCHANGED vars
      BY <3>2 DEF Advance, vars, h_vars, stream_vars
    <3> QED BY <1>8, <3>1, <3>2
  <2>2. Going \/ pc' \notin Waiting \cup {"speech"}
    BY <1>1, <2>1 DEF Waiting
  <2> QED BY <1>2, <2>1, <2>2 DEF InStream, AllRead, OneUnread
<1> QED BY <1>5, <1>6, <1>7, <1>8 DEF Next, MediaTask, Read

(* Every step keeps what is unread.                                        *)
LEMMA UnreadStep ==
  ASSUME Together, [Next]_vars
  PROVE  UnreadInv'
BY UnreadOnMac, UnreadOnDevice

-----------------------------------------------------------------------------
(* The clock goes on, and a deadline is a time ahead, or none.             *)
LEMMA ClockStep ==
  ASSUME [Next]_vars
  PROVE  now' \in {now, now + 1} /\ deadline' \in {deadline, 0, now + Wait}
<1> USE DEF D!Enter, D!ask_vars, d_vars
<1>1. Disconnect \/ Fail \/ D!Cancel \/ D!Tick => now' = now /\ deadline' \in {deadline, 0}
  BY DEF Disconnect, Fail, D!Disconnect, D!Fail, D!Cancel, D!Tick
<1>2. CASE HostReads
  <2>1. UNCHANGED now
    BY <1>2 DEF HostReads, H!Receive, H!Refuse, H!Handle, H!OnHello, H!OnCancel,
       H!OnQuestionStart, H!OnQuestionEnd, H!OnConfirm, H!OnCaptureStart, H!OnCaptureEnd,
       H!OnTurn, H!OnExplain, H!OnAck, H!OnSpeak, H!OnSpeechStop
  <2> QED BY <1>2, <2>1 DEF HostReads, device_vars
<1>3. CASE HostStep
  <2>1. ASSUME NEW how, H!Transcribe(how) \/ H!SpeechEnd(how) PROVE UNCHANGED now
    BY <2>1 DEF H!Transcribe, H!SpeechEnd, H!SpeechSend
  <2>2. UNCHANGED now
    BY <1>3, <2>1 DEF HostStep, H!IdleTimeout, H!Refuse, H!Disconnected, H!Close, H!Drop,
       H!TaskStep, H!Respond, H!RespondFails, H!RespondDropped, H!Explain, H!ExplainFails,
       H!SpeechStart, H!SpeechChunk, H!SpeechDies, H!SpeechSend
  <2> QED BY <1>3, <2>2 DEF HostStep, device_vars
<1>4. CASE Stop \/ PollError \/ DeviceFails \/ Begin \/ Connect
  BY <1>1, <1>4 DEF Stop, PollError, DeviceFails, Begin, Connect, D!Ask
<1>5. CASE Prompt \/ Act \/ AskQuestion \/ StopListening \/ QuestionRecorded
  BY <1>5 DEF Prompt, Act, AskQuestion, StopListening, QuestionRecorded, D!ConfirmQuestion,
              D!StartQuestion, D!QuestionRecorded
<1>6. CASE TellConfirm \/ UploadQuestion \/ Upload
  BY <1>1, <1>6 DEF TellConfirm, UploadQuestion, Upload
<1>7. CASE Record \/ Recorded \/ WalkBack
  BY <1>7 DEF Record, Recorded, WalkBack, D!StartCapture, D!Captured, D!AwaitRepeat
<1>8. CASE Turn \/ Ack
  BY <1>1, <1>8 DEF Turn, Ack, D!Turn, D!Ack
<1>9. CASE Guidance \/ Spoken \/ ConfirmB \/ Speak \/ SpeechOver
  BY <1>1, <1>9 DEF Guidance, Spoken, ConfirmB, Speak, SpeechOver, D!Adjust
<1>10. CASE StopSpeech
  BY <1>1, <1>10 DEF StopSpeech, TellStop
<1>11. CASE End \/ Final \/ LastSpeech \/ EndSpeech \/ Finish
  BY <1>1, <1>11 DEF End, Final, LastSpeech, EndSpeech, Finish
<1>12. CASE Read
  <2>1. CASE OnReply(Message)
    BY <2>1 DEF OnReply, D!Receive, D!Tick, D!OnReady, D!OnTranscript, D!OnAcknowledged, D!OnReply
  <2> QED BY <1>1, <1>12, <2>1 DEF Read, OnCaptureAck, OnSpeech, Unexpected
<1>13. CASE Tap
  <2>1. CASE Cancel
    BY <2>1 DEF Cancel
  <2>2. ASSUME NEW value \in {1, 2}, Choose(value) PROVE UNCHANGED <<now, deadline>>
    BY <2>2 DEF Choose
  <2> QED BY <1>13, <2>1, <2>2 DEF Tap
<1>14. CASE Advance \/ UNCHANGED vars
  BY <1>14 DEF Advance, vars
<1> QED BY <1>2, <1>3, <1>4, <1>5, <1>6, <1>7, <1>8, <1>9, <1>10, <1>11, <1>12, <1>13, <1>14 DEF
   Next, MediaTask

(* A turn waits in the queue with the times it was sent with.              *)
LEMMA TimesKept ==
  ASSUME GuidedInv, [Next]_vars
  PROVE  \A i \in 1..Len(toHost') :
            \/ toHost'[i].type # "turn"
            \/ \E j \in 1..Len(toHost) : toHost'[i] = toHost[j]
            \/ toHost'[i].sent = now /\ toHost'[i].deadline = deadline'
<1> DEFINE Kept == \A i \in 1..Len(toHost') :
                      \/ toHost'[i].type # "turn"
                      \/ \E j \in 1..Len(toHost) : toHost'[i] = toHost[j]
                      \/ toHost'[i].sent = now /\ toHost'[i].deadline = deadline'
<1>1. toHost \in Seq({toHost[i] : i \in DOMAIN toHost}) /\ StageInv /\ ScreenInv
  BY DEF GuidedInv, EvidenceInv, Channel
<1>2. toHost' = toHost => Kept
  OBVIOUS
<1>3. ASSUME NEW m, toHost' = Append(toHost, m),
             m.type # "turn" \/ (m.sent = now /\ m.deadline = deadline')
      PROVE  Kept
  <2>1. /\ Len(toHost) \in Nat /\ Len(toHost') = Len(toHost) + 1 /\ toHost'[Len(toHost')] = m
        /\ \A i \in 1..Len(toHost) : toHost'[i] = toHost[i]
    BY <1>1, <1>3, Appended
  <2>2. \A i \in 1..Len(toHost') : i \in 1..Len(toHost) \/ i = Len(toHost')
    BY <2>1
  <2> QED BY <1>3, <2>1, <2>2
<1>4. \A next : CutShort(next) => Kept
  <2>1. Torn.type # "turn"
    BY DEF Torn
  <2> QED BY <1>2, <1>3, <2>1 DEF CutShort
<1>5. SendsOther => Kept
  BY <1>2, <1>3 DEF SendsOther
<1>6. CASE Connect
  <2>1. \/ toHost' = <<[type |-> "hello"]>> \/ toHost' = <<Torn>> \/ toHost' = <<>>
    BY <1>6 DEF Connect
  <2> QED BY <2>1 DEF Torn
<1>7. CASE Act \/ Read \/ HostStep
  BY <1>2, <1>7 DEF Act, Read, HostStep, socket_vars
<1>8. CASE TellConfirm
  <2>1. ASSUME NEW next, Sent([type |-> "question_confirm", key |-> questionId, accepted |-> pc = "use"], next)
        PROVE  Kept
    BY <1>2, <1>3, <2>1 DEF Sent
  <2> QED BY <1>4, <1>8, <2>1 DEF TellConfirm, Lost
<1>9. CASE Turn
  <2> DEFINE m == [type |-> "turn", key |-> D!request, ids |-> D!captureIds,
                   adjusted |-> D!count > 1, sent |-> now, deadline |-> deadline']
  <2>1. Sent(m, "reply") => Kept
    BY <1>2, <1>3 DEF Sent
  <2> QED BY <1>4, <1>9, <2>1 DEF Turn, Lost
<1>10. CASE HostReads
  BY <1>10, TakenQueue DEF HostReads, GuidedInv, EvidenceInv
<1>11. CASE \/ Stop \/ PollError \/ DeviceFails \/ Begin \/ Prompt \/ AskQuestion \/ StopListening
            \/ QuestionRecorded \/ UploadQuestion \/ Record \/ Recorded \/ Upload \/ WalkBack \/ Ack
            \/ Guidance \/ Spoken \/ ConfirmB \/ Speak \/ StopSpeech \/ SpeechOver \/ End \/ Final
            \/ LastSpeech \/ EndSpeech \/ Finish \/ Tap \/ Advance \/ UNCHANGED vars
  BY <1>1, <1>5, <1>11, CalmSteps DEF Calm
<1> QED BY <1>6, <1>7, <1>8, <1>9, <1>10, <1>11 DEF Next, MediaTask

(* Only the Mac sets a time to answer by, when it takes a turn.            *)
LEMMA ExpiresKept ==
  ASSUME MacInv, [Next]_vars
  PROVE  \/ UNCHANGED expires
         \/ HostReads /\ Head(toHost).type = "turn" /\ expires' = now + (Head(toHost).deadline - Head(toHost).sent)
<1> USE DEF H!reply_vars
<1>1. CASE HostReads
  <2> DEFINE m == Head(toHost)
  <2>1. CASE H!OnTurn(m)
    BY <1>1, <2>1 DEF H!OnTurn, H!MayTurn
  <2>2. CASE ~H!OnTurn(m)
    BY <1>1, <2>2 DEF HostReads, H!Receive, H!Refuse, H!Handle, H!OnHello, H!OnCancel,
       H!OnQuestionStart, H!OnQuestionEnd, H!OnConfirm, H!OnCaptureStart, H!OnCaptureEnd,
       H!OnExplain, H!OnAck, H!OnSpeak, H!OnSpeechStop
  <2> QED BY <2>1, <2>2
<1>2. CASE HostStep
  <2>1. ASSUME NEW how, H!Transcribe(how) \/ H!SpeechEnd(how) PROVE UNCHANGED expires
    BY <2>1 DEF H!Transcribe, H!SpeechEnd, H!SpeechSend
  <2> QED BY <1>2, <2>1 DEF HostStep, H!IdleTimeout, H!Refuse, H!Disconnected, H!Close, H!Drop,
     H!TaskStep, H!Respond, H!RespondFails, H!RespondDropped, H!Explain, H!ExplainFails,
     H!SpeechStart, H!SpeechChunk, H!SpeechDies, H!SpeechSend, H!Failed
<1>3. CASE ~(HostReads \/ HostStep)
  <2>1. UNCHANGED h_vars
    BY <1>3, MacWaits
  <2> QED BY <2>1 DEF h_vars
<1> QED BY <1>1, <1>2, <1>3

(* Every step keeps the times.                                             *)
LEMMA TimeStep ==
  ASSUME TimeInv, GuidedInv, MacInv, [Next]_vars
  PROVE  TimeInv'
<1>1. now' \in Nat /\ deadline' \in Nat
  BY ClockStep DEF TimeInv, Wait
<1>2. expires' \in Int
  <2>1. CASE UNCHANGED expires
    BY <2>1 DEF TimeInv
  <2>2. CASE HostReads /\ Head(toHost).type = "turn" /\ expires' = now + (Head(toHost).deadline - Head(toHost).sent)
    <3>1. Head(toHost) = toHost[1] /\ 1 \in 1..Len(toHost)
      <4>1. Head(toHost) = toHost[1] /\ Len(toHost) \in Nat \ {0}
        BY <2>2, TakenQueue DEF HostReads, GuidedInv, EvidenceInv
      <4> QED BY <4>1
    <3> QED BY <2>2, <3>1 DEF TimeInv
  <2> QED BY <2>1, <2>2, ExpiresKept
<1>3. \A i \in 1..Len(toHost') :
        toHost'[i].type = "turn" => toHost'[i].sent \in Nat /\ toHost'[i].deadline \in Nat
  BY <1>1, TimesKept DEF TimeInv
<1> QED BY <1>1, <1>2, <1>3 DEF TimeInv

-----------------------------------------------------------------------------
(* A part of a frame is all the Mac can take for one.                      *)
TornInv == \A i \in 1..Len(toHost) : toHost[i].type = "torn" => toHost[i] = Torn

(* Every step keeps it: only a frame cut short leaves a part of one.       *)
LEMMA TornStep ==
  ASSUME TornInv, GuidedInv, [Next]_vars
  PROVE  TornInv'
<1>1. toHost \in Seq({toHost[i] : i \in DOMAIN toHost}) /\ StageInv /\ ScreenInv
  BY DEF GuidedInv, EvidenceInv, Channel
<1>2. toHost' = toHost => TornInv'
  BY DEF TornInv
<1>3. ASSUME NEW m, toHost' = Append(toHost, m), m.type = "torn" => m = Torn
      PROVE  TornInv'
  <2>1. /\ Len(toHost) \in Nat /\ Len(toHost') = Len(toHost) + 1 /\ toHost'[Len(toHost')] = m
        /\ \A i \in 1..Len(toHost) : toHost'[i] = toHost[i]
    BY <1>1, <1>3, Appended
  <2>2. \A i \in 1..Len(toHost') : i \in 1..Len(toHost) \/ i = Len(toHost')
    BY <2>1
  <2> QED BY <1>3, <2>1, <2>2 DEF TornInv
<1>4. \A next : CutShort(next) => TornInv'
  BY <1>2, <1>3 DEF CutShort
<1>5. SendsOther => TornInv'
  BY <1>2, <1>3 DEF SendsOther
<1>6. CASE Connect
  <2>1. \/ toHost' = <<[type |-> "hello"]>> \/ toHost' = <<Torn>> \/ toHost' = <<>>
    BY <1>6 DEF Connect
  <2> QED BY <2>1 DEF Torn, TornInv
<1>7. CASE Act \/ Read \/ HostStep
  BY <1>2, <1>7 DEF Act, Read, HostStep, socket_vars
<1>8. CASE TellConfirm
  <2>1. ASSUME NEW next, Sent([type |-> "question_confirm", key |-> questionId, accepted |-> pc = "use"], next)
        PROVE  TornInv'
    BY <1>2, <1>3, <2>1 DEF Sent
  <2> QED BY <1>4, <1>8, <2>1 DEF TellConfirm, Lost
<1>9. CASE Turn
  <2> DEFINE m == [type |-> "turn", key |-> D!request, ids |-> D!captureIds,
                   adjusted |-> D!count > 1, sent |-> now, deadline |-> deadline']
  <2>1. Sent(m, "reply") => TornInv'
    BY <1>2, <1>3 DEF Sent
  <2> QED BY <1>4, <1>9, <2>1 DEF Turn, Lost
<1>10. CASE HostReads
  BY <1>10, TakenQueue DEF HostReads, GuidedInv, EvidenceInv, TornInv
<1>11. CASE \/ Stop \/ PollError \/ DeviceFails \/ Begin \/ Prompt \/ AskQuestion \/ StopListening
            \/ QuestionRecorded \/ UploadQuestion \/ Record \/ Recorded \/ Upload \/ WalkBack \/ Ack
            \/ Guidance \/ Spoken \/ ConfirmB \/ Speak \/ StopSpeech \/ SpeechOver \/ End \/ Final
            \/ LastSpeech \/ EndSpeech \/ Finish \/ Tap \/ Advance \/ UNCHANGED vars
  BY <1>1, <1>5, <1>11, CalmSteps DEF Calm
<1> QED BY <1>6, <1>7, <1>8, <1>9, <1>10, <1>11 DEF Next, MediaTask

(* The Mac refuses once, and then has nothing more to do for the run.      *)
LEMMA RefusalStays ==
  ASSUME MacInv, [Next]_vars, refused # "none"
  PROVE  UNCHANGED <<refused, acknowledged, expires>>
<1>1. handler # "reading" /\ task # "explain"
  BY DEF MacInv
<1>2. CASE HostReads
  BY <1>1, <1>2 DEF HostReads, H!Receive
<1>3. CASE HostStep
  <2> USE DEF H!reply_vars, H!wire_vars
  <2>1. CASE H!IdleTimeout \/ H!Disconnected \/ H!Close \/ H!Drop
    BY <1>1, <2>1 DEF H!IdleTimeout, H!Disconnected, H!Close, H!Drop
  <2>2. CASE H!Respond \/ H!RespondFails \/ H!RespondDropped
    BY <1>1, <2>2 DEF H!Respond, H!RespondFails, H!RespondDropped, H!Say, H!Failed
  <2>3. ASSUME NEW how, H!Transcribe(how) PROVE UNCHANGED <<refused, acknowledged, expires>>
    BY <2>3 DEF H!Transcribe, H!Say
  <2>4. CASE H!SpeechStart \/ H!SpeechChunk \/ H!SpeechDies
    BY <2>4 DEF H!SpeechStart, H!SpeechChunk, H!SpeechDies, H!SpeechSend
  <2>5. ASSUME NEW how, H!SpeechEnd(how) PROVE UNCHANGED <<refused, acknowledged, expires>>
    BY <2>5 DEF H!SpeechEnd, H!SpeechSend
  <2>6. ~H!Explain /\ ~H!ExplainFails
    BY <1>1 DEF H!Explain, H!ExplainFails
  <2> QED BY <1>3, <2>1, <2>2, <2>3, <2>4, <2>5, <2>6 DEF HostStep, H!TaskStep
<1>4. CASE UNCHANGED h_vars
  BY <1>4 DEF h_vars
<1> QED BY <1>2, <1>3, <1>4, MacWaits

(* It refuses the first message of the queue, or a device that is silent.  *)
LEMMA Refusing ==
  ASSUME [Next]_vars
  PROVE  \/ UNCHANGED refused
         \/ refused' = "idle"
         \/ /\ HostReads /\ handler = "reading" /\ ~H!Legal(Head(toHost))
            /\ refused' = Head(toHost).type /\ UNCHANGED <<acknowledged, expires, now, playback>>
<1>1. CASE HostReads
  <2>1. UNCHANGED playback
    BY <1>1 DEF HostReads, device_vars, stream_vars
  <2>2. CASE H!Legal(Head(toHost))
    <3>1. H!Handle(Head(toHost))
      BY <1>1, <2>2 DEF HostReads, H!Receive
    <3>2. UNCHANGED refused
      BY <3>1 DEF H!Handle, H!OnHello, H!OnCancel, H!OnQuestionStart, H!OnQuestionEnd,
         H!OnConfirm, H!OnCaptureStart, H!OnCaptureEnd, H!OnTurn, H!OnExplain, H!OnAck,
         H!OnSpeak, H!OnSpeechStop, H!Silent, H!Answer, H!wire_vars
    <3> QED BY <3>2
  <2>3. CASE ~H!Legal(Head(toHost))
    BY <1>1, <2>1, <2>3 DEF HostReads, H!Receive, H!Refuse, H!reply_vars
  <2> QED BY <2>2, <2>3
<1>2. CASE HostStep
  <2> USE DEF H!wire_vars
  <2>1. CASE H!IdleTimeout
    BY <2>1 DEF H!IdleTimeout, H!Refuse
  <2>2. CASE H!Disconnected \/ H!Close \/ H!Drop
    BY <2>2 DEF H!Disconnected, H!Close, H!Drop
  <2>3. CASE H!Respond \/ H!RespondFails \/ H!RespondDropped \/ H!Explain \/ H!ExplainFails
    BY <2>3 DEF H!Respond, H!RespondFails, H!RespondDropped, H!Explain, H!ExplainFails, H!Say,
       H!Failed
  <2>4. ASSUME NEW how, H!Transcribe(how) \/ H!SpeechEnd(how) PROVE UNCHANGED refused
    BY <2>4 DEF H!Transcribe, H!Say, H!SpeechEnd, H!SpeechSend
  <2>5. CASE H!SpeechStart \/ H!SpeechChunk \/ H!SpeechDies
    BY <2>5 DEF H!SpeechStart, H!SpeechChunk, H!SpeechDies, H!SpeechSend
  <2> QED BY <1>2, <2>1, <2>2, <2>3, <2>4, <2>5 DEF HostStep, H!TaskStep
<1>3. CASE UNCHANGED h_vars
  BY <1>3 DEF h_vars
<1> QED BY <1>1, <1>2, <1>3, MacWaits

(* Every step keeps the promise.                                           *)
LEMMA RefusedStep ==
  ASSUME Together, TornInv, TimeInv, NothingRefused, [Next]_vars
  PROVE  NothingRefused'
<1>1. MacInv /\ QueueInv /\ FailedInv
  BY DEF Together
<1>2. CASE refused # "none" /\ refused # "idle"
  <2>1. UNCHANGED <<refused, acknowledged, expires>>
    BY <1>1, <1>2, RefusalStays
  <2>2. now >= expires => now' >= expires'
    BY <2>1, ClockStep DEF TimeInv
  <2>3. playback = "failed" => playback' = "failed"
    BY <1>1, FailedStays DEF failed
  <2> QED BY <1>2, <2>1, <2>2, <2>3 DEF NothingRefused
<1>3. CASE refused = "none" \/ refused = "idle"
  <2>1. CASE refused' \in {"none", "idle"}
    BY <2>1 DEF NothingRefused
  <2>2. CASE HostReads /\ handler = "reading" /\ ~H!Legal(Head(toHost))
             /\ refused' = Head(toHost).type /\ UNCHANGED <<acknowledged, expires, now, playback>>
    <3> DEFINE m == Head(toHost)
    <3>1. toHost # <<>> /\ m = toHost[1] /\ 1 \in 1..Len(toHost) /\ m # Torn
      <4>1. m = toHost[1] /\ Len(toHost) \in Nat \ {0}
        BY <2>2, TakenQueue DEF HostReads, Together, GuidedInv, EvidenceInv
      <4>2. toHost # <<>> /\ m # Torn
        BY <2>2 DEF HostReads
      <4> QED BY <4>1, <4>2
    <3>2. Fit(m) /\ m.type # "torn"
      BY <1>1, <2>2, <3>1 DEF QueueInv, TornInv
    <3> HIDE DEF m
    <3>3. \/ m.type = "cancel" /\ phase = "complete"
          \/ m.type = "ack" /\ ~(now < expires)
          \/ m.type = "capture_start" /\ speaking # None
      BY <1>1, <2>2, <3>2, FitIsLegal DEF m
    <3>4. refused' = m.type /\ UNCHANGED <<acknowledged, expires, now, playback>>
      BY <2>2 DEF m
    <3>5. CASE m.type = "cancel" /\ phase = "complete"
      <4>1. acknowledged = "r2"
        BY <1>1, <2>2, <3>5 DEF MacInv, Stages, Before
      <4> QED BY <3>4, <3>5, <4>1 DEF NothingRefused
    <3>6. CASE m.type = "ack" /\ ~(now < expires)
      <4>1. now >= expires
        BY <3>6 DEF TimeInv
      <4> QED BY <3>4, <3>6, <4>1 DEF NothingRefused
    <3>7. CASE m.type = "capture_start" /\ speaking # None
      <4>1. playback = "failed"
        BY <1>1, <2>2, <3>1, <3>7 DEF QueueInv
      <4> QED BY <3>4, <3>7, <4>1 DEF NothingRefused
    <3> QED BY <3>3, <3>5, <3>6, <3>7
  <2> QED BY <1>3, <2>1, <2>2, Refusing
<1> QED BY <1>2, <1>3

-----------------------------------------------------------------------------
(* The invariant, and where a run begins.                                  *)
RunInv == Together /\ TornInv /\ TimeInv /\ NothingRefused

(* It holds before anything was done.                                      *)
LEMMA RunBegins ==
  ASSUME Init
  PROVE  RunInv
<1>1. /\ toHost = <<>> /\ outbox = <<>> /\ received = 0 /\ task = "none" /\ state = "idle" /\ broken = TRUE
      /\ question = None /\ operatorQuestion = None /\ pc = "begin" /\ playback = "idle"
      /\ cancelled = FALSE /\ finalSpeech = FALSE /\ actions = None /\ phase = "new"
      /\ ids = <<>> /\ questionIds = <<>> /\ captures = <<>> /\ questions = 0 /\ questionId = None
      /\ speech = FALSE /\ voice = FALSE /\ speaking = None /\ handler = "reading" /\ refused = "none"
      /\ seen = {} /\ requests = {} /\ pending = None /\ spoken = {}
      /\ now = 0 /\ deadline = 0 /\ expires = 0
  BY DEF Init, D!Init, H!Init
<1>2. GuidedInv
  <2>1. ScreenInv /\ StageInv
    BY DEF Init, ScreenInv, StageInv, Voiced, Over, D!Init, D!terminal, D!TerminalStates
  <2>2. Channel /\ Turns = {} /\ Unread = {} /\ Accepted = {}
    BY <1>1 DEF Channel, Turns, Unread, Accepted
  <2>3. EvidenceInv
    BY <1>1, <2>2 DEF EvidenceInv, OneRequest, WordsInv, Synced, ReplyInv, SameEvidence
  <2> QED BY <2>1, <2>3 DEF GuidedInv
<1>3. LastIsTorn /\ TornInv
  BY <1>1 DEF LastIsTorn, TornInv
<1>4. CountInv
  BY <1>1, GuidedConstants DEF CountInv, D!count
<1>5. PlanInv /\ PlaceInv /\ SaidInv
  BY <1>1 DEF PlanInv, PlaceInv, SaidInv, Dead, Voiced, Over, D!terminal, D!TerminalStates
<1>6. MacInv
  BY <1>1, GuidedConstants DEF MacInv, Stages, Named, Before
<1>7. QueueInv
  BY <1>1 DEF QueueInv
<1>8. UnreadInv /\ FailedInv
  BY <1>1 DEF UnreadInv, FailedInv, Going, failed
<1>9. Sync
  BY <1>1 DEF Sync, Live
<1>10. TimeInv /\ NothingRefused
  BY <1>1 DEF TimeInv, NothingRefused
<1> QED BY <1>2, <1>3, <1>4, <1>5, <1>6, <1>7, <1>8, <1>9, <1>10 DEF RunInv, Together

(* The two sides stay in step, whoever steps.                              *)
LEMMA TogetherStep ==
  ASSUME Together, [Next]_vars
  PROVE  Together'
<1>1. GuidedInv'
  BY GuidedStep DEF Together
<1>2. LastIsTorn'
  BY WholeStep DEF Together
<1>3. CountInv'
  BY CountStep DEF Together
<1>4. PlanInv'
  BY PlanStep DEF Together, GuidedInv
<1>5. PlaceInv'
  BY PlaceStep DEF Together, GuidedInv
<1>6. SaidInv'
  BY SaidStep DEF Together, GuidedInv
<1>7. MacInv'
  BY MacStep DEF Together
<1>8. QueueInv'
  BY QueueStep
<1>9. UnreadInv' /\ FailedInv' /\ Sync'
  BY UnreadStep, FailedStep, SyncStep
<1> QED BY <1>1, <1>2, <1>3, <1>4, <1>5, <1>6, <1>7, <1>8, <1>9 DEF Together

(* The Mac refuses the device only where their messages cross.             *)
THEOREM RefusedOnlyWhereMessagesCross == Spec => []NothingRefused
<1>1. Init => RunInv
  BY RunBegins
<1>2. RunInv /\ [Next]_vars => RunInv'
  <2> SUFFICES ASSUME RunInv, [Next]_vars PROVE RunInv'
    OBVIOUS
  <2>1. Together' /\ NothingRefused'
    BY TogetherStep, RefusedStep DEF RunInv
  <2>2. TornInv' /\ TimeInv'
    BY TornStep, TimeStep DEF RunInv, Together
  <2> QED BY <2>1, <2>2 DEF RunInv
<1>3. RunInv => NothingRefused
  BY DEF RunInv
<1> QED BY <1>1, <1>2, <1>3, PTL DEF Spec
=============================================================================
