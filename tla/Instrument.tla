----------------------------- MODULE Instrument ------------------------------
(***************************************************************************)
(* A listening instrument: the Sound screen and its analysis (sound.cpp),  *)
(* and the media task of diagnostic.cpp that runs what it asks for.        *)
(* motion.cpp is the same program over the IMU.                            *)
(*                                                                         *)
(* Two tasks: LVGL callbacks (taps and the draw timer) run one at a time   *)
(* under the display lock; the media task takes one command at a time from *)
(* a queue of capacity one and never holds the lock across a wait.  They   *)
(* share atomics only, so each access of the media task is a step.         *)
(*                                                                         *)
(* Commands of other screens and of the serial port are "other".  The      *)
(* drawing, the telemetry and what the analysis computes are left out.     *)
(* The display lock is taken to be granted within its one-second limit.    *)
(***************************************************************************)
EXTENDS Naturals, Sequences

VARIABLES
  screen,        \* the panel in front: "home", "listen" or "analysis"
  listenButton, explainButton,   \* not LV_STATE_DISABLED
  shown,         \* analysis_shown
  stop,          \* stop
  requested,     \* analysis_requested
  analysis,      \* analysis_state
  explaining,    \* explaining
  stopSpeech,    \* stop_speech of investigation.cpp
  queue,         \* media_commands: the command waiting for the media task
  media,         \* what the media task is doing
  recorded,      \* it recorded enough to analyze
  silenced       \* the person asked the voice of this explanation to stop

ui_vars == <<screen, listenButton, explainButton, shown>>
media_vars == <<media, recorded>>
screen_vars == <<ui_vars, stop, requested, analysis, explaining, stopSpeech, queue, media_vars, silenced>>

ScreenInit ==
  /\ screen = "home" /\ listenButton = TRUE /\ explainButton = FALSE /\ shown = FALSE
  /\ stop = TRUE /\ requested = FALSE /\ analysis = "idle"
  /\ explaining = FALSE /\ stopSpeech = FALSE
  /\ queue = <<>> /\ media = "idle" /\ recorded = FALSE /\ silenced = FALSE

-----------------------------------------------------------------------------
(* xQueueSend(..., 0): with a command already waiting, only a log line.    *)
SendMedia(command) == queue' = IF queue = <<>> THEN <<command>> ELSE queue

InvestigationStopSpeech == stopSpeech' = TRUE /\ silenced' = explaining

-----------------------------------------------------------------------------
(* Taps.                                                                   *)

(* sound_ui_open(), from the home tile and from Listen again.              *)
Listen ==
  /\ screen' = "listen" /\ stop' = FALSE
  /\ SendMedia("listen")

Open ==
  /\ screen = "home"
  /\ Listen
  /\ UNCHANGED <<listenButton, explainButton, shown, requested, analysis,
                 explaining, stopSpeech, media_vars, silenced>>

(* Bug: Home leaves the listening loop to the next session.                *)
BugBackListens ==
  /\ screen = "listen" /\ screen' = "home"
  /\ UNCHANGED <<stop, listenButton, explainButton, shown, requested, analysis,
                 explaining, stopSpeech, queue, media_vars, silenced>>

Back ==
  /\ screen = "listen" /\ screen' = "home"
  /\ stop' = TRUE
  /\ UNCHANGED <<listenButton, explainButton, shown, requested, analysis,
                 explaining, stopSpeech, queue, media_vars, silenced>>

(* Bug: the state of the previous analysis stays until the next is ready.  *)
BugStateKept ==
  /\ screen = "listen"
  /\ screen' = "analysis"
  /\ shown' = FALSE /\ requested' = TRUE /\ stop' = TRUE
  /\ listenButton' = FALSE /\ explainButton' = FALSE
  /\ UNCHANGED <<analysis, explaining, stopSpeech, queue, media_vars, silenced>>

AnalysisClicked ==
  /\ screen = "listen"
  /\ screen' = "analysis"
  /\ shown' = FALSE /\ analysis' = "pending" /\ requested' = TRUE /\ stop' = TRUE
  /\ listenButton' = FALSE /\ explainButton' = FALSE
  /\ UNCHANGED <<explaining, stopSpeech, queue, media_vars, silenced>>

ListenAgain ==
  /\ screen = "analysis" /\ listenButton
  /\ InvestigationStopSpeech
  /\ Listen
  /\ UNCHANGED <<listenButton, explainButton, shown, requested, analysis,
                 explaining, media_vars>>

AnalysisHome ==
  /\ screen = "analysis" /\ screen' = "home"
  /\ InvestigationStopSpeech
  /\ UNCHANGED <<listenButton, explainButton, shown, stop, requested, analysis,
                 explaining, queue, media_vars>>

(* The same button starts the explanation and stops its voice.             *)
ExplainClicked ==
  /\ screen = "analysis" /\ explainButton
  /\ \/ /\ explaining
        /\ InvestigationStopSpeech
        /\ UNCHANGED <<listenButton, explaining, queue>>
     \/ /\ ~explaining
        /\ explaining' = TRUE
        /\ listenButton' = FALSE
        /\ SendMedia("explain")
        /\ silenced' = FALSE /\ UNCHANGED stopSpeech
  /\ UNCHANGED <<screen, explainButton, shown, stop, requested, analysis, media_vars>>

(* The draw timer: draw_analysis() and show_analysis().                    *)
Draw ==
  /\ screen = "analysis" /\ ~shown /\ analysis \in {"ready", "too_short"}
  /\ shown' = TRUE
  /\ listenButton' = TRUE
  /\ explainButton' = (explainButton \/ analysis = "ready")
  /\ UNCHANGED <<screen, stop, requested, analysis, explaining, stopSpeech, queue,
                 media_vars, silenced>>

(* Another screen, the serial port or the power trial asks for something.  *)
Other ==
  /\ queue = <<>> /\ SendMedia("other")
  /\ UNCHANGED <<ui_vars, stop, requested, analysis, explaining, stopSpeech, media_vars, silenced>>

-----------------------------------------------------------------------------
(* The media task.                                                         *)

Take ==
  /\ media = "idle" /\ queue # <<>>
  /\ media' = Head(queue) /\ queue' = Tail(queue) /\ recorded' = FALSE
  /\ UNCHANGED <<ui_vars, stop, requested, analysis, explaining, stopSpeech,
                 silenced>>

OtherDone ==
  /\ media = "other" /\ media' = "idle"
  /\ UNCHANGED <<ui_vars, stop, requested, analysis, explaining, stopSpeech, queue, recorded, silenced>>

(* sound_run(): warm-up and recording, until stop or a codec failure.      *)
Record ==
  /\ media = "listen" /\ ~stop /\ ~recorded
  /\ recorded' = TRUE
  /\ UNCHANGED <<ui_vars, stop, requested, analysis, explaining, stopSpeech, queue, media, silenced>>

Leave ==
  /\ media = "listen" /\ media' = "closing"
  /\ UNCHANGED <<ui_vars, stop, requested, analysis, explaining, stopSpeech, queue, recorded, silenced>>

Stopped == stop /\ Leave
CodecFails == Leave

(* analysis_requested.exchange(false)                                      *)
Exchange ==
  /\ media = "closing"
  /\ requested' = FALSE
  /\ media' = (IF requested THEN "analyze" ELSE "idle")
  /\ UNCHANGED <<ui_vars, stop, analysis, explaining, stopSpeech, queue, recorded, silenced>>

(* analyze_session() ends; with too little recorded it wrote nothing.      *)
Analyzed ==
  /\ media = "analyze" /\ media' = "idle"
  /\ analysis' = IF recorded THEN "ready" ELSE "too_short"
  /\ UNCHANGED <<ui_vars, stop, requested, explaining, stopSpeech, queue, recorded,
                 silenced>>

(* sound_explain(): nothing to explain, or investigation_explain_analysis, *)
(* whose first act is to forget earlier stops.                             *)
ExplainStart ==
  /\ media = "explain"
  /\ IF analysis = "ready" THEN media' = "ask" /\ stopSpeech' = FALSE
                           ELSE media' = "answered" /\ UNCHANGED stopSpeech
  /\ UNCHANGED <<ui_vars, stop, requested, analysis, explaining, queue, recorded,
                 silenced>>

(* The reading comes and is spoken, comes without a voice, or never comes. *)
Ask ==
  /\ media = "ask" /\ media' \in {"speak", "answered"}
  /\ UNCHANGED <<ui_vars, stop, requested, analysis, explaining, stopSpeech, queue, recorded, silenced>>

(* speak() returns: at the end of the reply, or once it sees the stop.     *)
Spoken ==
  /\ media = "speak" /\ media' = "answered"
  /\ UNCHANGED <<ui_vars, stop, requested, analysis, explaining, stopSpeech, queue, recorded, silenced>>

Answered ==
  /\ media = "answered" /\ media' = "restore"
  /\ explaining' = FALSE
  /\ UNCHANGED <<ui_vars, stop, requested, analysis, stopSpeech, queue, recorded,
                 silenced>>

(* restore_buttons(), whatever the screen shows by now.                    *)
RestoreButtons ==
  /\ media = "restore" /\ media' = "idle"
  /\ listenButton' = TRUE /\ explainButton' = TRUE
  /\ UNCHANGED <<screen, shown, stop, requested, analysis, explaining, stopSpeech,
                 queue, recorded, silenced>>

MediaStep ==
  \/ Take \/ OtherDone \/ Stopped \/ Exchange \/ Analyzed
  \/ ExplainStart \/ Ask \/ Spoken \/ Answered \/ RestoreButtons

ScreenNext ==
  \/ Open \/ Back \/ AnalysisClicked \/ ListenAgain \/ AnalysisHome \/ ExplainClicked
  \/ Draw \/ Other
  \/ MediaStep \/ Record \/ CodecFails

ScreenSpec == ScreenInit /\ [][ScreenNext]_screen_vars

(* The media task's calls all return (ExplainSession), and LVGL's timer    *)
(* runs.  Nothing makes the person tap or the codec fail.                  *)
FairScreenSpec == ScreenSpec /\ WF_screen_vars(MediaStep) /\ WF_screen_vars(Draw)

-----------------------------------------------------------------------------
(* "The media owner writes result and strip, then sets analysis_state; the *)
(* LVGL timer reads them only after that": the timer never draws from a    *)
(* result the media task is writing, whatever requests are left over.      *)
ReaderNeverMeetsWriter ==
  media = "analyze" /\ recorded => ~(screen = "analysis" /\ ~shown /\ analysis = "ready")

(* Leaving for Home ends the listening, even if a command was still        *)
(* waiting or the media task was busy: the microphone does not stay open   *)
(* on a screen that does not show it.                                      *)
HomeIsDeaf == (screen = "home" /\ media = "listen") ~> (screen # "home" \/ media # "listen")

(* An explanation the screen says is under way is one the media task has   *)
(* been given ("while the agent answers or speaks, the button stops the    *)
(* voice", sound.cpp:155).                                                 *)
ExplainingIsTheAgent ==
  explaining => queue = <<"explain">> \/ media \in {"explain", "ask", "speak", "answered"}

(* The same comment, of the voice: once the person asked for silence, the  *)
(* explanation is not spoken with the wish forgotten.                      *)
StopVoiceStops == media = "speak" /\ silenced => stopSpeech
=============================================================================
