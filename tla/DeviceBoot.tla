----------------------------- MODULE DeviceBoot ------------------------------
(***************************************************************************)
(* A boot of the device (app_main in diagnostic.cpp) around the card of    *)
(* StorageFiles, and the series of software restarts that the operator may *)
(* start (restart_sequence.h, continue_restarts): its count lives in RTC   *)
(* memory, which esp_restart() keeps and a power cut does not.             *)
(*                                                                         *)
(* The main task boots, then becomes the media task; the console task only *)
(* exists after test_storage_init().  Any reset that is not esp_restart()  *)
(* (a brown-out, a panic) is a power cut here: resume() treats them alike. *)
(***************************************************************************)
EXTENDS StorageFiles

CONSTANT Cycles  \* the restarts of a series: 10

ASSUME BootConstants == Cycles \in Nat \ {0}

VARIABLES
  stage,     \* how far the boot has come
  series,    \* where continue_restarts() is: "none", "decide", "seal" or "wait"
  resuming,  \* resuming_restarts
  failed,    \* initialization_failed
  rtc,       \* restart_sequence; sealed: the tag, the ranges and the checksum agree
  made       \* the software restarts of the series so far

rtc_vars == <<rtc, made>>
boot_vars == <<stage, series, resuming, failed, rtc_vars>>
vars == <<storage_vars, boot_vars>>

Stages == {"off", "checks", "restarts", "init", "selftest", "load", "on"}
Sequences == [sealed : BOOLEAN, count : 0..Cycles, pending : 0..1]
Cleared == [sealed |-> FALSE, count |-> 0, pending |-> 0]

Init ==
  /\ StorageInit
  /\ stage = "off" /\ series = "none" /\ resuming = FALSE /\ failed = FALSE
  /\ rtc = Cleared /\ made = 0

-----------------------------------------------------------------------------
(* RestartSequence                                                         *)

(* Bug: any software reset continues a series.                             *)
BugResume(software) == rtc.sealed /\ software

Resumes(software) == software /\ rtc.sealed /\ rtc.pending = 1 /\ rtc.count # 0

(* Bug: what is not resumed is not cleared either.                         *)
BugResumeStale(software) ==
  /\ resuming' = Resumes(software)
  /\ rtc' = IF Resumes(software) THEN [rtc EXCEPT !.pending = 0] ELSE rtc

(* resume(), at the start of a boot.                                       *)
Resume(software) ==
  /\ resuming' = Resumes(software)
  /\ rtc' = IF Resumes(software) THEN [rtc EXCEPT !.pending = 0] ELSE Cleared

(* app_main() begins; every variable in RAM has its initial value.         *)
Boot(software) ==
  /\ Resume(software)
  /\ stage' = "checks" /\ series' = "none" /\ failed' = FALSE
  /\ Forget

PowerOn ==
  /\ stage = "off" /\ Boot(FALSE)
  /\ UNCHANGED made

(* RTC memory holds anything after this; resume() then clears it.          *)
PowerCut ==
  /\ stage # "off" /\ stage' = "off" /\ series' = "none"
  /\ rtc' = Cleared /\ made' = 0
  /\ Forget
  /\ resuming' = FALSE /\ failed' = FALSE

Edited ==
  /\ stage = "off"
  /\ \E f \in ConfigFiles : Damage(f)
  /\ UNCHANGED boot_vars

(* esp_restart()                                                           *)
SoftwareRestart == Boot(TRUE) /\ made' = IF rtc.sealed THEN made + 1 ELSE 0

(* TRICORDER_SET interrupt_archive was sent: the device restarts after a   *)
(* chunk of whatever is being saved.                                       *)
InterruptedSave ==
  /\ stage = "on"
  /\ \E t \in {"console", "media"} : step[t] = "fill"
  /\ SoftwareRestart

-----------------------------------------------------------------------------
(* The boot.  Any check may fail.                                          *)

Check ==
  /\ stage = "checks"
  /\ failed' \in BOOLEAN
  /\ stage' = IF resuming THEN "restarts" ELSE "init"
  /\ series' = IF resuming THEN "decide" ELSE "none"
  /\ UNCHANGED <<storage_vars, resuming, rtc_vars>>

(* A check of another task fails later.                                    *)
LateFailure ==
  /\ stage = "on" /\ ~failed
  /\ failed' = TRUE
  /\ UNCHANGED <<storage_vars, stage, series, resuming, rtc_vars>>

(* test_storage_init(): the directories.                                   *)
InitStorage ==
  /\ stage = "init" /\ stage' = "selftest"
  /\ ready' \in BOOLEAN
  /\ UNCHANGED <<card, holder, step, console_vars, media_vars, series, resuming,
                 failed, rtc_vars>>

(* A synthetic capture is archived; its outcome is only reported.          *)
SelfTest ==
  /\ stage = "selftest" /\ stage' = "load"
  /\ IF ready THEN \E c \in Captures : Archive(c) ELSE UNCHANGED storage_vars
  /\ UNCHANGED <<series, resuming, failed, rtc_vars>>

(* Then the network is asked to use what one of Loads is, except after a   *)
(* series, and the console and the media loop begin.  resuming_restarts is *)
(* not read again.                                                         *)
LoadSaved ==
  /\ stage = "load" /\ step["media"] = "idle"
  /\ stage' = "on" /\ resuming' = FALSE
  /\ UNCHANGED <<storage_vars, series, failed, rtc_vars>>

-----------------------------------------------------------------------------
(* The series.                                                             *)

mediaFree == stage = "on" /\ series = "none" /\ step["media"] = "idle"

(* The media task takes the command of the restart button.                 *)
StartSeries ==
  /\ mediaFree /\ series' = "decide"
  /\ rtc' = [sealed |-> TRUE, count |-> 0, pending |-> 0] /\ made' = 0
  /\ UNCHANGED <<storage_vars, stage, resuming, failed>>

(* continue_restarts() returns, to the boot or to the media loop.          *)
LeaveSeries ==
  /\ series' = "none"
  /\ stage' = IF stage = "restarts" THEN "init" ELSE stage

End ==
  /\ series = "decide" /\ (failed \/ (rtc.sealed /\ rtc.count = Cycles))
  /\ rtc' = Cleared /\ made' = 0
  /\ LeaveSeries
  /\ UNCHANGED <<storage_vars, resuming, failed>>

(* next(): the count and the mark, then the checksum over them.            *)
Count ==
  /\ series = "decide" /\ ~failed /\ rtc.sealed /\ rtc.pending = 0 /\ rtc.count < Cycles
  /\ rtc' = [sealed |-> FALSE, count |-> rtc.count + 1, pending |-> 1]
  /\ series' = "seal"
  /\ UNCHANGED <<storage_vars, stage, resuming, failed, made>>

Seal ==
  /\ series = "seal" /\ series' = "wait"
  /\ rtc' = [rtc EXCEPT !.sealed = TRUE]
  /\ UNCHANGED <<storage_vars, stage, resuming, failed, made>>

(* Two seconds later.                                                      *)
Restart == series = "wait" /\ SoftwareRestart

Series == End \/ Count \/ Seal \/ Restart

-----------------------------------------------------------------------------
(* The tasks of StorageFiles, while they exist.                            *)

Ask ==
  /\ stage = "on" /\ \E c \in Configs : Provision(c)
  /\ UNCHANGED boot_vars

Save ==
  /\ mediaFree /\ \E c \in Captures : Archive(c)
  /\ UNCHANGED boot_vars

Storage == (ConsoleStep \/ MediaStep) /\ UNCHANGED boot_vars

Next ==
  \/ PowerOn \/ PowerCut \/ Edited \/ InterruptedSave \/ Check \/ LateFailure
  \/ InitStorage \/ SelfTest \/ LoadSaved \/ StartSeries \/ Series
  \/ Ask \/ Save \/ Storage

Spec == Init /\ [][Next]_vars

(* Nobody need switch the device on, start a series or provision; a task   *)
(* that has begun something goes on.                                       *)
FairSpec ==
  /\ Spec
  /\ WF_vars(Check \/ InitStorage \/ SelfTest \/ LoadSaved)
  /\ WF_vars(Series)
  /\ WF_vars(Storage)

-----------------------------------------------------------------------------
(* Every variable has its type.                                            *)
TypeOK ==
  /\ StorageTypeOK
  /\ stage \in Stages /\ series \in {"none", "decide", "seal", "wait"}
  /\ resuming \in BOOLEAN /\ failed \in BOOLEAN
  /\ rtc \in Sequences /\ made \in Nat

(* The count in RTC memory is the number of restarts made or asked for, so *)
(* that a series ends well only after exactly Cycles of them, whoever else *)
(* restarts the device or cuts its power, and never makes more.            *)
CountIsExact ==
  /\ rtc.sealed => rtc.count = made + rtc.pending
  /\ made <= Cycles

(* The device does not restart for ever ("a bounded diagnostic sequence,   *)
(* never a recovery/reboot watchdog", restart_sequence.h).                 *)
SeriesEnds == series # "none" ~> series = "none" /\ ~rtc.sealed

(* Replacing wifi.json through its two other files is one atomic change of *)
(* what the next boot loads, whenever the power is cut and whatever call   *)
(* fails, a read excepted; the old configuration stays behind the new one, *)
(* and "pass" is answered only when the settings asked for are there.      *)
(* When a read of a valid wifi.json fails, no more than this can go wrong: *)
(* the old configuration gives way to the one before it, or to none, and   *)
(* stays away if the new one is not installed after all; or "pass" is      *)
(* answered because the one before has the settings asked for.             *)
A == INSTANCE AtomicConfig WITH
       saved <- Loaded, fallback <- Fallback, powered <- (stage # "off"), Settings <- SettingsOf

ConfigIsAtomic == A!Spec

(* tools/ops_tasks.py takes "pass" to mean that the configuration was      *)
(* saved: what was asked for is what the next boot will use.  No read need *)
(* fail for it to be wrong.                                                *)
PassMeansSaved == answer = "pass" /\ ~misread => Loaded = asked
=============================================================================
