---------------------------- MODULE AtomicConfig -----------------------------
(***************************************************************************)
(* What provisioning over USB promises, whatever happens to the files.     *)
(*                                                                         *)
(* The configuration that the next boot would load changes at one instant, *)
(* from the old one to the one being provisioned, and the old one becomes  *)
(* the fallback; a "pass" is answered only when the settings asked for are *)
(* there.  Power may fail at any time and so may any call but one: when    *)
(* the present configuration cannot be read (misread), it may be given up  *)
(* for the fallback, or lost when there is none, and a "pass" may rest on  *)
(* the fallback.  That is the only way back.                               *)
(***************************************************************************)
CONSTANTS Configs, Settings(_), Absent

VARIABLES
  saved,     \* the configuration the next boot loads, or Absent
  fallback,  \* the one it would load without that one, or Absent
  misread,   \* a read of the configuration failed during this provisioning
  asked,     \* the configuration being provisioned or the last one, or Absent
  answer,    \* "none", "pass" or "fail"
  powered

kept == <<saved, fallback>>
asking == <<misread, asked, answer>>
vars == <<kept, asking, powered>>

Init ==
  /\ saved \in Configs \cup {Absent} /\ fallback \in Configs \cup {Absent}
  /\ misread = FALSE /\ asked = Absent /\ answer = "none" /\ ~powered

Ask ==
  /\ powered /\ (asked # Absent => answer # "none")
  /\ asked' \in Configs /\ answer' \in {"none", "fail"} /\ misread' = FALSE
  /\ UNCHANGED <<kept, powered>>

Provisioning == powered /\ asked # Absent /\ answer = "none"

(* The fallback makes room for the old configuration.                      *)
Discard ==
  /\ Provisioning
  /\ fallback' = Absent
  /\ UNCHANGED <<saved, asking, powered>>

Save ==
  /\ Provisioning
  /\ saved' = asked /\ fallback' = saved
  /\ UNCHANGED <<asking, powered>>

Misread ==
  /\ Provisioning
  /\ misread' = TRUE
  /\ UNCHANGED <<kept, asked, answer, powered>>

GiveUp ==
  /\ Provisioning
  /\ misread' = TRUE
  /\ saved' = fallback /\ fallback' = Absent
  /\ UNCHANGED <<asked, answer, powered>>

Pass ==
  /\ Provisioning
  /\ \E c \in IF misread THEN {saved, fallback} ELSE {saved} :
       c # Absent /\ Settings(c) = Settings(asked)
  /\ answer' = "pass"
  /\ UNCHANGED <<kept, misread, asked, powered>>

Fail ==
  /\ Provisioning
  /\ answer' = "fail"
  /\ UNCHANGED <<kept, misread, asked, powered>>

PowerOn == powered' = TRUE /\ UNCHANGED <<kept, asking>>

(* A restart keeps the power on; what was asked is forgotten either way.   *)
Lost ==
  /\ asked' = Absent /\ answer' = "none" /\ misread' = FALSE /\ powered' \in BOOLEAN
  /\ UNCHANGED kept

(* With the power off the card may be edited elsewhere.                    *)
Edited ==
  /\ ~powered
  /\ saved' \in Configs \cup {Absent} /\ fallback' \in Configs \cup {Absent}
  /\ UNCHANGED <<asking, powered>>

Next ==
  \/ Ask \/ Discard \/ Save \/ Misread \/ GiveUp \/ Pass \/ Fail
  \/ PowerOn \/ Lost \/ Edited

Spec == Init /\ [][Next]_vars
=============================================================================
