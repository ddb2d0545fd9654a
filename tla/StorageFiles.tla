---------------------------- MODULE StorageFiles -----------------------------
(***************************************************************************)
(* The SD card's files (storage_files.cpp) and the two tasks that write    *)
(* them under file_mutex (test_storage.cpp): the USB console, which        *)
(* replaces the Wi-Fi configuration, and the media task, which archives    *)
(* captures.                                                               *)
(*                                                                         *)
(* A call that changes the card is one step, because the power may fail,   *)
(* the device restart, or the call itself fail between any two of them.    *)
(* The card keeps what the completed calls did; a file being written is    *)
(* Torn.  A file is named by what it belongs to, its extension, and        *)
(* whether it is the ".part" under which it is written.                    *)
(***************************************************************************)
EXTENDS Naturals

CONSTANTS
  Configs,   \* the configurations that may be provisioned
  Captures,  \* the capture ids that may be archived
  Absent, Torn, Whole

Modes == {"station", "ap"}

(* settings stands for the ssid, the password and the endpoint.            *)
ASSUME StorageConstants ==
  /\ \A c \in Configs : c.mode \in Modes /\ DOMAIN c = {"settings", "mode"}
  /\ Absent \notin Configs /\ Torn \notin Configs /\ Whole \notin Configs
  /\ Absent # Torn /\ Absent # Whole /\ Torn # Whole
  /\ "wifi" \notin Captures

Current == <<"wifi", "json", "file">>
Previous == <<"wifi", "previous.json", "file">>
Replacement == <<"wifi", "next.json", "file">>
Raw(c) == <<c, "raw", "file">>
Metadata(c) == <<c, "json", "file">>
Part(f) == <<f[1], f[2], "part">>

ConfigFiles == {Current, Previous, Replacement}
(* storage_public_name(): what list_files() lists and get_file() serves.   *)
Public == Captures \X {"raw", "json"} \X {"file"}
Files == ConfigFiles \cup Public \cup {Part(Replacement)} \cup (Captures \X {"raw", "json"} \X {"part"})

Contents == Configs \cup {Absent, Torn, Whole}

VARIABLES
  card,      \* what each file holds, or Absent
  ready,     \* ready: the card was mounted at this boot
  holder,    \* which task holds file_mutex, or "none"
  step,      \* the next call of each task, "idle" between two operations
  asked,     \* what the console was last asked to provision, or Absent
  answer,    \* the storage_config event: "none" yet, "pass" or "fail"
  misread,   \* history: a read that failed hid a configuration since it was asked
  target,    \* the file of a capture the media task writes, or Absent
  archived   \* the captures whose archive was reported to have passed

console_vars == <<asked, answer, misread>>
media_vars == <<target, archived>>
storage_vars == <<card, ready, holder, step, console_vars, media_vars>>

StorageInit ==
  /\ card \in [Files -> {Absent}] /\ ready = FALSE /\ holder = "none"
  /\ step = [t \in {"console", "media"} |-> "idle"]
  /\ asked = Absent /\ answer = "none" /\ misread = FALSE
  /\ target = Absent /\ archived = {}

(* read_config_file(): what the file holds, if it is a configuration; but  *)
(* an fopen or fread that fails gives nothing (Absent), whatever it holds. *)
Reads(f) == ({card[f]} \cap Configs) \cup {Absent}

(* storage_load_config(): the previous file when the present one gives     *)
(* nothing.                                                                *)
Loads == {IF c = Absent THEN d ELSE c : c \in Reads(Current), d \in Reads(Previous)}

(* What it gives when no read fails, and what a failed read of the present *)
(* file leaves it.                                                         *)
Valid(f) == card[f] \in Configs
Loaded == IF Valid(Current) THEN card[Current] ELSE IF Valid(Previous) THEN card[Previous] ELSE Absent
Fallback == IF Valid(Current) /\ Valid(Previous) THEN card[Previous] ELSE Absent

SettingsOf(c) == c.settings
Then(t, s) == step' = [step EXCEPT ![t] = s]
Exists(f) == card[f] # Absent
Unlink(f) == card' = [card EXCEPT ![f] = Absent]
(* rename() refuses a name that exists.                                    *)
Rename(f, g) == ~Exists(g) /\ card' = [card EXCEPT ![g] = card[f], ![f] = Absent]

-----------------------------------------------------------------------------
(* storage_write_verified(f, data), after which the task goes on at s.     *)
(* The chunks, the fsync and the comparison are one step: whichever fails, *)
(* the .part is left behind.                                               *)

(* Bug: the bytes go straight to the file's own name.                      *)
BugWrite(t, f, data, s) ==
  \/ /\ step[t] = "create" /\ ~Exists(f)
     /\ card' = [card EXCEPT ![f] = Torn] /\ Then(t, "fill")
  \/ /\ step[t] = "fill"
     /\ card' = [card EXCEPT ![f] = data] /\ Then(t, s)

Write(t, f, data, s) ==
  \/ /\ step[t] = "create" /\ ~Exists(f) /\ ~Exists(Part(f))
     /\ card' = [card EXCEPT ![Part(f)] = Torn] /\ Then(t, "fill")
  \/ /\ step[t] = "fill"
     /\ card' = [card EXCEPT ![Part(f)] = data] /\ Then(t, "name")
  \/ /\ step[t] = "name"
     /\ Rename(Part(f), f) /\ Then(t, s)

-----------------------------------------------------------------------------
(* file_mutex                                                              *)

Acquire(t) == holder = "none" /\ holder' = t
Release(t) == holder' = IF holder = t THEN "none" ELSE holder

(* A call fails, or finds a name taken: the operation ends there, and what *)
(* it has done stays done.                                                 *)
Gives(t) ==
  /\ \/ step[t] \notin {"idle", "lock", "apply", "written"}
     \/ step[t] = "written" /\ target[2] = "raw"  \* no memory for the metadata
  /\ Then(t, "idle") /\ Release(t)
  /\ IF t = "console" THEN answer' = "fail" /\ UNCHANGED target
     ELSE target' = Absent /\ UNCHANGED answer
  /\ UNCHANGED <<card, ready, asked, misread, archived>>

-----------------------------------------------------------------------------
(* The console: TRICORDER_CONFIG.                                          *)

(* What does not parse is answered "fail" at once and left out.            *)
Provision(c) ==
  /\ step["console"] = "idle"
  /\ asked' = c /\ misread' = FALSE
  /\ IF ready THEN Then("console", "lock") /\ answer' = "none"
     ELSE answer' = "fail" /\ UNCHANGED step
  /\ UNCHANGED <<card, ready, holder, media_vars>>

(* Bug: a configuration that may not be the one asked for counts as saved. *)
BugSame(c, d) == d # Absent

(* The comparison leaves the mode out.                                     *)
Same(c, d) == d # Absent /\ c.settings = d.settings

Compare ==
  /\ step["console"] = "lock" /\ holder = "none"
  /\ \E c \in Loads :
       /\ misread' = (c # Loaded)
       /\ IF Same(asked, c) THEN Then("console", "apply") /\ UNCHANGED holder
          ELSE Acquire("console") /\ Then("console", "clear")
  /\ UNCHANGED <<card, ready, asked, answer, media_vars>>

(* storage_replace_config()                                                *)
ClearReplacement ==
  /\ step["console"] = "clear"
  /\ Unlink(Replacement) /\ Then("console", "clear part")
  /\ UNCHANGED <<ready, holder, console_vars, media_vars>>

ClearPart ==
  /\ step["console"] = "clear part"
  /\ Unlink(Part(Replacement)) /\ Then("console", "create")
  /\ UNCHANGED <<ready, holder, console_vars, media_vars>>

WriteReplacement ==
  /\ Write("console", Replacement, asked, "retire")
  /\ UNCHANGED <<ready, holder, console_vars, media_vars>>

(* Bug: the present file is kept as the previous one whatever it holds.    *)
BugRetire ==
  /\ step["console"] = "retire"
  /\ IF Exists(Current) THEN Unlink(Previous) /\ Then("console", "keep")
     ELSE UNCHANGED card /\ Then("console", "install")
  /\ UNCHANGED <<ready, holder, console_vars, media_vars>>

(* A present file that cannot be read is not kept but deleted, also when   *)
(* it was the read that failed.                                            *)
Retire ==
  /\ step["console"] = "retire"
  /\ \E c \in Reads(Current) :
       /\ misread' = (misread \/ (Valid(Current) /\ c = Absent))
       /\ IF c # Absent THEN Unlink(Previous) /\ Then("console", "keep")
          ELSE Unlink(Current) /\ Then("console", "install")
  /\ UNCHANGED <<ready, holder, asked, answer, media_vars>>

Keep ==
  /\ step["console"] = "keep"
  /\ Rename(Current, Previous) /\ Then("console", "install")
  /\ UNCHANGED <<ready, holder, console_vars, media_vars>>

Install ==
  /\ step["console"] = "install"
  /\ Rename(Replacement, Current)
  /\ Then("console", "apply") /\ Release("console")
  /\ UNCHANGED <<ready, console_vars, media_vars>>

(* apply_config(): the request to the network task is refused when one     *)
(* already waits; the configuration stays saved and the answer is "fail".  *)
Apply ==
  /\ step["console"] = "apply" /\ Then("console", "idle")
  /\ answer' \in {"pass", "fail"}
  /\ UNCHANGED <<card, ready, holder, asked, misread, media_vars>>

ConsoleStep ==
  \/ Compare \/ ClearReplacement \/ ClearPart \/ WriteReplacement
  \/ Retire \/ Keep \/ Install \/ Apply \/ Gives("console")

-----------------------------------------------------------------------------
(* The media task: test_storage_archive().                                 *)

Archive(c) ==
  /\ ready /\ step["media"] = "idle"
  /\ target' = Raw(c) /\ Then("media", "lock")
  /\ UNCHANGED <<card, ready, holder, console_vars, archived>>

(* Bug: the metadata goes first.                                           *)
BugMetadataFirst ==
  /\ step["media"] = "lock" /\ Acquire("media") /\ Then("media", "create")
  /\ target' = [target EXCEPT ![2] = "json"]
  /\ UNCHANGED <<card, ready, console_vars, archived>>

LockArchive ==
  /\ step["media"] = "lock" /\ Acquire("media") /\ Then("media", "create")
  /\ UNCHANGED <<card, ready, console_vars, media_vars>>

WriteArchive ==
  /\ Write("media", target, Whole, "written")
  /\ UNCHANGED <<ready, holder, console_vars, media_vars>>

(* The raw bytes first; their metadata is the commit record.               *)
Written ==
  /\ step["media"] = "written"
  /\ IF target[2] = "raw"
       THEN /\ target' = Metadata(target[1]) /\ Then("media", "create")
            /\ UNCHANGED <<holder, archived>>
       ELSE /\ archived' = archived \cup {target[1]} /\ target' = Absent
            /\ Then("media", "idle") /\ Release("media")
  /\ UNCHANGED <<card, ready, console_vars>>

MediaStep == LockArchive \/ WriteArchive \/ Written \/ Gives("media")

-----------------------------------------------------------------------------
(* The power fails, or the device restarts: what the tasks were doing is   *)
(* forgotten, what the card holds stays.                                   *)
Forget ==
  /\ ready' = FALSE /\ holder' = "none" /\ step' = [t \in {"console", "media"} |-> "idle"]
  /\ asked' = Absent /\ answer' = "none" /\ misread' = FALSE
  /\ target' = Absent
  /\ UNCHANGED <<card, archived>>

(* The card in another machine: the configuration is damaged or removed.   *)
Damage(f) ==
  /\ f \in {Current, Previous} /\ Valid(f)
  /\ \E x \in {Absent, Torn} : card' = [card EXCEPT ![f] = x]
  /\ UNCHANGED <<ready, holder, step, console_vars, media_vars>>

-----------------------------------------------------------------------------
Steps == {"idle", "lock", "clear", "clear part", "create", "fill", "name", "retire", "keep",
          "install", "apply", "written"}

StorageTypeOK ==
  /\ card \in [Files -> Contents] /\ ready \in BOOLEAN
  /\ holder \in {"none", "console", "media"}
  /\ step \in [{"console", "media"} -> Steps]
  /\ asked \in Configs \cup {Absent}
  /\ answer \in {"none", "pass", "fail"} /\ misread \in BOOLEAN
  /\ target \in Public \cup {Absent} /\ archived \subseteq Captures

(* Under the two names that are listed and served there are only whole     *)
(* files, metadata only beside its raw bytes ("Metadata is the commit      *)
(* record"), and what was reported archived stays.                         *)
CommitRecord ==
  \A c \in Captures :
    /\ card[Raw(c)] \in {Absent, Whole} /\ card[Metadata(c)] \in {Absent, Whole}
    /\ Exists(Metadata(c)) => Exists(Raw(c))
    /\ c \in archived => Exists(Metadata(c))
=============================================================================
