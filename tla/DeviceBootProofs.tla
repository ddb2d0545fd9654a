-------------------------- MODULE DeviceBootProofs ---------------------------
(***************************************************************************)
(* The card, the boot and the restart series, for any configurations,      *)
(* captures and length of a series.                                        *)
(***************************************************************************)
EXTENDS DeviceBoot, TLAPS

(* The boot and the series speak of their own variables only.  A series    *)
(* runs at the end of the checks or in the media loop; what the boot goes  *)
(* on with is not sealed; the media loop, which another restart may cut    *)
(* short, seals nothing before its first count.                            *)
BootTypeOK ==
  /\ stage \in Stages /\ series \in {"none", "decide", "seal", "wait"}
  /\ resuming \in BOOLEAN /\ failed \in BOOLEAN
  /\ rtc \in Sequences /\ made \in Nat

SeriesInv ==
  /\ stage \in {"off", "checks", "init", "selftest", "load"} => series = "none"
  /\ stage \in {"init", "selftest", "load"} => ~rtc.sealed
  /\ stage = "checks" /\ ~resuming => ~rtc.sealed
  /\ series \in {"seal", "wait"} => rtc.pending = 1 /\ rtc.count = made + 1
  /\ stage = "on" /\ rtc.sealed /\ rtc.pending = 0 => rtc.count = 0
  /\ CountIsExact

BootInv == BootTypeOK /\ SeriesInv

ConfigSide == ConfigFiles \cup {Part(Replacement)}

(* The media task: what it has written of a capture when it renames it,    *)
(* and that it turns to the metadata when the raw bytes have their name.   *)
MediaInv ==
  /\ step["media"] \in {"idle", "lock", "create", "fill", "name", "written"}
  /\ step["media"] # "idle" => target \in Public
  /\ step["media"] = "lock" => target[2] = "raw"
  /\ step["media"] = "name" => card[Part(target)] = Whole
  /\ step["media"] = "written" => card[target] = Whole
  /\ step["media"] # "idle" /\ target[2] = "json" => card[Raw(target[1])] = Whole

(* Where a "pass" may have found the settings: a failed read hides the     *)
(* present configuration.                                                  *)
Seen == IF misread THEN {Loaded, Fallback} ELSE {Loaded}

(* The console: what the files of the configuration hold at each of its    *)
(* calls.                                                                  *)
ConsoleInv ==
  /\ step["console"] \in Steps \ {"written"}
  /\ step["console"] # "idle" => stage # "off" /\ asked \in Configs /\ answer = "none"
  /\ step["console"] = "idle" /\ asked # Absent => answer # "none"
  /\ step["console"] = "name" => card[Part(Replacement)] = asked
  /\ step["console"] \in {"retire", "keep", "install"} => card[Replacement] = asked
  /\ step["console"] = "keep" => card[Current] \in Configs /\ card[Previous] = Absent
  /\ step["console"] = "install" => card[Current] = Absent
  /\ step["console"] = "lock" => ~misread
  /\ step["console"] = "apply" => \E c \in Seen : c # Absent /\ c.settings = asked.settings

StorageInv == StorageTypeOK /\ MediaInv /\ ConsoleInv /\ CommitRecord

IInv == BootInv /\ StorageInv

-----------------------------------------------------------------------------
(* What clear() and the assignments to a member leave.                     *)
LEMMA Nothing ==
  Cleared \in Sequences /\ ~Cleared.sealed /\ Cleared.count = 0 /\ Cleared.pending = 0
<1>1. 0 \in 0..Cycles /\ 0 \in 0..1
  BY BootConstants
<1> QED BY <1>1 DEF Cleared, Sequences

LEMMA Members ==
  ASSUME NEW r \in Sequences
  PROVE  /\ r.sealed \in BOOLEAN /\ r.count \in 0..Cycles /\ r.pending \in 0..1
         /\ LET q == [r EXCEPT !.pending = 0] IN
              q \in Sequences /\ q.sealed = r.sealed /\ q.count = r.count /\ q.pending = 0
         /\ LET q == [r EXCEPT !.sealed = TRUE] IN
              q \in Sequences /\ q.sealed /\ q.count = r.count /\ q.pending = r.pending
<1>1. 0 \in 0..1
  OBVIOUS
<1> QED BY <1>1 DEF Sequences

LEMMA BootInit == Init => BootInv
<1>1. Init => BootTypeOK
  <2> SUFFICES ASSUME Init PROVE BootTypeOK
    OBVIOUS
  <2>1. rtc \in Sequences /\ made \in Nat
    BY Nothing DEF Init
  <2> QED BY <2>1, Zenon DEF Init, BootTypeOK, Stages
<1>2. Init => SeriesInv
  BY BootConstants, Nothing DEF Init, SeriesInv, CountIsExact
<1> QED BY <1>1, <1>2 DEF BootInv

LEMMA TypeStep ==
  ASSUME BootInv, [Next]_vars
  PROVE  BootTypeOK'
<1> USE DEF BootInv, BootTypeOK, Stages
<1>1. ASSUME NEW software \in BOOLEAN, Boot(software)
      PROVE  stage' \in Stages /\ series' \in {"none", "decide", "seal", "wait"}
             /\ resuming' \in BOOLEAN /\ failed' \in BOOLEAN /\ rtc' \in Sequences
  BY <1>1, Nothing, Members DEF Boot, Resume, Resumes
<1>2. CASE PowerOn
  BY <1>2, <1>1 DEF PowerOn
<1>3. CASE PowerCut
  BY <1>3, Nothing DEF PowerCut
<1>4. CASE Edited \/ LateFailure \/ InitStorage \/ SelfTest \/ LoadSaved \/ Ask \/ Save \/ Storage
           \/ UNCHANGED vars
  BY <1>4 DEF Edited, LateFailure, InitStorage, SelfTest, LoadSaved, Ask, Save, Storage, vars,
              boot_vars, rtc_vars
<1>5. CASE InterruptedSave \/ Restart
  <2>1. made' \in Nat
    <3>1. made' = made + 1 \/ made' = 0
      BY <1>5, Zenon DEF InterruptedSave, Restart, SoftwareRestart
    <3> QED BY <3>1
  <2> QED BY <1>5, <1>1, <2>1, Zenon DEF InterruptedSave, Restart, SoftwareRestart
<1>6. CASE Check
  BY <1>6 DEF Check, rtc_vars
<1>7. CASE StartSeries
  <2>1. rtc' \in Sequences
    BY <1>7, BootConstants DEF StartSeries, Sequences
  <2> QED BY <1>7, <2>1 DEF StartSeries
<1>8. CASE End
  BY <1>8, Nothing DEF End, LeaveSeries
<1>9. CASE Count
  <2>1. rtc.count + 1 \in 0..Cycles
    <3>1. rtc.count \in 0..Cycles /\ rtc.count < Cycles
      BY <1>9, Members, Zenon DEF Count
    <3> QED BY <3>1, BootConstants
  <2>2. rtc' \in Sequences
    BY <1>9, <2>1 DEF Count, Sequences
  <2> QED BY <1>9, <2>2, Zenon DEF Count
<1>10. CASE Seal
  BY <1>10, Members DEF Seal
<1> QED BY <1>2, <1>3, <1>4, <1>5, <1>6, <1>7, <1>8, <1>9, <1>10 DEF Next, Series

LEMMA SeriesStep ==
  ASSUME BootInv, [Next]_vars
  PROVE  SeriesInv'
<1> USE BootConstants DEF BootInv, BootTypeOK, SeriesInv, CountIsExact
<1>1. CASE PowerOn
  BY <1>1, Nothing DEF PowerOn, Boot, Resume, Resumes
<1>2. CASE PowerCut
  BY <1>2, Nothing DEF PowerCut
<1>3. CASE Edited \/ SelfTest \/ LoadSaved \/ Ask \/ Save \/ Storage \/ UNCHANGED vars
  BY <1>3 DEF Edited, SelfTest, LoadSaved, Ask, Save, Storage, vars, boot_vars, rtc_vars
<1>4. CASE LateFailure \/ InitStorage
  BY <1>4 DEF LateFailure, InitStorage, rtc_vars
<1>5. CASE InterruptedSave \/ Restart
  <2>1. SoftwareRestart /\ (stage = "on" \/ series = "wait")
    BY <1>5 DEF InterruptedSave, Restart
  <2>2. CASE Resumes(TRUE)
    <3>1. /\ rtc.sealed /\ rtc.pending = 1 /\ rtc.count \in 0..Cycles
          /\ made' = made + 1 /\ stage' = "checks" /\ series' = "none" /\ resuming'
          /\ rtc' = [rtc EXCEPT !.pending = 0]
      BY <2>1, <2>2, Members, Zenon DEF SoftwareRestart, Boot, Resume, Resumes
    <3>2. rtc'.sealed /\ rtc'.pending = 0 /\ rtc'.count = rtc.count
      BY <3>1, Members
    <3> QED BY <3>1, <3>2
  <2>3. CASE ~Resumes(TRUE)
    <3>1. rtc' = Cleared /\ stage' = "checks" /\ series' = "none"
      BY <2>1, <2>3 DEF SoftwareRestart, Boot, Resume
    <3>2. made' \in Nat /\ made' <= Cycles
      <4>1. CASE ~rtc.sealed
        BY <2>1, <4>1 DEF SoftwareRestart
      <4>2. CASE rtc.sealed
        <5>1. made' = made + 1 /\ rtc.pending \in 0..1 /\ rtc.count \in 0..Cycles
          BY <2>1, <4>2, Members, Zenon DEF SoftwareRestart
        <5>2. rtc.pending # 1 \/ rtc.count = 0
          BY <2>3, <4>2, Zenon DEF Resumes
        <5> QED BY <2>1, <4>2, <5>1, <5>2
      <4> QED BY <4>1, <4>2
    <3> QED BY <3>1, <3>2, Nothing
  <2> QED BY <2>2, <2>3
<1>6. CASE Check
  BY <1>6 DEF Check, rtc_vars
<1>7. CASE StartSeries
  <2>1. rtc'.count = 0 /\ rtc'.pending = 0 /\ made' = 0 /\ series' = "decide" /\ stage' = "on"
    BY <1>7 DEF StartSeries, mediaFree
  <2> QED BY <2>1
<1>8. CASE End
  BY <1>8, Nothing DEF End, LeaveSeries
<1>9. CASE Count
  BY <1>9, Members DEF Count
<1>10. CASE Seal
  BY <1>10, Members DEF Seal
<1> QED BY <1>1, <1>2, <1>3, <1>4, <1>5, <1>6, <1>7, <1>8, <1>9, <1>10 DEF Next, Series

-----------------------------------------------------------------------------
(* The files: those of the configuration, those of the captures.           *)
LEMMA ConfigNames ==
  /\ Current \in Files /\ Previous \in Files /\ Replacement \in Files /\ Part(Replacement) \in Files
  /\ Current # Previous /\ Current # Replacement /\ Current # Part(Replacement)
  /\ Previous # Replacement /\ Previous # Part(Replacement) /\ Replacement # Part(Replacement)
  BY DEF Files, ConfigFiles, Current, Previous, Replacement, Part

LEMMA CaptureNames ==
  ASSUME NEW f \in Public
  PROVE  /\ f \in Files /\ Part(f) \in Files
         /\ f \notin ConfigSide /\ Part(f) \notin ConfigSide
         /\ f[1] \in Captures /\ f[2] \in {"raw", "json"}
         /\ f[2] = "raw" => f = Raw(f[1])
         /\ f[2] = "json" => f = Metadata(f[1])
         /\ \A g \in Public : g # Part(f)
<1>1. PICK c \in Captures, x \in {"raw", "json"} : f = <<c, x, "file">>
  BY DEF Public
<1>2. Part(f) = <<c, x, "part">>
  BY <1>1 DEF Part
<1>3. f \in Files /\ Part(f) \in Files
  BY <1>1, <1>2 DEF Files, Public
<1>4. c # "wifi"
  BY StorageConstants
<1>5. f \notin ConfigSide /\ Part(f) \notin ConfigSide
  BY <1>1, <1>2, <1>4 DEF ConfigSide, ConfigFiles, Current, Previous, Replacement, Part
<1>6. \A g \in Public : g # Part(f)
  BY <1>2 DEF Public
<1> QED BY <1>1, <1>3, <1>5, <1>6 DEF Raw, Metadata

LEMMA PublicNames ==
  ASSUME NEW c \in Captures
  PROVE  /\ Raw(c) \in Public /\ Metadata(c) \in Public
         /\ Raw(c)[1] = c /\ Raw(c)[2] = "raw"
         /\ Metadata(c)[1] = c /\ Metadata(c)[2] = "json"
  BY DEF Raw, Metadata, Public

(* A task goes on; a file is stored; a file is renamed.                    *)
LEMMA Stepping ==
  ASSUME StorageTypeOK, NEW t \in {"console", "media"}, NEW s \in Steps, Then(t, s)
  PROVE  /\ step' \in [{"console", "media"} -> Steps] /\ step'[t] = s
         /\ \A u \in {"console", "media"} : u # t => step'[u] = step[u]
  BY DEF StorageTypeOK, Then

LEMMA Storing ==
  ASSUME StorageTypeOK, NEW f \in Files, NEW x \in Contents, card' = [card EXCEPT ![f] = x]
  PROVE  /\ card' \in [Files -> Contents] /\ card'[f] = x
         /\ \A g \in Files : g # f => card'[g] = card[g]
  BY DEF StorageTypeOK

LEMMA Renaming ==
  ASSUME StorageTypeOK, NEW f \in Files, NEW g \in Files, f # g, Rename(f, g)
  PROVE  /\ card[g] = Absent
         /\ card' \in [Files -> Contents] /\ card'[g] = card[f] /\ card'[f] = Absent
         /\ \A h \in Files : h # f /\ h # g => card'[h] = card[h]
  BY DEF StorageTypeOK, Rename, Exists, Contents

(* The three calls of a verified write.                                    *)
LEMMA Writing ==
  ASSUME StorageTypeOK, NEW t \in {"console", "media"}, NEW f \in Files, Part(f) \in Files,
         f # Part(f), NEW data \in Contents, NEW s \in Steps, Write(t, f, data, s)
  PROVE  /\ card' \in [Files -> Contents] /\ step' \in [{"console", "media"} -> Steps]
         /\ \A u \in {"console", "media"} : u # t => step'[u] = step[u]
         /\ \A g \in Files : g # f /\ g # Part(f) => card'[g] = card[g]
         /\ \/ step[t] = "create" /\ step'[t] = "fill" /\ card'[f] = card[f]
            \/ step[t] = "fill" /\ step'[t] = "name" /\ card'[Part(f)] = data /\ card'[f] = card[f]
            \/ step[t] = "name" /\ step'[t] = s /\ card[f] = Absent /\ card'[f] = card[Part(f)]
<1>1. CASE step[t] = "create" /\ Write(t, f, data, s)
  <2>1. card' = [card EXCEPT ![Part(f)] = Torn] /\ Then(t, "fill")
    BY <1>1 DEF Write
  <2> QED BY <1>1, <2>1, Storing, Stepping DEF Contents, Steps
<1>2. CASE step[t] = "fill" /\ Write(t, f, data, s)
  <2>1. card' = [card EXCEPT ![Part(f)] = data] /\ Then(t, "name")
    BY <1>2 DEF Write
  <2> QED BY <1>2, <2>1, Storing, Stepping DEF Steps
<1>3. CASE step[t] = "name" /\ Write(t, f, data, s)
  <2>1. Rename(Part(f), f) /\ Then(t, s)
    BY <1>3 DEF Write
  <2> QED BY <1>3, <2>1, Renaming, Stepping
<1> QED BY <1>1, <1>2, <1>3 DEF Write

-----------------------------------------------------------------------------
(* What one task does is not felt by the other: they write other files.    *)
LEMMA MediaKept ==
  ASSUME MediaInv, CommitRecord, step'["media"] = step["media"], UNCHANGED media_vars,
         \A f \in Public : card'[f] = card[f] /\ card'[Part(f)] = card[Part(f)]
  PROVE  MediaInv' /\ CommitRecord'
<1> USE DEF media_vars
<1>1. CommitRecord'
  BY PublicNames DEF CommitRecord, Exists
<1>2. MediaInv'
  <2>1. CASE step["media"] = "idle"
    BY <2>1 DEF MediaInv
  <2>2. CASE step["media"] # "idle"
    <3>1. target \in Public /\ Raw(target[1]) \in Public
      BY <2>2, CaptureNames, PublicNames DEF MediaInv
    <3> QED BY <2>2, <3>1 DEF MediaInv
  <2> QED BY <2>1, <2>2
<1> QED BY <1>1, <1>2

LEMMA ConsoleKept ==
  ASSUME ConsoleInv, step'["console"] = step["console"], UNCHANGED console_vars,
         stage # "off" => stage' # "off",
         \A f \in ConfigSide : card'[f] = card[f]
  PROVE  ConsoleInv' /\ Loaded' = Loaded /\ Fallback' = Fallback
<1>1. /\ card'[Current] = card[Current] /\ card'[Previous] = card[Previous]
      /\ card'[Replacement] = card[Replacement]
      /\ card'[Part(Replacement)] = card[Part(Replacement)]
  BY DEF ConfigSide, ConfigFiles
<1>2. Loaded' = Loaded /\ Fallback' = Fallback
  BY <1>1 DEF Loaded, Fallback, Valid
<1> QED BY <1>1, <1>2 DEF ConsoleInv, console_vars, Seen

LEMMA Forgotten ==
  ASSUME StorageInv, Forget
  PROVE  StorageInv' /\ Loaded' = Loaded /\ Fallback' = Fallback /\ asked' = Absent /\ answer' = "none"
         /\ misread' = FALSE
<1>1. step' = [t \in {"console", "media"} |-> "idle"] /\ step'["media"] = "idle"
      /\ step'["console"] = "idle"
  BY DEF Forget
<1>2. StorageTypeOK'
  BY <1>1 DEF Forget, StorageInv, StorageTypeOK, Steps
<1>3. CommitRecord' /\ Loaded' = Loaded /\ Fallback' = Fallback
  BY DEF Forget, StorageInv, CommitRecord, Exists, Loaded, Fallback, Valid
<1>4. MediaInv'
  BY <1>1 DEF MediaInv
<1>5. ConsoleInv'
  BY <1>1 DEF Forget, ConsoleInv, Steps
<1> QED BY <1>2, <1>3, <1>4, <1>5 DEF StorageInv, Forget

LEMMA StorageStarts == Init => StorageInv /\ Loaded = Absent /\ Fallback = Absent
<1> SUFFICES ASSUME Init PROVE StorageInv /\ Loaded = Absent /\ Fallback = Absent
  OBVIOUS
<1> USE DEF Init, StorageInit
<1>1. step \in [{"console", "media"} -> Steps] /\ step["media"] = "idle" /\ step["console"] = "idle"
  BY DEF Steps
<1>2. card \in [Files -> Contents] /\ \A f \in Files : card[f] = Absent
  BY DEF Contents
<1>3. StorageTypeOK
  BY <1>1, <1>2 DEF StorageTypeOK
<1>4. Loaded = Absent /\ Fallback = Absent
  BY <1>2, ConfigNames, StorageConstants DEF Loaded, Fallback, Valid
<1>5. MediaInv /\ ConsoleInv
  BY <1>1 DEF MediaInv, ConsoleInv, Steps
<1>6. CommitRecord
  BY <1>2, PublicNames, CaptureNames DEF CommitRecord, Exists
<1> QED BY <1>3, <1>4, <1>5, <1>6 DEF StorageInv

-----------------------------------------------------------------------------
(* The media task.                                                         *)
LEMMA MediaStepKeeps ==
  ASSUME StorageInv, MediaStep
  PROVE  /\ StorageTypeOK' /\ MediaInv' /\ CommitRecord'
         /\ step'["console"] = step["console"] /\ UNCHANGED console_vars
         /\ \A f \in ConfigSide : card'[f] = card[f]
<1> USE DEF StorageInv, media_vars, console_vars
<1>1. CASE LockArchive
  <2>1. Then("media", "create") /\ step["media"] = "lock" /\ UNCHANGED <<card, target, archived>>
    BY <1>1 DEF LockArchive
  <2>2. /\ step' \in [{"console", "media"} -> Steps] /\ step'["media"] = "create"
        /\ step'["console"] = step["console"]
    BY <2>1, Stepping DEF Steps
  <2>3. StorageTypeOK'
    BY <1>1, <2>2 DEF LockArchive, Acquire, StorageTypeOK
  <2>4. MediaInv' /\ CommitRecord'
    BY <2>1, <2>2 DEF MediaInv, CommitRecord, Exists
  <2> QED BY <1>1, <2>2, <2>3, <2>4 DEF LockArchive
<1>2. CASE WriteArchive
  <2>1. Write("media", target, Whole, "written") /\ UNCHANGED <<target, archived>>
        /\ step["media"] # "idle"
    BY <1>2 DEF WriteArchive, Write
  <2>2. target \in Public
    BY <2>1 DEF MediaInv
  <2>3. /\ target \in Files /\ Part(target) \in Files /\ target # Part(target)
        /\ target \notin ConfigSide /\ Part(target) \notin ConfigSide
        /\ \A g \in Public : g # Part(target)
    BY <2>2, CaptureNames
  <2>4. /\ card' \in [Files -> Contents] /\ step' \in [{"console", "media"} -> Steps]
        /\ step'["console"] = step["console"]
        /\ \A g \in Files : g # target /\ g # Part(target) => card'[g] = card[g]
        /\ \/ step["media"] = "create" /\ step'["media"] = "fill" /\ card'[target] = card[target]
           \/ step["media"] = "fill" /\ step'["media"] = "name" /\ card'[Part(target)] = Whole
              /\ card'[target] = card[target]
           \/ step["media"] = "name" /\ step'["media"] = "written" /\ card[target] = Absent
              /\ card'[target] = card[Part(target)]
    BY <2>1, <2>3, Writing DEF Contents, Steps
  <2>5. StorageTypeOK'
    BY <1>2, <2>4 DEF WriteArchive, StorageTypeOK
  <2>6. \A g \in Public : g # target => card'[g] = card[g]
    BY <2>3, <2>4, CaptureNames
  <2>7. \/ card'[target] = card[target]
        \/ step["media"] = "name" /\ card[target] = Absent /\ card'[target] = Whole
    BY <2>4 DEF MediaInv
  <2>8. \A g \in Public : card[g] # Absent => card'[g] = card[g]
    BY <2>6, <2>7
  <2>9. target[2] = "json" => Raw(target[1]) \in Public /\ card'[Raw(target[1])] = Whole
    BY <2>1, <2>2, <2>8, CaptureNames, PublicNames, StorageConstants DEF MediaInv
  <2>10. MediaInv'
    BY <2>1, <2>2, <2>4, <2>7, <2>9 DEF MediaInv
  <2>11. CommitRecord'
    <3> SUFFICES ASSUME NEW c \in Captures
                 PROVE  /\ card'[Raw(c)] \in {Absent, Whole} /\ card'[Metadata(c)] \in {Absent, Whole}
                        /\ card'[Metadata(c)] # Absent => card'[Raw(c)] # Absent
                        /\ c \in archived => card'[Metadata(c)] # Absent
      BY <2>1 DEF CommitRecord, Exists
    <3>1. /\ card[Raw(c)] \in {Absent, Whole} /\ card[Metadata(c)] \in {Absent, Whole}
          /\ card[Metadata(c)] # Absent => card[Raw(c)] # Absent
          /\ c \in archived => card[Metadata(c)] # Absent
      BY DEF CommitRecord, Exists
    <3>2. Raw(c) \in Public /\ Metadata(c) \in Public /\ Metadata(c)[1] = c /\ Metadata(c)[2] = "json"
      BY PublicNames
    <3>3. card'[Raw(c)] \in {Absent, Whole} /\ card'[Metadata(c)] \in {Absent, Whole}
      BY <3>1, <3>2, <2>6, <2>7
    <3>4. card[Raw(c)] # Absent => card'[Raw(c)] # Absent
      BY <3>2, <2>8
    <3>5. CASE card[Metadata(c)] # Absent
      BY <3>1, <3>2, <3>3, <3>4, <3>5, <2>8
    <3>6. CASE card[Metadata(c)] = Absent /\ Metadata(c) # target
      BY <3>1, <3>2, <3>3, <3>6, <2>6
    <3>7. CASE Metadata(c) = target
      BY <3>1, <3>2, <3>3, <3>7, <2>8, <2>9, StorageConstants
    <3> QED BY <3>5, <3>6, <3>7
  <2>12. \A f \in ConfigSide : card'[f] = card[f]
    BY <2>3, <2>4, ConfigNames DEF ConfigSide, ConfigFiles
  <2> QED BY <1>2, <2>4, <2>5, <2>10, <2>11, <2>12 DEF WriteArchive
<1>3. CASE Written
  <2>1. step["media"] = "written" /\ target \in Public /\ card[target] = Whole /\ card' = card
        /\ target[1] \in Captures /\ target[2] \in {"raw", "json"}
    BY <1>3, CaptureNames DEF Written, MediaInv
  <2>2. CASE target[2] = "raw"
    <3>1. target' = Metadata(target[1]) /\ Then("media", "create") /\ UNCHANGED <<holder, archived>>
      BY <1>3, <2>2 DEF Written
    <3>2. /\ step' \in [{"console", "media"} -> Steps] /\ step'["media"] = "create"
          /\ step'["console"] = step["console"]
      BY <3>1, Stepping DEF Steps
    <3>3. target' \in Public /\ target'[1] = target[1] /\ target'[2] = "json"
      BY <2>1, <3>1, PublicNames
    <3>4. StorageTypeOK'
      BY <1>3, <2>1, <3>1, <3>2, <3>3 DEF Written, StorageTypeOK
    <3>5. card[Raw(target[1])] = Whole
      BY <2>1, <2>2, CaptureNames
    <3>6. MediaInv' /\ CommitRecord'
      BY <2>1, <3>1, <3>2, <3>3, <3>5 DEF MediaInv, CommitRecord, Exists
    <3> QED BY <1>3, <2>1, <3>2, <3>4, <3>6 DEF Written
  <2>3. CASE target[2] = "json"
    <3>1. archived' = archived \cup {target[1]} /\ target' = Absent /\ Then("media", "idle")
          /\ Release("media")
      BY <1>3, <2>3 DEF Written
    <3>2. /\ step' \in [{"console", "media"} -> Steps] /\ step'["media"] = "idle"
          /\ step'["console"] = step["console"]
      BY <3>1, Stepping DEF Steps
    <3>3. StorageTypeOK'
      BY <1>3, <2>1, <3>1, <3>2 DEF Written, Release, StorageTypeOK
    <3>4. target = Metadata(target[1])
      BY <2>1, <2>3, CaptureNames
    <3>5. MediaInv' /\ CommitRecord'
      BY <2>1, <3>1, <3>2, <3>4, StorageConstants DEF MediaInv, CommitRecord, Exists
    <3> QED BY <1>3, <2>1, <3>2, <3>3, <3>5 DEF Written
  <2> QED BY <2>1, <2>2, <2>3
<1>4. CASE Gives("media")
  <2>1. Then("media", "idle") /\ Release("media") /\ target' = Absent
        /\ UNCHANGED <<answer, card, ready, asked, misread, archived>>
    BY <1>4 DEF Gives
  <2>2. /\ step' \in [{"console", "media"} -> Steps] /\ step'["media"] = "idle"
        /\ step'["console"] = step["console"]
    BY <2>1, Stepping DEF Steps
  <2>3. StorageTypeOK'
    BY <2>1, <2>2 DEF Release, StorageTypeOK
  <2>4. MediaInv' /\ CommitRecord'
    BY <2>1, <2>2 DEF MediaInv, CommitRecord, Exists
  <2> QED BY <2>1, <2>2, <2>3, <2>4
<1> QED BY <1>1, <1>2, <1>3, <1>4 DEF MediaStep

-----------------------------------------------------------------------------
(* The console.  With it: every call of it is a step of AtomicConfig.      *)
consoleMoved ==
  \/ UNCHANGED <<Loaded, Fallback, asked, answer, misread>>
  \/ /\ asked # Absent /\ answer = "none" /\ UNCHANGED asked
     /\ \/ Fallback' = Absent /\ UNCHANGED <<Loaded, answer, misread>>
        \/ Loaded' = asked /\ Fallback' = Loaded /\ UNCHANGED <<answer, misread>>
        \/ misread' = TRUE /\ UNCHANGED <<Loaded, Fallback, answer>>
        \/ misread' = TRUE /\ Loaded' = Fallback /\ Fallback' = Absent /\ UNCHANGED answer
        \/ /\ \E c \in Seen : c # Absent /\ c.settings = asked.settings
           /\ answer' = "pass" /\ UNCHANGED <<Loaded, Fallback, misread>>
        \/ answer' = "fail" /\ UNCHANGED <<Loaded, Fallback, misread>>

(* What a load gives that is not what the card would give: the fallback.   *)
LEMMA Hidden ==
  ASSUME NEW c \in Loads, c # Absent, c # Loaded
  PROVE  c = Fallback
<1>1. PICK a \in Reads(Current), b \in Reads(Previous) : c = IF a = Absent THEN b ELSE a
  BY DEF Loads
<1> QED BY <1>1, StorageConstants DEF Reads, Loaded, Fallback, Valid

LEMMA ConsoleStepKeeps ==
  ASSUME StorageInv, ConsoleStep, UNCHANGED stage
  PROVE  /\ StorageTypeOK' /\ ConsoleInv' /\ consoleMoved
         /\ step'["media"] = step["media"] /\ UNCHANGED media_vars
         /\ \A f \in Public : card'[f] = card[f] /\ card'[Part(f)] = card[Part(f)]
<1> USE DEF StorageInv, media_vars, console_vars
<1>0. \A f \in Public : /\ f \in Files /\ Part(f) \in Files
                        /\ f \notin ConfigSide /\ Part(f) \notin ConfigSide
  BY CaptureNames
<1>1. CASE Compare
  <2>1. /\ step["console"] = "lock" /\ asked \in Configs /\ answer = "none" /\ stage # "off"
        /\ misread = FALSE /\ UNCHANGED <<card, ready, asked, answer, target, archived>>
    BY <1>1 DEF Compare, ConsoleInv, StorageTypeOK
  <2>2. Loaded' = Loaded /\ Fallback' = Fallback /\ asked # Absent
    BY <2>1, StorageConstants DEF Loaded, Fallback, Valid
  <2>3. PICK c \in Loads :
          /\ misread' = (c # Loaded)
          /\ IF Same(asked, c) THEN Then("console", "apply") /\ UNCHANGED holder
             ELSE Acquire("console") /\ Then("console", "clear")
    BY <1>1 DEF Compare
  <2>4. misread' \in BOOLEAN
    BY <2>3
  <2>5. misread' = misread \/ misread' = TRUE
    BY <2>1, <2>3
  <2>6. CASE Same(asked, c)
    <3>1. Then("console", "apply") /\ UNCHANGED holder
      BY <2>3, <2>6
    <3>2. /\ step' \in [{"console", "media"} -> Steps] /\ step'["console"] = "apply"
          /\ step'["media"] = step["media"]
      BY <3>1, Stepping DEF Steps
    <3>3. StorageTypeOK'
      BY <2>1, <2>4, <3>1, <3>2 DEF StorageTypeOK
    <3>4. c # Absent /\ c.settings = asked.settings
      BY <2>6 DEF Same
    <3>5. c \in Seen'
      BY <2>2, <2>3, <3>4, Hidden DEF Seen
    <3>6. ConsoleInv'
      BY <2>1, <3>2, <3>4, <3>5 DEF ConsoleInv, Steps
    <3> QED BY <2>1, <2>2, <2>5, <3>2, <3>3, <3>6 DEF consoleMoved
  <2>7. CASE ~Same(asked, c)
    <3>1. Then("console", "clear") /\ holder' = "console"
      BY <2>3, <2>7 DEF Acquire
    <3>2. /\ step' \in [{"console", "media"} -> Steps] /\ step'["console"] = "clear"
          /\ step'["media"] = step["media"]
      BY <3>1, Stepping DEF Steps
    <3>3. StorageTypeOK'
      BY <2>1, <2>4, <3>1, <3>2 DEF StorageTypeOK
    <3>4. ConsoleInv'
      BY <2>1, <3>2 DEF ConsoleInv, Steps
    <3> QED BY <2>1, <2>2, <2>5, <3>2, <3>3, <3>4 DEF consoleMoved
  <2> QED BY <2>6, <2>7
<1>2. CASE ClearReplacement \/ ClearPart
  <2>1. PICK f \in {Replacement, Part(Replacement)}, s \in {"clear part", "create"} :
          /\ step["console"] \in {"clear", "clear part"}
          /\ card' = [card EXCEPT ![f] = Absent] /\ Then("console", s)
          /\ UNCHANGED <<ready, holder, asked, answer, misread, target, archived>>
    BY <1>2 DEF ClearReplacement, ClearPart, Unlink
  <2>2. f \in Files /\ f \in ConfigSide /\ f # Current /\ f # Previous
    BY ConfigNames DEF ConfigSide, ConfigFiles
  <2>3. card' \in [Files -> Contents] /\ \A g \in Files : g # f => card'[g] = card[g]
    BY <2>1, <2>2, Storing DEF Contents
  <2>4. /\ step' \in [{"console", "media"} -> Steps] /\ step'["console"] = s
        /\ step'["media"] = step["media"]
    BY <2>1, Stepping DEF Steps
  <2>5. Loaded' = Loaded /\ Fallback' = Fallback
    BY <2>2, <2>3, ConfigNames DEF Loaded, Fallback, Valid
  <2>6. StorageTypeOK'
    BY <2>1, <2>3, <2>4 DEF StorageTypeOK
  <2>7. ConsoleInv'
    BY <2>1, <2>4 DEF ConsoleInv, Steps
  <2> QED BY <1>0, <2>1, <2>2, <2>3, <2>4, <2>5, <2>6, <2>7 DEF consoleMoved
<1>3. CASE WriteReplacement
  <2>1. Write("console", Replacement, asked, "retire") /\ step["console"] # "idle"
        /\ UNCHANGED <<ready, holder, asked, answer, misread, target, archived>>
    BY <1>3 DEF WriteReplacement, Write
  <2>2. asked \in Configs /\ answer = "none" /\ stage # "off"
    BY <2>1 DEF ConsoleInv
  <2>3. /\ card' \in [Files -> Contents] /\ step' \in [{"console", "media"} -> Steps]
        /\ step'["media"] = step["media"]
        /\ \A g \in Files : g # Replacement /\ g # Part(Replacement) => card'[g] = card[g]
        /\ \/ step["console"] = "create" /\ step'["console"] = "fill"
           \/ step["console"] = "fill" /\ step'["console"] = "name" /\ card'[Part(Replacement)] = asked
           \/ step["console"] = "name" /\ step'["console"] = "retire"
              /\ card'[Replacement] = card[Part(Replacement)]
    BY <2>1, <2>2, ConfigNames, Writing DEF Contents, Steps
  <2>4. StorageTypeOK'
    BY <2>1, <2>3 DEF StorageTypeOK
  <2>5. Loaded' = Loaded /\ Fallback' = Fallback
    BY <2>3, ConfigNames DEF Loaded, Fallback, Valid
  <2>6. step["console"] = "name" => card[Part(Replacement)] = asked
    BY DEF ConsoleInv
  <2>7. ConsoleInv'
    BY <2>1, <2>2, <2>3, <2>6 DEF ConsoleInv, Steps
  <2>8. Replacement \in ConfigSide /\ Part(Replacement) \in ConfigSide
    BY DEF ConfigSide, ConfigFiles
  <2> QED BY <1>0, <2>1, <2>3, <2>4, <2>5, <2>7, <2>8 DEF consoleMoved
<1>4. CASE Retire
  <2>1. step["console"] = "retire" /\ asked \in Configs /\ answer = "none" /\ stage # "off"
        /\ card[Replacement] = asked /\ UNCHANGED <<ready, holder, asked, answer, target, archived>>
    BY <1>4 DEF Retire, ConsoleInv
  <2>2. PICK c \in Reads(Current) :
          /\ misread' = (misread \/ (Valid(Current) /\ c = Absent))
          /\ IF c # Absent THEN Unlink(Previous) /\ Then("console", "keep")
             ELSE Unlink(Current) /\ Then("console", "install")
    BY <1>4 DEF Retire
  <2>3. PICK f \in {Current, Previous}, s \in {"keep", "install"} :
          /\ card' = [card EXCEPT ![f] = Absent] /\ Then("console", s)
          /\ s = "keep" => f = Previous /\ c # Absent
          /\ s = "install" => f = Current /\ c = Absent
    BY <2>2 DEF Unlink
  <2>4. f \in Files /\ f \in ConfigSide /\ f # Replacement
    BY ConfigNames DEF ConfigSide, ConfigFiles
  <2>5. card' \in [Files -> Contents] /\ card'[f] = Absent
        /\ \A g \in Files : g # f => card'[g] = card[g]
    BY <2>3, <2>4, Storing DEF Contents
  <2>6. /\ step' \in [{"console", "media"} -> Steps] /\ step'["console"] = s
        /\ step'["media"] = step["media"]
    BY <2>3, Stepping DEF Steps
  <2>7. misread \in BOOLEAN /\ misread' \in BOOLEAN
    BY <2>2 DEF StorageTypeOK
  <2>8. StorageTypeOK'
    BY <2>1, <2>5, <2>6, <2>7 DEF StorageTypeOK
  <2>9. c # Absent => Valid(Current)
    BY DEF Reads, Valid
  <2>10. ConsoleInv'
    BY <2>1, <2>3, <2>4, <2>5, <2>6, <2>9, ConfigNames DEF ConsoleInv, Steps, Valid
  <2>11. consoleMoved
    <3>1. asked # Absent
      BY <2>1, StorageConstants
    <3>2. CASE s = "keep"
      <4>1. Valid(Current) /\ card'[Current] = card[Current] /\ card'[Previous] = Absent
        BY <2>3, <2>5, <2>9, <3>2, ConfigNames
      <4>2. Loaded' = Loaded /\ Fallback' = Absent
        BY <4>1, StorageConstants DEF Loaded, Fallback, Valid
      <4>3. misread' = misread
        BY <2>2, <2>3, <2>7, <3>2
      <4> QED BY <2>1, <3>1, <4>2, <4>3 DEF consoleMoved
    <3>3. CASE s = "install"
      <4>1. c = Absent /\ card'[Current] = Absent /\ card'[Previous] = card[Previous]
        BY <2>3, <2>5, <3>3, ConfigNames
      <4>2. CASE Valid(Current)
        <5>1. misread' = TRUE
          BY <2>2, <2>7, <4>1, <4>2
        <5>2. Loaded' = Fallback /\ Fallback' = Absent
          BY <4>1, <4>2, StorageConstants DEF Loaded, Fallback, Valid
        <5> QED BY <2>1, <3>1, <5>1, <5>2 DEF consoleMoved
      <4>3. CASE ~Valid(Current)
        <5>1. misread' = misread
          BY <2>2, <2>7, <4>3
        <5>2. Loaded' = Loaded /\ Fallback' = Fallback
          BY <4>1, <4>3, StorageConstants DEF Loaded, Fallback, Valid
        <5> QED BY <2>1, <5>1, <5>2 DEF consoleMoved
      <4> QED BY <4>2, <4>3
    <3> QED BY <3>2, <3>3
  <2> QED BY <1>0, <2>1, <2>4, <2>5, <2>6, <2>8, <2>10, <2>11
<1>5. CASE Keep
  <2>1. step["console"] = "keep" /\ asked \in Configs /\ answer = "none" /\ stage # "off"
        /\ card[Replacement] = asked /\ card[Current] \in Configs
        /\ UNCHANGED <<ready, holder, asked, answer, misread, target, archived>>
    BY <1>5 DEF Keep, ConsoleInv
  <2>2. Rename(Current, Previous) /\ Then("console", "install")
    BY <1>5 DEF Keep
  <2>3. /\ card' \in [Files -> Contents] /\ card'[Previous] = card[Current] /\ card'[Current] = Absent
        /\ \A g \in Files : g # Current /\ g # Previous => card'[g] = card[g]
    BY <2>2, ConfigNames, Renaming
  <2>4. /\ step' \in [{"console", "media"} -> Steps] /\ step'["console"] = "install"
        /\ step'["media"] = step["media"]
    BY <2>2, Stepping DEF Steps
  <2>5. Loaded' = Loaded /\ Fallback' = Fallback
    <3>1. card[Previous] = Absent
      BY <2>1 DEF ConsoleInv
    <3> QED BY <2>1, <2>3, <3>1, StorageConstants DEF Loaded, Fallback, Valid
  <2>6. StorageTypeOK'
    BY <2>1, <2>3, <2>4 DEF StorageTypeOK
  <2>7. ConsoleInv'
    BY <2>1, <2>3, <2>4, ConfigNames DEF ConsoleInv, Steps
  <2>8. Current \in ConfigSide /\ Previous \in ConfigSide
    BY DEF ConfigSide, ConfigFiles
  <2> QED BY <1>0, <2>1, <2>3, <2>4, <2>5, <2>6, <2>7, <2>8 DEF consoleMoved
<1>6. CASE Install
  <2>1. step["console"] = "install" /\ asked \in Configs /\ answer = "none" /\ stage # "off"
        /\ card[Replacement] = asked /\ UNCHANGED <<ready, asked, answer, misread, target, archived>>
    BY <1>6 DEF Install, ConsoleInv
  <2>2. Rename(Replacement, Current) /\ Then("console", "apply") /\ Release("console")
    BY <1>6 DEF Install
  <2>3. /\ card' \in [Files -> Contents] /\ card'[Current] = asked
        /\ \A g \in Files : g # Replacement /\ g # Current => card'[g] = card[g]
    BY <2>1, <2>2, ConfigNames, Renaming
  <2>4. /\ step' \in [{"console", "media"} -> Steps] /\ step'["console"] = "apply"
        /\ step'["media"] = step["media"]
    BY <2>2, Stepping DEF Steps
  <2>5. Loaded' = asked /\ asked # Absent /\ Fallback' = Loaded
    <3>1. card[Current] = Absent /\ card'[Previous] = card[Previous]
      BY <2>3, <1>6, ConfigNames DEF Install, ConsoleInv
    <3> QED BY <2>1, <2>3, <3>1, StorageConstants DEF Loaded, Fallback, Valid
  <2>6. StorageTypeOK'
    BY <2>1, <2>2, <2>3, <2>4 DEF Release, StorageTypeOK
  <2>7. ConsoleInv'
    BY <2>1, <2>4, <2>5 DEF ConsoleInv, Steps, Seen
  <2>8. Current \in ConfigSide /\ Replacement \in ConfigSide
    BY DEF ConfigSide, ConfigFiles
  <2> QED BY <1>0, <2>1, <2>3, <2>4, <2>5, <2>6, <2>7, <2>8 DEF consoleMoved
<1>7. CASE Apply
  <2>1. step["console"] = "apply" /\ asked \in Configs /\ answer = "none"
        /\ (\E c \in Seen : c # Absent /\ c.settings = asked.settings)
        /\ answer' \in {"pass", "fail"} /\ Then("console", "idle")
        /\ UNCHANGED <<card, ready, holder, asked, misread, target, archived>>
    BY <1>7 DEF Apply, ConsoleInv
  <2>2. /\ step' \in [{"console", "media"} -> Steps] /\ step'["console"] = "idle"
        /\ step'["media"] = step["media"]
    BY <2>1, Stepping DEF Steps
  <2>3. Loaded' = Loaded /\ Fallback' = Fallback /\ asked # Absent
    BY <2>1, StorageConstants DEF Loaded, Fallback, Valid
  <2>4. StorageTypeOK'
    BY <2>1, <2>2 DEF StorageTypeOK
  <2>5. ConsoleInv'
    BY <2>1, <2>2 DEF ConsoleInv, Steps
  <2> QED BY <2>1, <2>2, <2>3, <2>4, <2>5 DEF consoleMoved
<1>8. CASE Gives("console")
  <2>1. step["console"] # "idle" /\ Then("console", "idle") /\ Release("console")
        /\ answer' = "fail" /\ UNCHANGED <<target, card, ready, asked, misread, archived>>
    BY <1>8 DEF Gives
  <2>2. asked \in Configs /\ answer = "none"
    BY <2>1 DEF ConsoleInv
  <2>3. /\ step' \in [{"console", "media"} -> Steps] /\ step'["console"] = "idle"
        /\ step'["media"] = step["media"]
    BY <2>1, Stepping DEF Steps
  <2>4. Loaded' = Loaded /\ Fallback' = Fallback /\ asked # Absent
    BY <2>1, <2>2, StorageConstants DEF Loaded, Fallback, Valid
  <2>5. StorageTypeOK'
    BY <2>1, <2>3 DEF Release, StorageTypeOK
  <2>6. ConsoleInv'
    BY <2>1, <2>3 DEF ConsoleInv, Steps
  <2> QED BY <2>1, <2>2, <2>3, <2>4, <2>5, <2>6 DEF consoleMoved
<1> QED BY <1>1, <1>2, <1>3, <1>4, <1>5, <1>6, <1>7, <1>8 DEF ConsoleStep

-----------------------------------------------------------------------------
(* The tasks between the restarts.                                         *)
LEMMA Provisions ==
  ASSUME StorageInv, Ask, UNCHANGED stage
  PROVE  /\ StorageInv' /\ Loaded' = Loaded /\ Fallback' = Fallback
         /\ asked' \in Configs /\ answer' \in {"none", "fail"} /\ misread' = FALSE
         /\ asked # Absent => answer # "none"
<1> USE DEF StorageInv, media_vars
<1>1. PICK c \in Configs : Provision(c) /\ stage = "on"
  BY DEF Ask
<1>2. /\ step["console"] = "idle" /\ asked' = c /\ misread' = FALSE
      /\ UNCHANGED <<card, ready, holder, target, archived>>
      /\ \/ Then("console", "lock") /\ answer' = "none"
         \/ answer' = "fail" /\ UNCHANGED step
  BY <1>1 DEF Provision
<1>3. /\ step' \in [{"console", "media"} -> Steps] /\ step'["media"] = step["media"]
      /\ \/ step'["console"] = "lock" /\ answer' = "none"
         \/ step'["console"] = "idle" /\ answer' = "fail"
  BY <1>2, Stepping DEF Steps, StorageTypeOK
<1>4. StorageTypeOK'
  BY <1>2, <1>3 DEF StorageTypeOK
<1>5. MediaInv' /\ CommitRecord'
  BY <1>2, <1>3, MediaKept
<1>6. ConsoleInv'
  BY <1>1, <1>2, <1>3 DEF ConsoleInv, Steps
<1>7. asked # Absent => answer # "none"
  BY <1>2 DEF ConsoleInv
<1> QED BY <1>2, <1>3, <1>4, <1>5, <1>6, <1>7 DEF Loaded, Fallback, Valid

LEMMA Archives ==
  ASSUME StorageInv, NEW c \in Captures, Archive(c), stage # "off" => stage' # "off"
  PROVE  StorageInv' /\ Loaded' = Loaded /\ Fallback' = Fallback
<1> USE DEF StorageInv, console_vars
<1>1. /\ step["media"] = "idle" /\ target' = Raw(c) /\ Then("media", "lock")
      /\ UNCHANGED <<card, ready, holder, asked, answer, misread, archived>>
  BY DEF Archive
<1>2. /\ step' \in [{"console", "media"} -> Steps] /\ step'["media"] = "lock"
      /\ step'["console"] = step["console"]
  BY <1>1, Stepping DEF Steps
<1>3. Raw(c) \in Public /\ Raw(c)[2] = "raw"
  BY PublicNames
<1>4. StorageTypeOK'
  BY <1>1, <1>2, <1>3 DEF StorageTypeOK
<1>5. MediaInv'
  BY <1>1, <1>2, <1>3 DEF MediaInv
<1>6. CommitRecord'
  BY <1>1 DEF CommitRecord, Exists
<1>7. ConsoleInv' /\ Loaded' = Loaded /\ Fallback' = Fallback
  BY <1>1, <1>2, ConsoleKept
<1> QED BY <1>4, <1>5, <1>6, <1>7

(* The card is damaged only while the device is off.                       *)
LEMMA Edits ==
  ASSUME StorageInv, Edited
  PROVE  /\ StorageInv' /\ Loaded' \in Configs \cup {Absent} /\ Fallback' \in Configs \cup {Absent}
         /\ UNCHANGED <<asked, answer, misread, stage>>
<1> USE DEF StorageInv, media_vars, console_vars
<1>1. PICK f \in {Current, Previous}, x \in {Absent, Torn} :
        /\ card' = [card EXCEPT ![f] = x] /\ stage = "off"
        /\ UNCHANGED <<ready, holder, step, asked, answer, misread, target, archived, stage>>
  BY DEF Edited, Damage, boot_vars
<1>2. f \in Files /\ f \in ConfigSide
  BY ConfigNames DEF ConfigSide, ConfigFiles
<1>3. card' \in [Files -> Contents] /\ \A g \in Files : g # f => card'[g] = card[g]
  BY <1>1, <1>2, Storing DEF Contents
<1>4. StorageTypeOK'
  BY <1>1, <1>3 DEF StorageTypeOK
<1>5. \A g \in Public : card'[g] = card[g] /\ card'[Part(g)] = card[Part(g)]
  BY <1>2, <1>3, CaptureNames
<1>6. MediaInv' /\ CommitRecord'
  BY <1>1, <1>5, MediaKept
<1>7. step["console"] = "idle"
  BY <1>1 DEF ConsoleInv
<1>8. ConsoleInv'
  BY <1>1, <1>7 DEF ConsoleInv, Steps
<1>9. Loaded' \in Configs \cup {Absent} /\ Fallback' \in Configs \cup {Absent}
  BY DEF Loaded, Fallback, Valid
<1> QED BY <1>1, <1>4, <1>6, <1>8, <1>9

(* The steps of the boot and of the series that leave the card's tasks     *)
(* alone.                                                                  *)
LEMMA BootsKeep ==
  ASSUME StorageInv, UNCHANGED <<card, step, asked, answer, misread, target, archived, holder>>,
         ready' \in BOOLEAN, stage # "off" => stage' # "off"
  PROVE  StorageInv' /\ Loaded' = Loaded /\ Fallback' = Fallback
<1>1. StorageTypeOK'
  BY DEF StorageInv, StorageTypeOK
<1>2. MediaInv' /\ CommitRecord'
  BY MediaKept DEF StorageInv, media_vars
<1>3. ConsoleInv' /\ Loaded' = Loaded /\ Fallback' = Fallback
  BY ConsoleKept DEF StorageInv, console_vars
<1> QED BY <1>1, <1>2, <1>3 DEF StorageInv

-----------------------------------------------------------------------------
(* Every step of the device keeps the card's invariants and is a step, or  *)
(* none, of AtomicConfig.                                                  *)
LEMMA CardStep ==
  ASSUME BootInv, StorageInv, [Next]_vars
  PROVE  StorageInv' /\ [A!Next]_(A!vars)
<1> USE DEF A!vars, A!kept, A!asking, A!Next
<1>1. ASSUME Forget PROVE StorageInv' /\ A!Lost
  BY <1>1, Forgotten DEF A!Lost
<1>2. CASE PowerOn
  BY <1>2, <1>1 DEF PowerOn, Boot
<1>3. CASE PowerCut
  BY <1>3, <1>1 DEF PowerCut
<1>4. CASE InterruptedSave \/ Restart
  BY <1>4, <1>1 DEF InterruptedSave, Restart, SoftwareRestart, Boot
<1>5. CASE Edited
  BY <1>5, Edits DEF A!Edited, Edited
<1>6. CASE Ask
  <2>1. stage = "on" /\ UNCHANGED stage
    BY <1>6 DEF Ask, boot_vars
  <2> QED BY <1>6, <2>1, Provisions DEF A!Ask
<1>7. CASE SelfTest \/ Save
  <2>1. stage # "off" /\ stage' # "off"
    BY <1>7 DEF SelfTest, Save, mediaFree, boot_vars
  <2>2. CASE \E c \in Captures : Archive(c)
    <3>1. StorageInv' /\ Loaded' = Loaded /\ Fallback' = Fallback
      BY <2>1, <2>2, Archives
    <3>2. UNCHANGED <<asked, answer, misread>>
      BY <2>2 DEF Archive, console_vars
    <3> QED BY <2>1, <3>1, <3>2
  <2>3. CASE UNCHANGED storage_vars
    BY <2>1, <2>3, BootsKeep DEF storage_vars, console_vars, media_vars, StorageInv, StorageTypeOK
  <2> QED BY <1>7, <2>2, <2>3 DEF SelfTest, Save
<1>8. CASE Check \/ LateFailure \/ InitStorage \/ LoadSaved \/ StartSeries \/ End \/ Count \/ Seal
  <2>1. UNCHANGED <<card, step, asked, answer, misread, target, archived, holder>> /\ ready' \in BOOLEAN
    BY <1>8 DEF Check, LateFailure, InitStorage, LoadSaved, StartSeries, End, Count, Seal,
                storage_vars, console_vars, media_vars, StorageInv, StorageTypeOK
  <2>2. (stage # "off") <=> (stage' # "off")
    BY <1>8 DEF Check, LateFailure, InitStorage, LoadSaved, StartSeries, End, Count, Seal,
                LeaveSeries, BootInv, SeriesInv
  <2> QED BY <2>1, <2>2, BootsKeep
<1>9. CASE ConsoleStep /\ UNCHANGED boot_vars
  <2>1. UNCHANGED stage
    BY <1>9 DEF boot_vars
  <2>2. StorageTypeOK' /\ ConsoleInv' /\ consoleMoved
    BY <1>9, <2>1, ConsoleStepKeeps
  <2>3. MediaInv' /\ CommitRecord'
    BY <1>9, <2>1, ConsoleStepKeeps, MediaKept DEF StorageInv
  <2>4. UNCHANGED <<Loaded, Fallback, asked, answer, misread>> \/ stage # "off"
    <3>1. step["console"] # "idle"
      BY <1>9 DEF ConsoleStep, Compare, ClearReplacement, ClearPart, WriteReplacement, Write, Retire,
                  Keep, Install, Apply, Gives
    <3> QED BY <3>1 DEF StorageInv, ConsoleInv
  <2>5. [A!Next]_(A!vars)
    <3>1. CASE UNCHANGED <<Loaded, Fallback, asked, answer, misread>>
      BY <2>1, <3>1
    <3>2. CASE ~UNCHANGED <<Loaded, Fallback, asked, answer, misread>>
      <4>1. A!Provisioning /\ UNCHANGED asked
        BY <2>2, <2>4, <3>2 DEF consoleMoved, A!Provisioning
      <4>2. CASE answer' = "pass"
        BY <2>1, <2>2, <3>2, <4>1, <4>2 DEF consoleMoved, Seen, SettingsOf, A!Provisioning, A!Pass
      <4>3. CASE answer' # "pass"
        BY <2>1, <2>2, <3>2, <4>1, <4>3
           DEF consoleMoved, A!Discard, A!Save, A!Misread, A!GiveUp, A!Fail
      <4> QED BY <4>2, <4>3
    <3> QED BY <3>1, <3>2
  <2> QED BY <2>2, <2>3, <2>5 DEF StorageInv
<1>10. CASE MediaStep /\ UNCHANGED boot_vars
  <2>1. UNCHANGED stage
    BY <1>10 DEF boot_vars
  <2>2. ConsoleInv' /\ Loaded' = Loaded /\ Fallback' = Fallback
    BY <1>10, <2>1, MediaStepKeeps, ConsoleKept DEF StorageInv
  <2> QED BY <1>10, <2>1, <2>2, MediaStepKeeps DEF StorageInv, console_vars
<1>11. CASE UNCHANGED vars
  BY <1>11, BootsKeep DEF vars, storage_vars, boot_vars, console_vars, media_vars, StorageInv,
                          StorageTypeOK
<1> QED BY <1>2, <1>3, <1>4, <1>5, <1>6, <1>7, <1>8, <1>9, <1>10, <1>11 DEF Next, Series, Storage

(* The inductive invariant of the boot, the series and the card.           *)
THEOREM Inductive == Spec => []IInv
<1>1. Init => IInv
  BY BootInit, StorageStarts DEF IInv
<1>2. IInv /\ [Next]_vars => IInv'
  BY TypeStep, SeriesStep, CardStep DEF IInv, BootInv
<1> QED BY <1>1, <1>2, PTL DEF Spec

(* Every variable has its type.                                            *)
THEOREM TypeCorrect == Spec => []TypeOK
<1>1. IInv => TypeOK
  BY DEF IInv, BootInv, BootTypeOK, StorageInv, TypeOK
<1> QED BY Inductive, <1>1, PTL

(* The count that survives a restart is the number of restarts, for a      *)
(* series of any length.                                                   *)
THEOREM RestartsAreCounted == Spec => []CountIsExact
<1>1. IInv => CountIsExact
  BY DEF IInv, BootInv, SeriesInv
<1> QED BY Inductive, <1>1, PTL

(* Whatever fails and whenever the power is cut, a listed file of a        *)
(* capture is whole and metadata have their bytes.                         *)
THEOREM MetadataCommits == Spec => []CommitRecord
<1>1. IInv => CommitRecord
  BY DEF IInv, StorageInv
<1> QED BY Inductive, <1>1, PTL

(* The files of the configuration implement one value that changes         *)
(* atomically, and a failed read undoes no more than AtomicConfig says.    *)
THEOREM ConfigurationIsAtomic == Spec => ConfigIsAtomic
<1>1. Init => A!Init
  BY StorageStarts DEF Init, StorageInit, A!Init
<1>2. IInv /\ [Next]_vars => [A!Next]_(A!vars)
  BY CardStep DEF IInv
<1> QED BY Inductive, <1>1, <1>2, PTL DEF Spec, ConfigIsAtomic, A!Spec
=============================================================================
