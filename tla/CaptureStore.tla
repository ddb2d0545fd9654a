----------------------------- MODULE CaptureStore -----------------------------
(***************************************************************************)
(* The Mac's store of captures (tools/captures.py) in the directory of one *)
(* run: the bytes of a capture are gathered in a .partial file and         *)
(* published as a .bin once they are whole, beside a .json that says what  *)
(* they are.  The collector of the serial line (capture_serial.py) goes on *)
(* after an event the store refuses, and ends the run with close() after   *)
(* any other exception; the session of the Wi-Fi service closes after      *)
(* both, which is one of the behaviours here.                              *)
(*                                                                         *)
(* The program may die, and the disk may fill up, between any two calls    *)
(* that change the directory: each is a step, and what holds of the        *)
(* directory holds at every one of them.                                   *)
(*                                                                         *)
(* A chunk is one unit of bytes, named by the boot that sent it and its    *)
(* place; Bad is a chunk damaged on the line, or torn by a failed write.   *)
(* A hash is the sequence that was hashed.                                 *)
(***************************************************************************)
EXTENDS Naturals, Sequences, FiniteSets

CONSTANTS
  Ids,        \* capture ids
  Boots,      \* boot ids
  Size,       \* size_bytes, in chunks
  MaxActive,  \* MAX_ACTIVE
  MaxSeen,    \* 1024 captures in a run
  Absent, Bad

Data == {Bad} \cup (Boots \X (1..Size))
Jobs == [boot : Boots, hash : Seq(Data)]
Records == [status : {"incomplete", "complete"}, boot : Boots, received : Nat]
Original(b) == [i \in 1..Size |-> <<b, i>>]

ASSUME CaptureConstants ==
  /\ Size \in Nat \ {0} /\ MaxActive \in Nat /\ MaxSeen \in Nat
  /\ Absent # Bad /\ Absent \notin Ids \cup Jobs \cup Records
  /\ \A b \in Boots : Original(b) # Absent

VARIABLES
  partial, bin,  \* the files of each capture: its bytes
  json, tmp,     \* its metadata, and the file they are written to first
  active,        \* self.active: the capture's boot and the bytes hashed so far
  invalid,       \* captures that had an event refused
  seen,          \* self.seen
  label,         \* what _metadata() is writing, and for which capture
  incomplete,    \* what close() returns: the captures it found active
  run            \* "open", "ending", "closing" (in close()), "closed", or "raised" out of it

files == <<partial, bin, json, tmp>>
vars == <<files, active, invalid, seen, label, incomplete, run>>

NoLabel == [id |-> Absent]

Init ==
  /\ partial = [k \in Ids |-> Absent] /\ bin = [k \in Ids |-> Absent]
  /\ json = [k \in Ids |-> Absent] /\ tmp = [k \in Ids |-> Absent]
  /\ active = [k \in Ids |-> Absent] /\ invalid = {} /\ seen = {}
  /\ label = NoLabel /\ incomplete = {} /\ run = "open"

Active == {k \in Ids : active[k] # Absent}
Reading == run = "open" /\ label = NoLabel

(* An OSError: consume() lets it through, and the collector calls close(). *)
Fails ==
  /\ run' = IF run = "open" THEN "ending" ELSE "raised"
  /\ label' = NoLabel
  /\ UNCHANGED <<active, invalid, seen, incomplete>>

-----------------------------------------------------------------------------
(* _metadata(): what is said of a capture changes with the last call.      *)

(* open("x") refuses what an earlier attempt has left.                     *)
Open ==
  /\ label # NoLabel /\ label.call = "open" /\ tmp[label.id] = Absent
  /\ tmp' = [tmp EXCEPT ![label.id] = Bad]
  /\ label' = [label EXCEPT !.call = "write"]
  /\ UNCHANGED <<partial, bin, json, active, invalid, seen, incomplete, run>>

Write ==
  /\ label # NoLabel /\ label.call = "write"
  /\ tmp' = [tmp EXCEPT ![label.id] = label.record]
  /\ label' = [label EXCEPT !.call = "replace"]
  /\ UNCHANGED <<partial, bin, json, active, invalid, seen, incomplete, run>>

(* os.replace(); a capture that is complete is no longer active.           *)
Replace ==
  /\ label # NoLabel /\ label.call = "replace"
  /\ json' = [json EXCEPT ![label.id] = label.record]
  /\ tmp' = [tmp EXCEPT ![label.id] = Absent]
  /\ active' = IF label.record.status = "complete"
               THEN [active EXCEPT ![label.id] = Absent] ELSE active
  /\ label' = NoLabel
  /\ UNCHANGED <<partial, bin, invalid, seen, incomplete, run>>

MetadataFails == label # NoLabel /\ Fails /\ UNCHANGED files

Label(k, status) ==
  label' = [id |-> k, call |-> "open",
            record |-> [status |-> status, boot |-> active'[k].boot,
                        received |-> Len(active'[k].hash)]]

-----------------------------------------------------------------------------
(* consume()                                                               *)

(* Bug: only an active capture keeps its id.                               *)
BugMayStart(k) == k \notin Active

MayStart(k) ==
  k \notin Active \cup seen /\ bin[k] = Absent /\ partial[k] = Absent /\ json[k] = Absent

Start(k, b) ==
  /\ Reading /\ MayStart(k)
  /\ Cardinality(Active) < MaxActive /\ Cardinality(seen) < MaxSeen
  /\ partial' = [partial EXCEPT ![k] = <<>>]
  /\ active' = [active EXCEPT ![k] = [boot |-> b, hash |-> <<>>]]
  /\ seen' = seen \cup {k}
  /\ Label(k, "incomplete")
  /\ UNCHANGED <<bin, json, tmp, invalid, incomplete, run>>

(* The partial file cannot be created.                                     *)
StartFails(k) ==
  /\ Reading /\ MayStart(k)
  /\ Cardinality(Active) < MaxActive /\ Cardinality(seen) < MaxSeen
  /\ Fails /\ UNCHANGED files

(* A second start, and a later event the checks refuse, are held against   *)
(* the capture that is active; any other refused event changes nothing.    *)
Refused(k) ==
  /\ Reading /\ k \in Active
  /\ invalid' = invalid \cup {k}
  /\ UNCHANGED <<files, active, seen, label, incomplete, run>>

(* A chunk is of this boot, the next one, and not beyond the end.          *)
Fits(k, b, offset) ==
  /\ b = active[k].boot
  /\ offset = Len(active[k].hash) /\ offset < Size

Chunk(k, b, offset, data) ==
  /\ Reading /\ k \in Active /\ Fits(k, b, offset)
  /\ partial' = [partial EXCEPT ![k] = Append(@, data)]
  /\ active' = [active EXCEPT ![k].hash = Append(@, data)]
  /\ UNCHANGED <<bin, json, tmp, invalid, seen, label, incomplete, run>>

(* Bug: the chunk is hashed and counted before it is written.              *)
BugChunkFails(k, b, offset) ==
  /\ Reading /\ k \in Active /\ Fits(k, b, offset)
  /\ active' = [active EXCEPT ![k].hash = Append(@, <<b, offset + 1>>)]
  /\ run' = "ending"
  /\ UNCHANGED <<files, invalid, seen, label, incomplete>>

(* The write fails, and may leave a part of the chunk in the file.         *)
ChunkFails(k, b, offset) ==
  /\ Reading /\ k \in Active /\ Fits(k, b, offset)
  /\ partial' \in {partial, [partial EXCEPT ![k] = Append(@, Bad)]}
  /\ Fails /\ UNCHANGED <<bin, json, tmp>>

(* Bug: the size is enough.                                                *)
BugSound(k, b) == b = active[k].boot /\ Len(active[k].hash) = Size

(* What capture_end, which carries the hash of the original, must find.    *)
Sound(k, b) ==
  /\ b = active[k].boot
  /\ active[k].hash = Original(b)
  /\ k \notin invalid

(* Bug: the metadata are written first.                                    *)
BugEnd(k, b) ==
  /\ Reading /\ k \in Active /\ Sound(k, b)
  /\ UNCHANGED <<files, active, invalid, seen, incomplete, run>>
  /\ Label(k, "complete")

(* The bytes are synchronized, and published under their own name.         *)
End(k, b) ==
  /\ Reading /\ k \in Active /\ Sound(k, b)
  /\ bin' = [bin EXCEPT ![k] = partial[k]] /\ partial' = [partial EXCEPT ![k] = Absent]
  /\ UNCHANGED <<json, tmp, active, invalid, seen, incomplete, run>>
  /\ Label(k, "complete")

EndFails(k, b) ==
  /\ Reading /\ k \in Active /\ Sound(k, b)
  /\ Fails /\ UNCHANGED files

(* An event of a capture: any boot, any place, the bytes sent or damaged.  *)
Consume(k, b) ==
  \/ Start(k, b) \/ StartFails(k)
  \/ \E offset \in 0..Size :
       IF k \in Active /\ Fits(k, b, offset)
       THEN (\E data \in {<<b, offset + 1>>, Bad} : Chunk(k, b, offset, data))
              \/ ChunkFails(k, b, offset)
       ELSE Refused(k)
  \/ IF k \in Active /\ Sound(k, b) THEN End(k, b) \/ EndFails(k, b) ELSE Refused(k)

-----------------------------------------------------------------------------
(* The collection is over.                                                 *)
EndRun ==
  /\ Reading /\ run' = "ending"
  /\ UNCHANGED <<files, active, invalid, seen, label, incomplete>>

(* close(): what is still active will be reported.                         *)
Close ==
  /\ run = "ending" /\ run' = "closing"
  /\ incomplete' = Active
  /\ UNCHANGED <<files, active, invalid, seen, label>>

(* Bug: what was said at the start is good enough.                         *)
BugRelabel(k) ==
  /\ run = "closing" /\ label = NoLabel /\ k \in Active
  /\ active' = [active EXCEPT ![k] = Absent]
  /\ UNCHANGED <<files, invalid, seen, label, incomplete, run>>

(* What is still active is said to be incomplete, one after the other.     *)
(* The code clears active at the end; a capture leaves it here when its    *)
(* turn comes.                                                             *)
Relabel(k) ==
  /\ run = "closing" /\ label = NoLabel /\ k \in Active
  /\ label' = [id |-> k, call |-> "open",
               record |-> [status |-> "incomplete", boot |-> active[k].boot,
                           received |-> Len(active[k].hash)]]
  /\ active' = [active EXCEPT ![k] = Absent]
  /\ UNCHANGED <<files, invalid, seen, incomplete, run>>

Closed ==
  /\ run = "closing" /\ label = NoLabel /\ Active = {}
  /\ run' = "closed"
  /\ UNCHANGED <<files, active, invalid, seen, label, incomplete>>

Next ==
  \/ \E k \in Ids, b \in Boots : Consume(k, b)
  \/ Open \/ Write \/ Replace \/ MetadataFails
  \/ EndRun \/ Close \/ Closed \/ \E k \in Ids : Relabel(k)

Spec == Init /\ [][Next]_vars

-----------------------------------------------------------------------------
Says(k, status) == json[k] # Absent /\ json[k].status = status

(* Whenever the program dies, a .bin is exactly what one boot of the       *)
(* device sent, no event of it having been refused, and it has metadata    *)
(* ("publishing only complete checked bytes").                             *)
PublishedIsWhole ==
  \A k \in Ids : bin[k] # Absent =>
    /\ json[k] # Absent /\ bin[k] = Original(json[k].boot)
    /\ partial[k] = Absent /\ k \notin invalid

(* Metadata that say complete are a commit record: the bytes have their    *)
(* name.  A crash or a failure in between leaves a .bin whose metadata say *)
(* incomplete, never the other way round.                                  *)
CompleteIsCommitted ==
  \A k \in Ids : Says(k, "complete") =>
    bin[k] # Absent /\ json[k].received = Size

(* Metadata never claim bytes that the disk has not got, even when the     *)
(* disk is full.                                                           *)
NeverClaimsMore ==
  \A k \in Ids : Says(k, "incomplete") =>
    json[k].received <= Len(IF bin[k] = Absent THEN partial[k] ELSE bin[k])

(* What the metadata say of a capture is true at every call.               *)
MetadataAreTrue == CompleteIsCommitted /\ NeverClaimsMore

(* Evidence is never replaced: published bytes and what is said of a       *)
(* complete capture stay as they are, whatever the device sends again.     *)
EvidenceIsKept ==
  [][\A k \in Ids : /\ bin[k] # Absent => bin'[k] = bin[k]
                    /\ Says(k, "complete") => json'[k] = json[k]]_vars

(* What close() reports is what the directory says: the captures that have *)
(* no complete metadata, each of which has metadata that say incomplete.   *)
ReportIsTrue ==
  run = "closed" =>
    \A k \in seen : Says(k, IF k \in incomplete THEN "incomplete" ELSE "complete")
=============================================================================
