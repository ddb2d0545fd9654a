-------------------------- MODULE CaptureStoreProofs --------------------------
(***************************************************************************)
(* The store of captures, for any captures, boots, sizes and limits.       *)
(***************************************************************************)
EXTENDS CaptureStore, TLAPS

(* What each variable may hold.                                            *)
Types ==
  /\ partial \in [Ids -> Seq(Data) \cup {Absent}] /\ bin \in [Ids -> Seq(Data) \cup {Absent}]
  /\ json \in [Ids -> Records \cup {Absent}] /\ tmp \in [Ids -> Records \cup {Absent, Bad}]
  /\ active \in [Ids -> Jobs \cup {Absent}]
  /\ label = NoLabel \/ label \in [id : Ids, call : {"open", "write", "replace"}, record : Records]
  /\ run \in {"open", "ending", "closing", "closed", "raised"}

Bytes(k) == IF bin[k] = Absent THEN partial[k] ELSE bin[k]
Publishing(k) == label # NoLabel /\ label.id = k /\ label.record.status = "complete"

(* What is known of a capture while it is active.                          *)
Known(k) ==
  /\ k \in seen /\ ~Says(k, "complete")
  /\ Len(active[k].hash) <= Len(Bytes(k))
  /\ bin[k] # Absent => bin[k] = Original(active[k].boot)
  /\ json[k] # Absent => json[k].boot = active[k].boot
  /\ run = "open" /\ ~Publishing(k) => bin[k] = Absent /\ partial[k] = active[k].hash
  /\ run = "open" /\ (label = NoLabel \/ label.id # k) => json[k] # Absent
  /\ run \in {"ending", "closing"} => label = NoLabel \/ label.id # k

ActiveInv == \A k \in Active : Known(k)

(* What is about to be said of a capture is true.                          *)
LabelInv ==
  label # NoLabel =>
    /\ ~Says(label.id, "complete") /\ label.id \in seen
    /\ label.record.received <= Len(Bytes(label.id))
    /\ bin[label.id] # Absent => bin[label.id] = Original(label.record.boot)
    /\ json[label.id] # Absent => json[label.id].boot = label.record.boot
    /\ label.record.status = "complete" => bin[label.id] # Absent /\ label.record.received = Size
    /\ run = "open" => label.id \in Active /\ label.record.boot = active[label.id].boot
    /\ run \in {"open", "closing"}
    /\ run = "closing" => label.id \in incomplete /\ label.record.status = "incomplete"

(* What has been started is active, complete, or reported.                 *)
ReportInv ==
  /\ run \in {"open", "ending"} => \A k \in seen : k \in Active \/ Says(k, "complete")
  /\ run \in {"closing", "closed"} =>
       \A k \in seen : IF k \in incomplete
                       THEN Says(k, "incomplete") \/ k \in Active \/ (label # NoLabel /\ label.id = k)
                       ELSE Says(k, "complete")
  /\ run = "closed" => Active = {} /\ label = NoLabel
  /\ run = "closing" => Active \subseteq incomplete

IInv == /\ Types /\ ActiveInv /\ LabelInv /\ ReportInv
        /\ PublishedIsWhole /\ CompleteIsCommitted /\ NeverClaimsMore

-----------------------------------------------------------------------------
(* The original is a sequence of chunks, as long as announced.             *)
LEMMA OriginalIsData ==
  \A b \in Boots : Original(b) \in Seq(Data) /\ Len(Original(b)) = Size /\ Original(b) # Absent
BY CaptureConstants DEF Original, Data

(* A chunk more.                                                           *)
LEMMA Grows ==
  \A s \in Seq(Data), d \in Data :
    Append(s, d) \in Seq(Data) /\ Len(Append(s, d)) = Len(s) + 1 /\ Len(s) \in Nat
OBVIOUS

(* What a chunk does to its capture, written or not.                       *)
Grown(k, b, s) ==
  /\ Len(s) = Len(active[k].hash) + 1 /\ Len(active[k].hash) \in Nat
  /\ active' = [active EXCEPT ![k] = [boot |-> b, hash |-> s]] /\ b = active[k].boot
  /\ partial' = [partial EXCEPT ![k] = s]
  /\ partial[k] = active[k].hash /\ bin[k] = Absent /\ active[k] # Absent
  /\ run = "open" /\ label = NoLabel
  /\ UNCHANGED <<bin, json, tmp, invalid, seen, label, incomplete, run>>

Torn(k, s) ==
  /\ Len(s) \in Nat /\ Len(active[k].hash) \in Nat /\ Len(active[k].hash) <= Len(s)
  /\ partial' = [partial EXCEPT ![k] = s]
  /\ partial[k] = active[k].hash /\ bin[k] = Absent /\ active[k] # Absent
  /\ run = "open" /\ label = NoLabel /\ run' = "ending"
  /\ UNCHANGED <<bin, json, tmp, active, invalid, seen, label, incomplete>>

(* What the start and the end of a capture do.                             *)
Started(k, b) ==
  /\ k \notin seen /\ active[k] = Absent
  /\ bin[k] = Absent /\ partial[k] = Absent /\ json[k] = Absent
  /\ run = "open" /\ label = NoLabel
  /\ active' = [active EXCEPT ![k] = [boot |-> b, hash |-> <<>>]]
  /\ partial' = [partial EXCEPT ![k] = <<>>] /\ seen' = seen \cup {k}
  /\ label' = [id |-> k, call |-> "open",
               record |-> [status |-> "incomplete", boot |-> b, received |-> 0]]
  /\ label' # NoLabel /\ Active' = Active \cup {k}
  /\ UNCHANGED <<bin, json, tmp, invalid, incomplete, run>>

Ended(k, b) ==
  /\ active[k] # Absent /\ b = active[k].boot /\ k \notin invalid
  /\ bin[k] = Absent /\ partial[k] = Original(b)
  /\ run = "open" /\ label = NoLabel
  /\ bin' = [bin EXCEPT ![k] = Original(b)] /\ partial' = [partial EXCEPT ![k] = Absent]
  /\ label' = [id |-> k, call |-> "open",
               record |-> [status |-> "complete", boot |-> b, received |-> Size]]
  /\ UNCHANGED <<json, tmp, active, invalid, seen, incomplete, run>>

Relabelled(k) ==
  /\ active[k] # Absent /\ run = "closing" /\ label = NoLabel
  /\ label' = [id |-> k, call |-> "open",
               record |-> [status |-> "incomplete", boot |-> active[k].boot,
                           received |-> Len(active[k].hash)]]
  /\ active' = [active EXCEPT ![k] = Absent]
  /\ UNCHANGED <<files, invalid, seen, incomplete, run>>

(* A capture that starts is active.                                        *)
LEMMA Fresh ==
  \A b \in Boots : /\ [boot |-> b, hash |-> <<>>] \in Jobs
                   /\ [boot |-> b, hash |-> <<>>] # Absent
<1>1. <<>> \in Seq(Data)
  OBVIOUS
<1>2. \A b \in Boots : [boot |-> b, hash |-> <<>>] \in Jobs
  BY <1>1 DEF Jobs
<1> QED BY <1>2, CaptureConstants

(* A start that is admitted.                                               *)
LEMMA Starts ==
  ASSUME IInv, NEW k \in Ids, NEW b \in Boots, Start(k, b)
  PROVE  Started(k, b)
<1>1. active'[k] = [boot |-> b, hash |-> <<>>] /\ Len(<<>>) = 0
  BY DEF Start, IInv, Types
<1>2. label' = [id |-> k, call |-> "open",
                record |-> [status |-> "incomplete", boot |-> b, received |-> 0]]
  BY <1>1 DEF Start, Label
<1>3. label' # NoLabel
  BY <1>2, CaptureConstants DEF NoLabel
<1>4. active' = [active EXCEPT ![k] = [boot |-> b, hash |-> <<>>]]
      /\ [boot |-> b, hash |-> <<>>] # Absent
  BY Fresh DEF Start
<1>5. Active' = Active \cup {k}
  <2> SUFFICES ASSUME NEW j \in Ids PROVE active'[j] # Absent <=> active[j] # Absent \/ j = k
    BY DEF Active
  <2> QED BY <1>4 DEF IInv, Types
<1> QED BY <1>2, <1>3, <1>5 DEF Start, MayStart, Reading, Active, Started

(* An end that is admitted finds all the bytes on the disk.                *)
LEMMA Ends ==
  ASSUME IInv, NEW k \in Ids, NEW b \in Boots, End(k, b)
  PROVE  Ended(k, b)
<1>1. active' = active /\ active[k].boot = b /\ active[k].hash = Original(b)
  BY DEF End, Sound
<1>2. label' = [id |-> k, call |-> "open",
                record |-> [status |-> "complete", boot |-> b, received |-> Size]]
  BY <1>1, OriginalIsData DEF End, Label
<1>3. partial[k] = active[k].hash /\ bin[k] = Absent
  BY DEF IInv, ActiveInv, Known, Publishing, End, Reading
<1> QED BY <1>1, <1>2, <1>3 DEF End, Sound, Reading, Active, Ended

(* close() gives up a capture.                                             *)
LEMMA Relabels ==
  ASSUME NEW k \in Ids, Relabel(k)
  PROVE  Relabelled(k)
BY DEF Relabel, Active, Relabelled

(* The assignments to a job's hash.                                        *)
LEMMA Hashes ==
  \A a \in [boot : Boots, hash : Seq(Data)], h \in Seq(Data) :
    [a EXCEPT !.hash = h] = [boot |-> a.boot, hash |-> h]
OBVIOUS

(* A chunk that is written is hashed.                                      *)
LEMMA ChunkGrows ==
  ASSUME IInv, NEW k \in Ids, NEW b \in Boots, NEW offset \in 0..Size,
         NEW data \in {<<b, offset + 1>>, Bad}, Chunk(k, b, offset, data)
  PROVE  \E s \in Seq(Data) : Grown(k, b, s)
<1> DEFINE s == Append(active[k].hash, data)
<1>1. active[k] \in [boot : Boots, hash : Seq(Data)] /\ active[k].hash \in Seq(Data)
  BY DEF IInv, Types, Chunk, Active, Jobs
<1>2. data \in Data
  BY CaptureConstants DEF Data, Chunk, Fits
<1>3. s \in Seq(Data) /\ Len(s) = Len(active[k].hash) + 1 /\ Len(active[k].hash) \in Nat
  BY <1>1, <1>2, Grows
<1>4. partial[k] = active[k].hash /\ bin[k] = Absent /\ run = "open" /\ label = NoLabel
  BY DEF IInv, ActiveInv, Known, Publishing, Chunk, Reading
<1>5. [active[k] EXCEPT !.hash = s] = [boot |-> b, hash |-> s] /\ b = active[k].boot
  BY <1>1, <1>3, Hashes DEF Chunk, Fits
<1>6. active' = [active EXCEPT ![k] = [active[k] EXCEPT !.hash = s]]
  BY DEF Chunk
<1>7. partial' = [partial EXCEPT ![k] = s]
  BY <1>4 DEF Chunk
<1> HIDE DEF s
<1>8. Grown(k, b, s)
  BY <1>3, <1>4, <1>5, <1>6, <1>7 DEF Grown, Chunk, Active
<1> QED BY <1>3, <1>8

(* A write that fails may leave a part of the chunk behind.                *)
LEMMA ChunkTears ==
  ASSUME IInv, NEW k \in Ids, NEW b \in Boots, NEW offset \in 0..Size, ChunkFails(k, b, offset)
  PROVE  \E s \in Seq(Data) : Torn(k, s)
<1> DEFINE s == Append(active[k].hash, Bad)
<1>1. active[k] \in [boot : Boots, hash : Seq(Data)] /\ active[k].hash \in Seq(Data)
  BY DEF IInv, Types, ChunkFails, Active, Jobs
<1>2. Bad \in Data
  BY DEF Data
<1>3. s \in Seq(Data) /\ Len(s) = Len(active[k].hash) + 1 /\ Len(active[k].hash) \in Nat
  BY <1>1, <1>2, Grows
<1>4. partial[k] = active[k].hash /\ bin[k] = Absent /\ run = "open" /\ label = NoLabel
  BY DEF IInv, ActiveInv, Known, Publishing, ChunkFails, Reading
<1>5. partial = [partial EXCEPT ![k] = active[k].hash]
  BY <1>4 DEF IInv, Types
<1>6. /\ run' = "ending" /\ active[k] # Absent
      /\ UNCHANGED <<bin, json, tmp, active, invalid, seen, label, incomplete>>
  BY <1>4 DEF ChunkFails, Fails, Active
<1>7. partial' \in {partial, [partial EXCEPT ![k] = s]}
  BY <1>4 DEF ChunkFails
<1> HIDE DEF s
<1>8. CASE partial' = partial
  <2>1. Torn(k, active[k].hash)
    BY <1>3, <1>4, <1>5, <1>6, <1>8 DEF Torn
  <2> QED BY <1>1, <2>1
<1>9. CASE partial' = [partial EXCEPT ![k] = s]
  <2>1. Torn(k, s)
    BY <1>3, <1>4, <1>6, <1>9 DEF Torn
  <2> QED BY <1>3, <2>1
<1> QED BY <1>7, <1>8, <1>9

(* The steps of the store.                                                 *)
LEMMA StepCases ==
  ASSUME IInv, [Next]_vars
  PROVE  \/ \E k \in Ids, b \in Boots : Started(k, b) \/ Ended(k, b) \/ EndFails(k, b)
         \/ \E k \in Ids : StartFails(k) \/ Refused(k) \/ Relabelled(k)
         \/ \E k \in Ids, b \in Boots, s \in Seq(Data) : Grown(k, b, s)
         \/ \E k \in Ids, s \in Seq(Data) : Torn(k, s)
         \/ Open \/ Write \/ Replace \/ MetadataFails \/ EndRun \/ Close \/ Closed
         \/ UNCHANGED vars
BY ChunkGrows, ChunkTears, Starts, Ends, Relabels DEF Next, Consume

(* Every file, job and label keeps its type.                               *)
LEMMA TypesStep ==
  ASSUME IInv, [Next]_vars
  PROVE  Types'
<1> USE CaptureConstants, OriginalIsData, Grows DEF IInv, Types, Records, Jobs, Active, files,
        NoLabel
<1>1. ASSUME NEW k \in Ids, NEW b \in Boots, Started(k, b) PROVE Types'
  BY <1>1 DEF Started, Active
<1>2. ASSUME NEW k \in Ids, StartFails(k) PROVE Types'
  BY <1>2 DEF StartFails, Fails
<1>3. ASSUME NEW k \in Ids, Refused(k) PROVE Types'
  BY <1>3 DEF Refused, Reading, Active
<1>4. ASSUME NEW k \in Ids, NEW b \in Boots, NEW s \in Seq(Data), Grown(k, b, s) PROVE Types'
  BY <1>4 DEF Grown, Active
<1>5. ASSUME NEW k \in Ids, NEW s \in Seq(Data), Torn(k, s) PROVE Types'
  BY <1>5 DEF Torn, Active
<1>6. ASSUME NEW k \in Ids, NEW b \in Boots, Ended(k, b) PROVE Types'
  BY <1>6 DEF Ended, Active
<1>7. ASSUME NEW k \in Ids, NEW b \in Boots, EndFails(k, b) PROVE Types'
  BY <1>7 DEF EndFails, Fails
<1>8. CASE Open
  BY <1>8 DEF Open
<1>9. CASE Write
  BY <1>9 DEF Write
<1>10. CASE Replace
  BY <1>10 DEF Replace
<1>11. CASE MetadataFails
  BY <1>11 DEF MetadataFails, Fails
<1>12. CASE EndRun
  BY <1>12 DEF EndRun, Reading
<1>13. CASE Close
  BY <1>13 DEF Close
<1>14. ASSUME NEW k \in Ids, Relabelled(k) PROVE Types'
  BY <1>14 DEF Relabelled, Active
<1>15. CASE Closed
  BY <1>15 DEF Closed
<1>16. CASE UNCHANGED vars
  BY <1>16 DEF vars
<1> HIDE CaptureConstants, OriginalIsData, Grows DEF IInv, Types, Records, Jobs, Active, files,
         NoLabel
<1> QED BY StepCases, <1>1, <1>2, <1>3, <1>4, <1>5, <1>6, <1>7, <1>8, <1>9, <1>10, <1>11, <1>12,
           <1>13, <1>14, <1>15, <1>16

(* What is known of an active capture.                                     *)
LEMMA ActiveStep ==
  ASSUME IInv, [Next]_vars
  PROVE  ActiveInv'
<1> USE CaptureConstants, OriginalIsData, Grows DEF IInv, Types, ActiveInv, Known, LabelInv,
        Bytes, Publishing, Says, Active, Records, Jobs, files, NoLabel
<1>1. ASSUME NEW k \in Ids, NEW b \in Boots, Started(k, b) PROVE ActiveInv'
  <2> SUFFICES ASSUME NEW j \in Active' PROVE Known(j)'
    BY DEF ActiveInv
  <2>3. /\ Len(<<>>) = 0 /\ bin'[k] = Absent /\ json'[k] = Absent /\ partial'[k] = <<>>
        /\ active'[k] = [boot |-> b, hash |-> <<>>] /\ k \in seen'
    BY <1>1 DEF Started
  <2>1. CASE j = k
    BY <1>1, <2>1, <2>3 DEF Started, Active
  <2>2. CASE j # k
    BY <1>1, <2>2 DEF Started, Active
  <2> QED BY <2>1, <2>2
<1>2. ASSUME NEW k \in Ids, StartFails(k) PROVE ActiveInv'
  BY <1>2 DEF StartFails, Fails
<1>3. ASSUME NEW k \in Ids, Refused(k) PROVE ActiveInv'
  BY <1>3 DEF Refused, Reading, Active
<1>4. ASSUME NEW k \in Ids, NEW b \in Boots, NEW s \in Seq(Data), Grown(k, b, s) PROVE
              ActiveInv'
  <2> SUFFICES ASSUME NEW j \in Active' PROVE Known(j)'
    BY DEF ActiveInv
  <2>1. CASE j = k
    BY <1>4, <2>1 DEF Grown, Active
  <2>2. CASE j # k
    BY <1>4, <2>2 DEF Grown, Active
  <2> QED BY <2>1, <2>2
<1>5. ASSUME NEW k \in Ids, NEW s \in Seq(Data), Torn(k, s) PROVE ActiveInv'
  <2> SUFFICES ASSUME NEW j \in Active' PROVE Known(j)'
    BY DEF ActiveInv
  <2>1. CASE j = k
    BY <1>5, <2>1 DEF Torn, Active
  <2>2. CASE j # k
    BY <1>5, <2>2 DEF Torn, Active
  <2> QED BY <2>1, <2>2
<1>6. ASSUME NEW k \in Ids, NEW b \in Boots, Ended(k, b) PROVE ActiveInv'
  BY <1>6 DEF Ended, Active
<1>7. ASSUME NEW k \in Ids, NEW b \in Boots, EndFails(k, b) PROVE ActiveInv'
  BY <1>7 DEF EndFails, Fails
<1>8. CASE Open
  BY <1>8 DEF Open
<1>9. CASE Write
  BY <1>9 DEF Write
<1>10. CASE Replace
  <2> SUFFICES ASSUME NEW j \in Active' PROVE Known(j)'
    BY DEF ActiveInv
  <2>1. j \in Active /\ Known(j) /\ label \in [id : Ids, call : {"open", "write", "replace"}, record : Records]
    BY <1>10 DEF Replace
  <2>2. CASE j = label.id
    BY <1>10, <2>1, <2>2 DEF Replace
  <2>3. CASE j # label.id
    BY <1>10, <2>1, <2>3 DEF Replace
  <2> QED BY <2>2, <2>3
<1>11. CASE MetadataFails
  BY <1>11 DEF MetadataFails, Fails
<1>12. CASE EndRun
  BY <1>12 DEF EndRun, Reading
<1>13. CASE Close
  BY <1>13 DEF Close
<1>14. ASSUME NEW k \in Ids, Relabelled(k) PROVE ActiveInv'
  BY <1>14 DEF Relabelled, Active
<1>15. CASE Closed
  BY <1>15 DEF Closed
<1>16. CASE UNCHANGED vars
  BY <1>16 DEF vars
<1> HIDE CaptureConstants, OriginalIsData, Grows DEF IInv, Types, ActiveInv, Known, LabelInv,
         Bytes, Publishing, Says, Active, Records, Jobs, files, NoLabel
<1> QED BY StepCases, <1>1, <1>2, <1>3, <1>4, <1>5, <1>6, <1>7, <1>8, <1>9, <1>10, <1>11, <1>12,
           <1>13, <1>14, <1>15, <1>16

(* What is said is true.                                                   *)
LEMMA LabelStep ==
  ASSUME IInv, [Next]_vars
  PROVE  LabelInv'
<1> USE CaptureConstants, OriginalIsData, Grows DEF IInv, Types, ActiveInv, Known, LabelInv,
        ReportInv, Bytes, Publishing, Says, Active, Records, Jobs, files, NoLabel
<1>1. ASSUME NEW k \in Ids, NEW b \in Boots, Started(k, b) PROVE LabelInv'
  <2>1. /\ Len(<<>>) = 0 /\ bin'[k] = Absent /\ json'[k] = Absent /\ partial'[k] = <<>>
        /\ active'[k] = [boot |-> b, hash |-> <<>>] /\ k \in seen'
    BY <1>1 DEF Started
  <2>2. label'.id = k /\ label'.record.boot = b /\ label'.record.received = 0
        /\ label'.record.status = "incomplete" /\ k \in Active' /\ run' = "open"
    BY <1>1 DEF Started
  <2>3. json'[k] = Absent /\ ~Says(k, "complete")'
    BY <2>1 DEF Says
  <2>4. 0 <= Len(Bytes(k)')
    BY <2>1 DEF Bytes
  <2> QED BY <2>1, <2>2, <2>3, <2>4
<1>2. ASSUME NEW k \in Ids, StartFails(k) PROVE LabelInv'
  BY <1>2 DEF StartFails, Fails
<1>3. ASSUME NEW k \in Ids, Refused(k) PROVE LabelInv'
  BY <1>3 DEF Refused, Reading, Active
<1>4. ASSUME NEW k \in Ids, NEW b \in Boots, NEW s \in Seq(Data), Grown(k, b, s) PROVE LabelInv'
  BY <1>4 DEF Grown, Active
<1>5. ASSUME NEW k \in Ids, NEW s \in Seq(Data), Torn(k, s) PROVE LabelInv'
  BY <1>5 DEF Torn, Active
<1>6. ASSUME NEW k \in Ids, NEW b \in Boots, Ended(k, b) PROVE LabelInv'
  BY <1>6 DEF Ended, Active
<1>7. ASSUME NEW k \in Ids, NEW b \in Boots, EndFails(k, b) PROVE LabelInv'
  BY <1>7 DEF EndFails, Fails
<1>8. CASE Open
  BY <1>8 DEF Open
<1>9. CASE Write
  BY <1>9 DEF Write
<1>10. CASE Replace
  BY <1>10 DEF Replace
<1>11. CASE MetadataFails
  BY <1>11 DEF MetadataFails, Fails
<1>12. CASE EndRun
  BY <1>12 DEF EndRun, Reading
<1>13. CASE Close
  BY <1>13 DEF Close
<1>14. ASSUME NEW k \in Ids, Relabelled(k) PROVE LabelInv'
  BY <1>14 DEF Relabelled, Active
<1>15. CASE Closed
  BY <1>15 DEF Closed
<1>16. CASE UNCHANGED vars
  BY <1>16 DEF vars
<1> HIDE CaptureConstants, OriginalIsData, Grows DEF IInv, Types, ActiveInv, Known, LabelInv,
         ReportInv, Bytes, Publishing, Says, Active, Records, Jobs, files, NoLabel
<1> QED BY StepCases, <1>1, <1>2, <1>3, <1>4, <1>5, <1>6, <1>7, <1>8, <1>9, <1>10, <1>11, <1>12,
           <1>13, <1>14, <1>15, <1>16

(* Every capture is accounted for.                                         *)
LEMMA ReportStep ==
  ASSUME IInv, [Next]_vars
  PROVE  ReportInv'
<1> USE CaptureConstants DEF IInv, Types, ActiveInv, Known, LabelInv, ReportInv, Publishing,
        Says, Active, Records, Jobs, files, NoLabel
<1>1. ASSUME NEW k \in Ids, NEW b \in Boots, Started(k, b) PROVE ReportInv'
  <2>1. seen' = seen \cup {k} /\ Active' = Active \cup {k} /\ run' = "open" /\ json' = json
        /\ run = "open"
    BY <1>1 DEF Started
  <2>2. \A j \in seen' : j \in Active' \/ Says(j, "complete")'
    BY <2>1 DEF Says
  <2> QED BY <2>1, <2>2
<1>2. ASSUME NEW k \in Ids, StartFails(k) PROVE ReportInv'
  BY <1>2 DEF StartFails, Fails
<1>3. ASSUME NEW k \in Ids, Refused(k) PROVE ReportInv'
  BY <1>3 DEF Refused, Reading, Active
<1>4. ASSUME NEW k \in Ids, NEW b \in Boots, NEW s \in Seq(Data), Grown(k, b, s) PROVE
              ReportInv'
  BY <1>4 DEF Grown, Active
<1>5. ASSUME NEW k \in Ids, NEW s \in Seq(Data), Torn(k, s) PROVE ReportInv'
  BY <1>5 DEF Torn, Active
<1>6. ASSUME NEW k \in Ids, NEW b \in Boots, Ended(k, b) PROVE ReportInv'
  BY <1>6 DEF Ended, Active
<1>7. ASSUME NEW k \in Ids, NEW b \in Boots, EndFails(k, b) PROVE ReportInv'
  BY <1>7 DEF EndFails, Fails
<1>8. CASE Open
  BY <1>8 DEF Open
<1>9. CASE Write
  BY <1>9 DEF Write
<1>10. CASE Replace
  BY <1>10 DEF Replace
<1>11. CASE MetadataFails
  BY <1>11 DEF MetadataFails, Fails
<1>12. CASE EndRun
  BY <1>12 DEF EndRun, Reading
<1>13. CASE Close
  BY <1>13 DEF Close
<1>14. ASSUME NEW k \in Ids, Relabelled(k) PROVE ReportInv'
  BY <1>14 DEF Relabelled, Active
<1>15. CASE Closed
  BY <1>15 DEF Closed
<1>16. CASE UNCHANGED vars
  BY <1>16 DEF vars
<1> HIDE CaptureConstants DEF IInv, Types, ActiveInv, Known, LabelInv, ReportInv, Publishing,
         Says, Active, Records, Jobs, files, NoLabel
<1> QED BY StepCases, <1>1, <1>2, <1>3, <1>4, <1>5, <1>6, <1>7, <1>8, <1>9, <1>10, <1>11, <1>12,
           <1>13, <1>14, <1>15, <1>16

(* Published bytes are whole.                                              *)
LEMMA WholeStep ==
  ASSUME IInv, [Next]_vars
  PROVE  PublishedIsWhole'
<1> USE CaptureConstants, OriginalIsData DEF IInv, Types, ActiveInv, Known, LabelInv,
        PublishedIsWhole, Publishing, Records, Jobs, Active, files, NoLabel
<1>1. ASSUME NEW k \in Ids, NEW b \in Boots, Started(k, b) PROVE PublishedIsWhole'
  BY <1>1 DEF Started, Active
<1>2. ASSUME NEW k \in Ids, StartFails(k) PROVE PublishedIsWhole'
  BY <1>2 DEF StartFails, Fails
<1>3. ASSUME NEW k \in Ids, Refused(k) PROVE PublishedIsWhole'
  BY <1>3 DEF Refused, Reading, Active
<1>4. ASSUME NEW k \in Ids, NEW b \in Boots, NEW s \in Seq(Data), Grown(k, b, s) PROVE
              PublishedIsWhole'
  BY <1>4 DEF Grown, Active
<1>5. ASSUME NEW k \in Ids, NEW s \in Seq(Data), Torn(k, s) PROVE PublishedIsWhole'
  BY <1>5 DEF Torn, Active
<1>6. ASSUME NEW k \in Ids, NEW b \in Boots, Ended(k, b) PROVE PublishedIsWhole'
  BY <1>6 DEF Ended, Active
<1>7. ASSUME NEW k \in Ids, NEW b \in Boots, EndFails(k, b) PROVE PublishedIsWhole'
  BY <1>7 DEF EndFails, Fails
<1>8. CASE Open
  BY <1>8 DEF Open
<1>9. CASE Write
  BY <1>9 DEF Write
<1>10. CASE Replace
  BY <1>10 DEF Replace
<1>11. CASE MetadataFails
  BY <1>11 DEF MetadataFails, Fails
<1>12. CASE EndRun
  BY <1>12 DEF EndRun, Reading
<1>13. CASE Close
  BY <1>13 DEF Close
<1>14. ASSUME NEW k \in Ids, Relabelled(k) PROVE PublishedIsWhole'
  BY <1>14 DEF Relabelled, Active
<1>15. CASE Closed
  BY <1>15 DEF Closed
<1>16. CASE UNCHANGED vars
  BY <1>16 DEF vars
<1> HIDE CaptureConstants, OriginalIsData DEF IInv, Types, ActiveInv, Known, LabelInv,
         PublishedIsWhole, Publishing, Records, Jobs, Active, files, NoLabel
<1> QED BY StepCases, <1>1, <1>2, <1>3, <1>4, <1>5, <1>6, <1>7, <1>8, <1>9, <1>10, <1>11, <1>12,
           <1>13, <1>14, <1>15, <1>16

(* Metadata come last.                                                     *)
LEMMA CommitStep ==
  ASSUME IInv, [Next]_vars
  PROVE  CompleteIsCommitted'
<1> USE CaptureConstants, OriginalIsData DEF IInv, Types, LabelInv, CompleteIsCommitted, Says,
        Records, Jobs, Active, files, NoLabel
<1>1. ASSUME NEW k \in Ids, NEW b \in Boots, Started(k, b) PROVE CompleteIsCommitted'
  BY <1>1 DEF Started, Active
<1>2. ASSUME NEW k \in Ids, StartFails(k) PROVE CompleteIsCommitted'
  BY <1>2 DEF StartFails, Fails
<1>3. ASSUME NEW k \in Ids, Refused(k) PROVE CompleteIsCommitted'
  BY <1>3 DEF Refused, Reading, Active
<1>4. ASSUME NEW k \in Ids, NEW b \in Boots, NEW s \in Seq(Data), Grown(k, b, s) PROVE
              CompleteIsCommitted'
  BY <1>4 DEF Grown, Active
<1>5. ASSUME NEW k \in Ids, NEW s \in Seq(Data), Torn(k, s) PROVE CompleteIsCommitted'
  BY <1>5 DEF Torn, Active
<1>6. ASSUME NEW k \in Ids, NEW b \in Boots, Ended(k, b) PROVE CompleteIsCommitted'
  BY <1>6 DEF Ended, Active
<1>7. ASSUME NEW k \in Ids, NEW b \in Boots, EndFails(k, b) PROVE CompleteIsCommitted'
  BY <1>7 DEF EndFails, Fails
<1>8. CASE Open
  BY <1>8 DEF Open
<1>9. CASE Write
  BY <1>9 DEF Write
<1>10. CASE Replace
  BY <1>10 DEF Replace
<1>11. CASE MetadataFails
  BY <1>11 DEF MetadataFails, Fails
<1>12. CASE EndRun
  BY <1>12 DEF EndRun, Reading
<1>13. CASE Close
  BY <1>13 DEF Close
<1>14. ASSUME NEW k \in Ids, Relabelled(k) PROVE CompleteIsCommitted'
  BY <1>14 DEF Relabelled, Active
<1>15. CASE Closed
  BY <1>15 DEF Closed
<1>16. CASE UNCHANGED vars
  BY <1>16 DEF vars
<1> HIDE CaptureConstants, OriginalIsData DEF IInv, Types, LabelInv, CompleteIsCommitted, Says,
         Records, Jobs, Active, files, NoLabel
<1> QED BY StepCases, <1>1, <1>2, <1>3, <1>4, <1>5, <1>6, <1>7, <1>8, <1>9, <1>10, <1>11, <1>12,
           <1>13, <1>14, <1>15, <1>16

(* No byte is claimed that is not there.                                   *)
LEMMA ClaimStep ==
  ASSUME IInv, [Next]_vars
  PROVE  NeverClaimsMore'
<1> USE CaptureConstants, OriginalIsData, Grows DEF IInv, Types, ActiveInv, Known, LabelInv,
        NeverClaimsMore, Bytes, Publishing, Says, Active, Records, Jobs, files, NoLabel
<1>1. ASSUME NEW k \in Ids, NEW b \in Boots, Started(k, b) PROVE NeverClaimsMore'
  BY <1>1 DEF Started, Active
<1>2. ASSUME NEW k \in Ids, StartFails(k) PROVE NeverClaimsMore'
  BY <1>2 DEF StartFails, Fails
<1>3. ASSUME NEW k \in Ids, Refused(k) PROVE NeverClaimsMore'
  BY <1>3 DEF Refused, Reading, Active
<1>4. ASSUME NEW k \in Ids, NEW b \in Boots, NEW s \in Seq(Data), Grown(k, b, s) PROVE
              NeverClaimsMore'
  BY <1>4 DEF Grown, Active
<1>5. ASSUME NEW k \in Ids, NEW s \in Seq(Data), Torn(k, s) PROVE NeverClaimsMore'
  BY <1>5 DEF Torn, Active
<1>6. ASSUME NEW k \in Ids, NEW b \in Boots, Ended(k, b) PROVE NeverClaimsMore'
  BY <1>6 DEF Ended, Active
<1>7. ASSUME NEW k \in Ids, NEW b \in Boots, EndFails(k, b) PROVE NeverClaimsMore'
  BY <1>7 DEF EndFails, Fails
<1>8. CASE Open
  BY <1>8 DEF Open
<1>9. CASE Write
  BY <1>9 DEF Write
<1>10. CASE Replace
  BY <1>10 DEF Replace
<1>11. CASE MetadataFails
  BY <1>11 DEF MetadataFails, Fails
<1>12. CASE EndRun
  BY <1>12 DEF EndRun, Reading
<1>13. CASE Close
  BY <1>13 DEF Close
<1>14. ASSUME NEW k \in Ids, Relabelled(k) PROVE NeverClaimsMore'
  BY <1>14 DEF Relabelled, Active
<1>15. CASE Closed
  BY <1>15 DEF Closed
<1>16. CASE UNCHANGED vars
  BY <1>16 DEF vars
<1> HIDE CaptureConstants, OriginalIsData, Grows DEF IInv, Types, ActiveInv, Known, LabelInv,
         NeverClaimsMore, Bytes, Publishing, Says, Active, Records, Jobs, files, NoLabel
<1> QED BY StepCases, <1>1, <1>2, <1>3, <1>4, <1>5, <1>6, <1>7, <1>8, <1>9, <1>10, <1>11, <1>12,
           <1>13, <1>14, <1>15, <1>16

(* A step keeps the evidence of a capture.                                 *)
Keeps(k) ==
  /\ bin[k] # Absent => bin'[k] = bin[k]
  /\ Says(k, "complete") => json'[k] = json[k]

(* Evidence stays as it is.                                                *)
LEMMA EvidenceStep ==
  ASSUME IInv, [Next]_vars
  PROVE  \A j \in Ids : Keeps(j)
<1> USE CaptureConstants, OriginalIsData DEF IInv, Types, LabelInv, Says, Keeps, Records, Jobs,
        Active, files, NoLabel
<1>1. ASSUME NEW k \in Ids, NEW b \in Boots, Started(k, b) PROVE \A j \in Ids : Keeps(j)
  BY <1>1 DEF Started, Active
<1>2. ASSUME NEW k \in Ids, StartFails(k) PROVE \A j \in Ids : Keeps(j)
  BY <1>2 DEF StartFails, Fails
<1>3. ASSUME NEW k \in Ids, Refused(k) PROVE \A j \in Ids : Keeps(j)
  BY <1>3 DEF Refused, Reading, Active
<1>4. ASSUME NEW k \in Ids, NEW b \in Boots, NEW s \in Seq(Data), Grown(k, b, s) PROVE \A j \in
              Ids : Keeps(j)
  BY <1>4 DEF Grown, Active
<1>5. ASSUME NEW k \in Ids, NEW s \in Seq(Data), Torn(k, s) PROVE \A j \in Ids : Keeps(j)
  BY <1>5 DEF Torn, Active
<1>6. ASSUME NEW k \in Ids, NEW b \in Boots, Ended(k, b) PROVE \A j \in Ids : Keeps(j)
  BY <1>6 DEF Ended, Active
<1>7. ASSUME NEW k \in Ids, NEW b \in Boots, EndFails(k, b) PROVE \A j \in Ids : Keeps(j)
  BY <1>7 DEF EndFails, Fails
<1>8. CASE Open
  BY <1>8 DEF Open
<1>9. CASE Write
  BY <1>9 DEF Write
<1>10. CASE Replace
  BY <1>10 DEF Replace
<1>11. CASE MetadataFails
  BY <1>11 DEF MetadataFails, Fails
<1>12. CASE EndRun
  BY <1>12 DEF EndRun, Reading
<1>13. CASE Close
  BY <1>13 DEF Close
<1>14. ASSUME NEW k \in Ids, Relabelled(k) PROVE \A j \in Ids : Keeps(j)
  BY <1>14 DEF Relabelled, Active
<1>15. CASE Closed
  BY <1>15 DEF Closed
<1>16. CASE UNCHANGED vars
  BY <1>16 DEF vars
<1> HIDE CaptureConstants, OriginalIsData DEF IInv, Types, LabelInv, Says, Keeps, Records, Jobs,
         Active, files, NoLabel
<1> QED BY StepCases, <1>1, <1>2, <1>3, <1>4, <1>5, <1>6, <1>7, <1>8, <1>9, <1>10, <1>11, <1>12,
           <1>13, <1>14, <1>15, <1>16

-----------------------------------------------------------------------------
(* The store begins empty.                                                 *)
LEMMA InitIInv ==
  ASSUME Init
  PROVE  IInv
<1>1. Active = {}
  BY DEF Init, Active
<1>2. Types
  BY DEF Init, Types
<1>3. ActiveInv /\ LabelInv /\ ReportInv
  BY <1>1 DEF Init, ActiveInv, LabelInv, ReportInv
<1>4. PublishedIsWhole /\ CompleteIsCommitted /\ NeverClaimsMore
  BY DEF Init, PublishedIsWhole, CompleteIsCommitted, NeverClaimsMore, Says
<1> QED BY <1>2, <1>3, <1>4 DEF IInv

(* The types, what is known of active captures, labels and reports, and    *)
(* the three safety properties hold together.                              *)
THEOREM Inductive == Spec => []IInv
<1>1. Init => IInv
  BY InitIInv
<1>2. IInv /\ [Next]_vars => IInv'
  BY TypesStep, ActiveStep, LabelStep, ReportStep, WholeStep, CommitStep, ClaimStep DEF IInv
<1> QED BY <1>1, <1>2, PTL DEF Spec

(* For any number of captures and any sizes: a .bin is exactly what one    *)
(* boot sent, and has its metadata, at every call that touches the disk.   *)
THEOREM WholeOrNothing == Spec => []PublishedIsWhole
<1>1. IInv => PublishedIsWhole
  BY DEF IInv
<1> QED BY <1>1, Inductive, PTL

(* Metadata that say complete are written last, and none ever claim bytes  *)
(* that the disk has not got.                                              *)
THEOREM MetadataStayTrue == Spec => []MetadataAreTrue
<1>1. IInv => MetadataAreTrue
  BY DEF IInv, MetadataAreTrue
<1> QED BY <1>1, Inductive, PTL

(* What close() reports is what the directory says.                        *)
THEOREM ReportsAreTrue == Spec => []ReportIsTrue
<1>1. IInv => ReportIsTrue
  BY DEF IInv, ReportInv, ReportIsTrue
<1> QED BY <1>1, Inductive, PTL

(* Evidence that is published, or said to be complete, is never replaced.  *)
THEOREM EvidenceStays == Spec => EvidenceIsKept
<1>1. IInv /\ [Next]_vars =>
        [\A k \in Ids : /\ bin[k] # Absent => bin'[k] = bin[k]
                        /\ Says(k, "complete") => json'[k] = json[k]]_vars
  BY EvidenceStep DEF Keeps
<1> QED BY <1>1, Inductive, PTL DEF Spec, EvidenceIsKept
=============================================================================
