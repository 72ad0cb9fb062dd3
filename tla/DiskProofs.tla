----------------------------- MODULE DiskProofs -----------------------------
(***************************************************************************)
(* What is kept in files beside the database: the trace journal with its   *)
(* blobs, and the context index with the files it stands for.  Proved for  *)
(* any number of writers, payloads and days, of indexers, files, texts and *)
(* seconds, with crashes and edits between any two steps.                  *)
(***************************************************************************)
EXTENDS Recorder, ContextIndex, TLAPS

-----------------------------------------------------------------------------
(***************************************************************************)
(* Every journalled blob is on disk, whatever the pruner removes           *)
(* meanwhile.                                                              *)
(***************************************************************************)

Backed(p) == blob[p] = "whole" \/ BeingWritten(p) \/ p \in spoiled \/ Old(blobTime[p])

FilesOK ==
  /\ day \in Int /\ cutoff \in Int /\ modified \in Int
  /\ blob \in [Payloads -> {"none", "part", "whole"}]
  /\ blobTime \in [Payloads -> Int]
  /\ journal \in [Writers -> SUBSET Payloads]
  /\ journalTime \in [Writers -> Int]

WritersOK ==
  /\ writing \in [Writers -> WritingStages]
  /\ holding \in [Writers -> Payloads \union {NoFile}]
  /\ \A w \in Writers : writing[w] # "idle" => holding[w] \in Payloads

\* What the pruner is about to unlink was too old when it looked.
PrunerOK ==
  /\ pruner # "idle" => cutoff <= day - TraceRetention
  /\ doomed # NoFile => modified < cutoff /\ pruner # "idle"

\* A blob is in part only while it is written, or after its writer died over it.
PartsOK == \A p \in Payloads : blob[p] = "part" => BeingWritten(p) \/ p \in spoiled

\* A blob that is gone under its writer was pruned.
GoneOK ==
  \A w \in Writers : writing[w] = "finish" /\ blob[holding[w]] = "none" =>
    holding[w] \in spoiled \/ Old(blobTime[holding[w]])

\* The line that is about to be appended will be backed.
AppendOK == \A w \in Writers : writing[w] = "append" => Backed(holding[w])

BlobsOK == PartsOK /\ GoneOK /\ AppendOK /\ JournalBacked

RecorderInv == FilesOK /\ WritersOK /\ PrunerOK /\ BlobsOK

LEMMA RecorderInitInv == RecorderInit => RecorderInv
<1> SUFFICES ASSUME RecorderInit PROVE RecorderInv
  OBVIOUS
<1>1. FilesOK /\ WritersOK /\ PrunerOK
  BY DEF RecorderInit, FilesOK, WritersOK, PrunerOK, WritingStages
<1>2. BlobsOK
  BY DEF RecorderInit, BlobsOK, PartsOK, GoneOK, AppendOK, JournalBacked
<1> QED
  BY <1>1, <1>2 DEF RecorderInv

-----------------------------------------------------------------------------
(* Writers. *)

\* One writer steps; the others, and the pruner, stay where they are.
LEMMA WriterStep ==
  ASSUME RecorderInv, NEW w \in Writers, NEW stage \in WritingStages,
         writing' = [writing EXCEPT ![w] = stage],
         holding' \in [Writers -> Payloads \union {NoFile}],
         \A v \in Writers \ {w} : holding'[v] = holding[v],
         stage # "idle" => holding'[w] \in Payloads,
         UNCHANGED <<day, pruning>>
  PROVE  /\ WritersOK' /\ PrunerOK'
         /\ writing'[w] = stage
         /\ \A v \in Writers \ {w} : writing'[v] = writing[v] /\ holding'[v] = holding[v]
         /\ \A p \in Payloads :
              BeingWritten(p) => BeingWritten(p)' \/ (writing[w] = "finish" /\ holding[w] = p)
<1>1. writing \in [Writers -> WritingStages]
  BY DEF RecorderInv, WritersOK
<1>2. writing'[w] = stage /\ \A v \in Writers \ {w} : writing'[v] = writing[v]
  BY <1>1
<1>3. WritersOK'
  BY <1>1, <1>2 DEF RecorderInv, WritersOK
<1>4. PrunerOK'
  BY DEF RecorderInv, PrunerOK, pruning
<1>5. ASSUME NEW p \in Payloads, BeingWritten(p), ~(writing[w] = "finish" /\ holding[w] = p)
      PROVE  BeingWritten(p)'
  BY <1>2, <1>5 DEF BeingWritten
<1> QED
  BY <1>2, <1>3, <1>4, <1>5

\* Steps that change no file: a writer takes up a payload, or gives it up before
\* it has touched the blob.
LEMMA UntouchedInv ==
  ASSUME RecorderInv, NEW w \in Writers, Record(w) \/ WriteFails(w) PROVE RecorderInv'
<1>1. PICK stage \in {"idle", "check"} : writing' = [writing EXCEPT ![w] = stage]
  BY DEF Record, WriteFails, WriterTo
<1>2. /\ writing[w] \in {"idle", "write"}
      /\ UNCHANGED <<day, blobs, journals, pruning, spoiled>>
  BY DEF Record, WriteFails
<1>3. /\ holding' \in [Writers -> Payloads \union {NoFile}]
      /\ \A v \in Writers \ {w} : holding'[v] = holding[v]
      /\ writing'[w] # "idle" => holding'[w] \in Payloads
  BY DEF Record, WriteFails, WriterTo, RecorderInv, WritersOK
<1>4. /\ WritersOK' /\ PrunerOK' /\ writing'[w] = stage
      /\ \A v \in Writers \ {w} : writing'[v] = writing[v] /\ holding'[v] = holding[v]
      /\ \A p \in Payloads : BeingWritten(p) => BeingWritten(p)'
  <2>1. stage \in WritingStages /\ (stage # "idle" => holding'[w] \in Payloads)
    BY <1>1, <1>3 DEF WritingStages, RecorderInv, WritersOK
  <2> QED
    BY <1>1, <1>2, <1>3, <2>1, WriterStep
<1>5. FilesOK'
  BY <1>2 DEF RecorderInv, FilesOK, blobs, journals, pruning
<1>6. \A p \in Payloads : Backed(p) => Backed(p)'
  BY <1>2, <1>4 DEF Backed, Old, blobs
<1>7. BlobsOK'
  <2>1. PartsOK'
    BY <1>2, <1>4 DEF RecorderInv, BlobsOK, PartsOK, blobs
  <2>2. GoneOK'
    BY <1>1, <1>2, <1>4 DEF RecorderInv, BlobsOK, GoneOK, Old, blobs
  <2>3. AppendOK'
    BY <1>1, <1>4, <1>6 DEF RecorderInv, BlobsOK, AppendOK, WritersOK
  <2>4. JournalBacked'
    BY <1>2, <1>6 DEF RecorderInv, BlobsOK, JournalBacked, Backed, FilesOK, journals
  <2> QED
    BY <2>1, <2>2, <2>3, <2>4 DEF BlobsOK
<1> QED
  BY <1>4, <1>5, <1>7 DEF RecorderInv

\* A blob that is there is taken for stored: it is whole, or it will be accounted for.
LEMMA CheckInv ==
  ASSUME RecorderInv, NEW w \in Writers, CheckBlob(w) PROVE RecorderInv'
<1>1. PICK stage \in {"append", "write"} : writing' = [writing EXCEPT ![w] = stage]
  BY DEF CheckBlob, WriterTo
<1>2. /\ writing[w] = "check" /\ holding' = holding /\ holding[w] \in Payloads
      /\ UNCHANGED <<day, blobs, journals, pruning, spoiled>>
  BY DEF CheckBlob, RecorderInv, WritersOK
<1>3. stage = "append" => Backed(holding[w])
  <2>1. stage = "append" => blob[holding[w]] # "none"
    BY <1>1, <1>2 DEF CheckBlob, WriterTo, RecorderInv, WritersOK
  <2>2. blob[holding[w]] \in {"none", "part", "whole"}
    BY <1>2 DEF RecorderInv, FilesOK
  <2> QED
    BY <1>2, <2>1, <2>2 DEF Backed, RecorderInv, BlobsOK, PartsOK
<1>4. /\ WritersOK' /\ PrunerOK' /\ writing'[w] = stage
      /\ \A v \in Writers \ {w} : writing'[v] = writing[v] /\ holding'[v] = holding[v]
      /\ \A p \in Payloads : BeingWritten(p) => BeingWritten(p)'
  <2>1. stage \in WritingStages /\ holding' \in [Writers -> Payloads \union {NoFile}]
    BY <1>2 DEF WritingStages, RecorderInv, WritersOK
  <2> QED
    BY <1>1, <1>2, <2>1, WriterStep
<1>5. FilesOK'
  BY <1>2 DEF RecorderInv, FilesOK, blobs, journals, pruning
<1>6. \A p \in Payloads : Backed(p) => Backed(p)'
  BY <1>2, <1>4 DEF Backed, Old, blobs
<1>7. BlobsOK'
  <2>1. PartsOK'
    BY <1>2, <1>4 DEF RecorderInv, BlobsOK, PartsOK, blobs
  <2>2. GoneOK'
    BY <1>1, <1>2, <1>4 DEF RecorderInv, BlobsOK, GoneOK, Old, blobs
  <2>3. AppendOK'
    BY <1>2, <1>3, <1>4, <1>6 DEF RecorderInv, BlobsOK, AppendOK, WritersOK
  <2>4. JournalBacked'
    BY <1>2, <1>6 DEF RecorderInv, BlobsOK, JournalBacked, Backed, FilesOK, journals
  <2> QED
    BY <2>1, <2>2, <2>3, <2>4 DEF BlobsOK
<1> QED
  BY <1>4, <1>5, <1>7 DEF RecorderInv

\* A blob that is truncated, again or for the first time, is being written.
LEMMA CreateInv ==
  ASSUME RecorderInv, NEW w \in Writers, CreateBlob(w) PROVE RecorderInv'
<1> DEFINE q == holding[w]
<1>1. /\ writing[w] = "write" /\ writing' = [writing EXCEPT ![w] = "finish"]
      /\ holding' = holding /\ q \in Payloads
      /\ blob' = [blob EXCEPT ![q] = "part"] /\ blobTime' = [blobTime EXCEPT ![q] = day]
      /\ UNCHANGED <<day, journals, pruning, spoiled>>
  BY DEF CreateBlob, WriterTo, RecorderInv, WritersOK
<1>2. /\ WritersOK' /\ PrunerOK' /\ writing'[w] = "finish"
      /\ \A v \in Writers \ {w} : writing'[v] = writing[v] /\ holding'[v] = holding[v]
      /\ \A p \in Payloads : BeingWritten(p) => BeingWritten(p)'
  <2>1. "finish" \in WritingStages /\ holding' \in [Writers -> Payloads \union {NoFile}]
    BY <1>1 DEF WritingStages, RecorderInv, WritersOK
  <2> QED
    BY <1>1, <2>1, WriterStep
<1>3. /\ blob \in [Payloads -> {"none", "part", "whole"}] /\ blobTime \in [Payloads -> Int]
      /\ day \in Int
  BY DEF RecorderInv, FilesOK
<1>4. /\ \A p \in Payloads \ {q} : blob'[p] = blob[p] /\ blobTime'[p] = blobTime[p]
      /\ blob'[q] = "part" /\ BeingWritten(q)'
  BY <1>1, <1>2, <1>3 DEF BeingWritten
<1>5. FilesOK'
  BY <1>1, <1>3 DEF RecorderInv, FilesOK, journals, pruning
<1>6. \A p \in Payloads : Backed(p) => Backed(p)'
  BY <1>1, <1>2, <1>4 DEF Backed, Old
<1>7. BlobsOK'
  <2>1. PartsOK'
    BY <1>1, <1>2, <1>4 DEF RecorderInv, BlobsOK, PartsOK
  <2>2. GoneOK'
    <3> SUFFICES ASSUME NEW v \in Writers, writing'[v] = "finish", blob'[holding[v]] = "none"
                 PROVE  holding[v] \in spoiled \/ Old(blobTime[holding[v]])'
      BY <1>1 DEF GoneOK
    <3>1. v # w /\ holding[v] # q
      BY <1>4
    <3>2. writing[v] = "finish" /\ holding[v] \in Payloads
      BY <1>2, <3>1 DEF RecorderInv, WritersOK
    <3> QED
      BY <1>1, <1>4, <3>1, <3>2 DEF RecorderInv, BlobsOK, GoneOK, Old
  <2>3. AppendOK'
    BY <1>1, <1>2, <1>6 DEF RecorderInv, BlobsOK, AppendOK, WritersOK
  <2>4. JournalBacked'
    BY <1>1, <1>6 DEF RecorderInv, BlobsOK, JournalBacked, Backed, FilesOK, journals
  <2> QED
    BY <2>1, <2>2, <2>3, <2>4 DEF BlobsOK
<1> QED
  BY <1>2, <1>5, <1>7 DEF RecorderInv

\* A blob that is filled is whole; one that was unlinked meanwhile stays away.
LEMMA FillInv ==
  ASSUME RecorderInv, NEW w \in Writers, FillBlob(w) PROVE RecorderInv'
<1> DEFINE q == holding[w]
<1>1. /\ writing[w] = "finish" /\ writing' = [writing EXCEPT ![w] = "append"]
      /\ holding' = holding /\ q \in Payloads
      /\ UNCHANGED <<day, journals, pruning>>
  BY DEF FillBlob, WriterTo, RecorderInv, WritersOK
<1>2. /\ WritersOK' /\ PrunerOK' /\ writing'[w] = "append"
      /\ \A v \in Writers \ {w} : writing'[v] = writing[v] /\ holding'[v] = holding[v]
      /\ \A p \in Payloads \ {q} : BeingWritten(p) => BeingWritten(p)'
  <2>1. "append" \in WritingStages /\ holding' \in [Writers -> Payloads \union {NoFile}]
    BY <1>1 DEF WritingStages, RecorderInv, WritersOK
  <2> QED
    BY <1>1, <2>1, WriterStep
<1>3. /\ blob \in [Payloads -> {"none", "part", "whole"}] /\ blobTime \in [Payloads -> Int]
      /\ day \in Int
  BY DEF RecorderInv, FilesOK
<1>4. /\ \A p \in Payloads \ {q} : /\ blob'[p] = blob[p] /\ blobTime'[p] = blobTime[p]
                                   /\ p \in spoiled => p \in spoiled'
      /\ \/ blob'[q] = "whole"
         \/ /\ blob'[q] = "none" /\ blobTime'[q] = blobTime[q]
            /\ q \in spoiled' \/ Old(blobTime[q])
  <2>1. CASE blob[q] = "none"
    BY <1>1, <2>1 DEF FillBlob, RecorderInv, BlobsOK, GoneOK, blobs
  <2>2. CASE blob[q] # "none"
    BY <1>1, <1>3, <2>2 DEF FillBlob
  <2> QED
    BY <2>1, <2>2
<1>5. FilesOK'
  <2>1. blob' \in [Payloads -> {"none", "part", "whole"}] /\ blobTime' \in [Payloads -> Int]
    BY <1>1, <1>3 DEF FillBlob, blobs
  <2> QED
    BY <1>1, <2>1 DEF RecorderInv, FilesOK, journals, pruning
<1>6. \A p \in Payloads : p = q \/ Backed(p) => Backed(p)'
  BY <1>1, <1>2, <1>4 DEF Backed, Old
<1>7. BlobsOK'
  <2>1. PartsOK'
    BY <1>1, <1>2, <1>4 DEF RecorderInv, BlobsOK, PartsOK
  <2>2. GoneOK'
    <3> SUFFICES ASSUME NEW v \in Writers, writing'[v] = "finish", blob'[holding[v]] = "none"
                 PROVE  holding[v] \in spoiled' \/ Old(blobTime[holding[v]])'
      BY <1>1 DEF GoneOK
    <3>1. v # w /\ writing[v] = "finish" /\ holding[v] \in Payloads
      BY <1>2 DEF RecorderInv, WritersOK
    <3>2. CASE holding[v] = q
      BY <1>1, <1>4, <3>2 DEF Old
    <3>3. CASE holding[v] # q
      BY <1>1, <1>4, <3>1, <3>3 DEF RecorderInv, BlobsOK, GoneOK, Old
    <3> QED
      BY <3>2, <3>3
  <2>3. AppendOK'
    BY <1>1, <1>2, <1>6 DEF RecorderInv, BlobsOK, AppendOK, WritersOK
  <2>4. JournalBacked'
    BY <1>1, <1>6 DEF RecorderInv, BlobsOK, JournalBacked, Backed, FilesOK, journals
  <2> QED
    BY <2>1, <2>2, <2>3, <2>4 DEF BlobsOK
<1> QED
  BY <1>2, <1>5, <1>7 DEF RecorderInv

\* The line names a blob that was accounted for since it was checked or filled.
LEMMA AppendInv ==
  ASSUME RecorderInv, NEW w \in Writers, AppendLine(w) PROVE RecorderInv'
<1> DEFINE q == holding[w]
<1>1. /\ writing[w] = "append" /\ writing' = [writing EXCEPT ![w] = "idle"] /\ q \in Payloads
      /\ holding' = [holding EXCEPT ![w] = NoFile]
      /\ journal' = [journal EXCEPT ![w] = @ \union {q}]
      /\ journalTime' = [journalTime EXCEPT ![w] = day]
      /\ UNCHANGED <<day, blobs, pruning, spoiled>>
  BY DEF AppendLine, WriterTo, RecorderInv, WritersOK
<1>2. /\ WritersOK' /\ PrunerOK' /\ writing'[w] = "idle"
      /\ \A v \in Writers \ {w} : writing'[v] = writing[v] /\ holding'[v] = holding[v]
      /\ \A p \in Payloads : BeingWritten(p) => BeingWritten(p)'
  <2>1. /\ "idle" \in WritingStages /\ holding' \in [Writers -> Payloads \union {NoFile}]
        /\ \A v \in Writers \ {w} : holding'[v] = holding[v]
    BY <1>1 DEF WritingStages, RecorderInv, WritersOK
  <2> QED
    BY <1>1, <2>1, WriterStep
<1>3. FilesOK'
  BY <1>1 DEF RecorderInv, FilesOK, blobs, pruning
<1>4. \A p \in Payloads : Backed(p) => Backed(p)'
  BY <1>1, <1>2 DEF Backed, Old, blobs
<1>5. BlobsOK'
  <2>1. PartsOK'
    BY <1>1, <1>2 DEF RecorderInv, BlobsOK, PartsOK, blobs
  <2>2. GoneOK'
    BY <1>1, <1>2 DEF RecorderInv, BlobsOK, GoneOK, Old, blobs
  <2>3. AppendOK'
    BY <1>2, <1>4 DEF RecorderInv, BlobsOK, AppendOK, WritersOK
  <2>4. JournalBacked'
    <3> SUFFICES ASSUME NEW v \in Writers, NEW p \in journal'[v] PROVE Backed(p)'
      BY DEF JournalBacked, Backed
    <3>1. p \in journal[v] \/ p = q
      BY <1>1 DEF RecorderInv, FilesOK
    <3>2. Backed(p) /\ p \in Payloads
      BY <1>1, <3>1 DEF RecorderInv, BlobsOK, JournalBacked, AppendOK, Backed, FilesOK
    <3> QED
      BY <1>4, <3>2
  <2> QED
    BY <2>1, <2>2, <2>3, <2>4 DEF BlobsOK
<1> QED
  BY <1>2, <1>3, <1>5 DEF RecorderInv

\* A writer that dies while it fills a blob spoils it.
LEMMA DieInv ==
  ASSUME RecorderInv, NEW w \in Writers, Die(w) PROVE RecorderInv'
<1>1. /\ writing' = [writing EXCEPT ![w] = "idle"] /\ holding' = [holding EXCEPT ![w] = NoFile]
      /\ UNCHANGED <<day, blobs, journals, pruning>>
  BY DEF Die, WriterTo
<1>2. /\ WritersOK' /\ PrunerOK' /\ writing'[w] = "idle"
      /\ \A v \in Writers \ {w} : writing'[v] = writing[v] /\ holding'[v] = holding[v]
      /\ \A p \in Payloads :
           BeingWritten(p) => BeingWritten(p)' \/ (writing[w] = "finish" /\ holding[w] = p)
  <2>1. /\ "idle" \in WritingStages /\ holding' \in [Writers -> Payloads \union {NoFile}]
        /\ \A v \in Writers \ {w} : holding'[v] = holding[v]
    BY <1>1 DEF WritingStages, RecorderInv, WritersOK
  <2> QED
    BY <1>1, <2>1, WriterStep
<1>3. /\ \A p \in Payloads : p \in spoiled => p \in spoiled'
      /\ writing[w] = "finish" => holding[w] \in spoiled'
  BY DEF Die
<1>4. FilesOK'
  BY <1>1 DEF RecorderInv, FilesOK, blobs, journals, pruning
<1>5. \A p \in Payloads : Backed(p) => Backed(p)'
  BY <1>1, <1>2, <1>3 DEF Backed, Old, blobs
<1>6. BlobsOK'
  <2>1. PartsOK'
    BY <1>1, <1>2, <1>3 DEF RecorderInv, BlobsOK, PartsOK, blobs
  <2>2. GoneOK'
    BY <1>1, <1>2, <1>3 DEF RecorderInv, BlobsOK, GoneOK, WritersOK, Old, blobs
  <2>3. AppendOK'
    BY <1>2, <1>5 DEF RecorderInv, BlobsOK, AppendOK, WritersOK
  <2>4. JournalBacked'
    BY <1>1, <1>5 DEF RecorderInv, BlobsOK, JournalBacked, Backed, FilesOK, journals
  <2> QED
    BY <2>1, <2>2, <2>3, <2>4 DEF BlobsOK
<1> QED
  BY <1>2, <1>4, <1>6 DEF RecorderInv

-----------------------------------------------------------------------------
(* Time and the pruner. *)

\* Blobs only get older, and journals only shorter, when no writer steps.
LEMMA BlobsAlone ==
  ASSUME RecorderInv, UNCHANGED <<blobs, writing, holding, spoiled>>,
         day' \in Int, day <= day', FilesOK', \A v \in Writers : journal'[v] \subseteq journal[v]
  PROVE  WritersOK' /\ BlobsOK'
<1>1. \A p \in Payloads : BeingWritten(p)' = BeingWritten(p)
  BY DEF BeingWritten
<1>2. \A p \in Payloads : Old(blobTime[p]) => Old(blobTime[p])'
  BY RecorderAssumption DEF Old, RecorderInv, FilesOK, blobs
<1>3. \A p \in Payloads : Backed(p) => Backed(p)'
  BY <1>1, <1>2 DEF Backed, blobs
<1>4. WritersOK'
  BY DEF RecorderInv, WritersOK
<1>5. BlobsOK'
  <2>1. PartsOK'
    BY <1>1 DEF RecorderInv, BlobsOK, PartsOK, blobs
  <2>2. GoneOK'
    BY <1>2 DEF RecorderInv, BlobsOK, GoneOK, WritersOK, blobs
  <2>3. AppendOK'
    BY <1>3 DEF RecorderInv, BlobsOK, AppendOK, WritersOK
  <2>4. JournalBacked'
    BY <1>3 DEF RecorderInv, BlobsOK, JournalBacked, Backed, FilesOK
  <2> QED
    BY <2>1, <2>2, <2>3, <2>4 DEF BlobsOK
<1> QED
  BY <1>4, <1>5

\* The pruner walks, and condemns what is old enough.
LEMMA WalkInv ==
  ASSUME RecorderInv,
         \/ StartPruning \/ WalkObjects \/ EndPruning
         \/ \E w \in Writers : StatJournal(w)
         \/ \E p \in Payloads : StatObject(p)
  PROVE  RecorderInv'
<1>1. UNCHANGED <<day, blobs, journals, writing, holding, spoiled>>
  BY DEF StartPruning, WalkObjects, EndPruning, StatJournal, StatObject, Stat
<1>2. day \in Int /\ cutoff \in Int /\ modified \in Int /\ TraceRetention \in Int
  BY RecorderAssumption DEF RecorderInv, FilesOK
<1>3. cutoff' \in Int /\ modified' \in Int /\ PrunerOK'
  <2>1. CASE StartPruning
    BY <1>2, <2>1 DEF StartPruning, RecorderInv, PrunerOK
  <2>2. CASE WalkObjects \/ EndPruning
    BY <1>1, <1>2, <2>2 DEF WalkObjects, EndPruning, RecorderInv, PrunerOK
  <2>3. CASE (\E w \in Writers : StatJournal(w)) \/ \E p \in Payloads : StatObject(p)
    <3>1. PICK time \in Int : /\ time < cutoff => modified' = time
                              /\ ~(time < cutoff) => UNCHANGED <<doomed, modified>>
                              /\ UNCHANGED <<pruner, cutoff>> /\ pruner # "idle"
      BY <2>3 DEF StatJournal, StatObject, Stat, RecorderInv, FilesOK
    <3> QED
      BY <1>1, <1>2, <3>1 DEF RecorderInv, PrunerOK
  <2> QED
    BY <2>1, <2>2, <2>3
<1>4. FilesOK'
  BY <1>1, <1>3 DEF RecorderInv, FilesOK, blobs, journals
<1>5. WritersOK' /\ BlobsOK'
  BY <1>1, <1>2, <1>4, BlobsAlone DEF journals
<1> QED
  BY <1>3, <1>4, <1>5 DEF RecorderInv

LEMMA DayInv == ASSUME RecorderInv, NextDay PROVE RecorderInv'
<1>1. /\ day' = day + 1 /\ day \in Int /\ cutoff \in Int /\ TraceRetention \in Int
      /\ UNCHANGED <<blobs, journals, writing, holding, pruning, spoiled>>
  BY RecorderAssumption DEF NextDay, RecorderInv, FilesOK
<1>2. FilesOK'
  BY <1>1 DEF RecorderInv, FilesOK, blobs, journals, pruning
<1>3. PrunerOK'
  BY <1>1 DEF RecorderInv, PrunerOK, pruning
<1>4. WritersOK' /\ BlobsOK'
  BY <1>1, <1>2, BlobsAlone DEF journals
<1> QED
  BY <1>2, <1>3, <1>4 DEF RecorderInv

LEMMA RemoveJournalInv == ASSUME RecorderInv, RemoveJournal PROVE RecorderInv'
<1>1. /\ journal' = [journal EXCEPT ![doomed] = {}] /\ journalTime' = [journalTime EXCEPT ![doomed] = 0]
      /\ doomed' = NoFile /\ modified' = 0 /\ day \in Int
      /\ UNCHANGED <<day, blobs, writing, holding, pruner, cutoff, spoiled>>
  BY DEF RemoveJournal, RecorderInv, FilesOK
<1>2. FilesOK'
  <2>1. journal \in [Writers -> SUBSET Payloads] /\ journalTime \in [Writers -> Int]
    BY DEF RecorderInv, FilesOK
  <2>2. journal' \in [Writers -> SUBSET Payloads]
    BY <1>1, <2>1
  <2>3. journalTime' \in [Writers -> Int]
    <3>1. journalTime' = [journalTime EXCEPT ![doomed] = 0]
      BY DEF RemoveJournal
    <3>2. journalTime' = [v \in Writers |-> IF v = doomed THEN 0 ELSE journalTime[v]]
      BY <2>1, <3>1
    <3> QED
      BY <2>1, <3>2
  <2>4. blob' = blob /\ blobTime' = blobTime /\ day' = day /\ cutoff' = cutoff /\ modified' = 0
    BY <1>1 DEF blobs
  <2> QED
    BY <2>2, <2>3, <2>4 DEF RecorderInv, FilesOK
<1>3. PrunerOK'
  BY <1>1 DEF RecorderInv, PrunerOK
<1>4. \A v \in Writers : journal'[v] \subseteq journal[v]
  BY <1>1 DEF RecorderInv, FilesOK
<1>5. WritersOK' /\ BlobsOK'
  BY <1>1, <1>2, <1>4, BlobsAlone
<1> QED
  BY <1>2, <1>3, <1>5 DEF RecorderInv

\* A blob that is unlinked is as old as it was found to be, or is spoiled.
LEMMA RemoveObjectInv == ASSUME RecorderInv, RemoveObject PROVE RecorderInv'
<1>1. /\ doomed \in Payloads /\ blob' = [blob EXCEPT ![doomed] = "none"]
      /\ doomed' = NoFile /\ modified' = 0
      /\ UNCHANGED <<day, blobTime, journals, writing, holding, pruner, cutoff>>
  BY DEF RemoveObject
<1>2. \A p \in Payloads : p \in spoiled => p \in spoiled'
  BY DEF RemoveObject
<1>3. doomed \in spoiled' \/ Old(blobTime[doomed])
  <2>1. CASE blobTime[doomed] = modified
    <3>1. modified < cutoff /\ cutoff <= day - TraceRetention
      BY <1>1, RecorderAssumption DEF RecorderInv, PrunerOK
    <3>2. modified \in Int /\ cutoff \in Int /\ day \in Int /\ TraceRetention \in Int
      BY RecorderAssumption DEF RecorderInv, FilesOK
    <3> QED
      BY <2>1, <3>1, <3>2 DEF Old
  <2>2. CASE blobTime[doomed] # modified
    BY <2>2 DEF RemoveObject
  <2> QED
    BY <2>1, <2>2
<1>4. FilesOK' /\ WritersOK' /\ PrunerOK'
  BY <1>1 DEF RecorderInv, FilesOK, WritersOK, PrunerOK, journals
<1>5. /\ \A p \in Payloads \ {doomed} : blob'[p] = blob[p]
      /\ blob'[doomed] = "none"
      /\ \A p \in Payloads : BeingWritten(p)' = BeingWritten(p)
  BY <1>1 DEF RecorderInv, FilesOK, BeingWritten
<1>6. \A p \in Payloads : Backed(p) => Backed(p)'
  BY <1>1, <1>2, <1>3, <1>5 DEF Backed, Old
<1>7. BlobsOK'
  <2>1. PartsOK'
    BY <1>1, <1>2, <1>5 DEF RecorderInv, BlobsOK, PartsOK
  <2>2. GoneOK'
    <3> SUFFICES ASSUME NEW v \in Writers, writing[v] = "finish", blob'[holding[v]] = "none"
                 PROVE  holding[v] \in spoiled' \/ Old(blobTime[holding[v]])
      BY <1>1 DEF GoneOK, Old
    <3>1. holding[v] \in Payloads
      BY DEF RecorderInv, WritersOK
    <3> QED
      BY <1>2, <1>3, <1>5, <3>1 DEF RecorderInv, BlobsOK, GoneOK
  <2>3. AppendOK'
    BY <1>1, <1>6 DEF RecorderInv, BlobsOK, AppendOK, WritersOK
  <2>4. JournalBacked'
    BY <1>1, <1>6 DEF RecorderInv, BlobsOK, JournalBacked, Backed, FilesOK, journals
  <2> QED
    BY <2>1, <2>2, <2>3, <2>4 DEF BlobsOK
<1> QED
  BY <1>4, <1>7 DEF RecorderInv

-----------------------------------------------------------------------------
LEMMA RecorderKept == ASSUME RecorderInv, [RecorderNext]_recorderVars PROVE RecorderInv'
<1>1. CASE UNCHANGED recorderVars
  <2>1. UNCHANGED <<day, blobs, journals, writing, holding, pruning, spoiled>>
    BY <1>1 DEF recorderVars, blobs, journals, pruning
  <2>2. FilesOK' /\ PrunerOK'
    BY <2>1 DEF RecorderInv, FilesOK, PrunerOK, blobs, journals, pruning
  <2>3. WritersOK' /\ BlobsOK'
    <3>1. day' \in Int /\ day <= day' /\ \A v \in Writers : journal'[v] \subseteq journal[v]
      BY <2>1 DEF RecorderInv, FilesOK, journals
    <3> QED
      BY <2>1, <2>2, <3>1, BlobsAlone
  <2> QED
    BY <2>2, <2>3 DEF RecorderInv
<1>2. ASSUME NEW w \in Writers,
             \/ Record(w) \/ CheckBlob(w) \/ CreateBlob(w) \/ FillBlob(w) \/ WriteFails(w)
             \/ AppendLine(w) \/ Die(w)
      PROVE  RecorderInv'
  BY <1>2, UntouchedInv, CheckInv, CreateInv, FillInv, AppendInv, DieInv
<1> QED
  BY <1>1, <1>2, WalkInv, DayInv, RemoveJournalInv, RemoveObjectInv DEF RecorderNext

LEMMA RecorderTyped ==
  ASSUME RecorderTypeOK, RecorderInv, [RecorderNext]_recorderVars PROVE RecorderTypeOK'
<1>0. /\ TraceRetention \in Nat \ {0} /\ LastDay \in Nat /\ 0 \in Days /\ day \in Days
      /\ blob \in [Payloads -> {"none", "part", "whole"}] /\ blobTime \in [Payloads -> Days]
      /\ journal \in [Writers -> SUBSET Payloads] /\ journalTime \in [Writers -> Days]
      /\ writing \in [Writers -> WritingStages] /\ holding \in [Writers -> Payloads \union {NoFile}]
      /\ \A w \in Writers : writing[w] # "idle" => holding[w] \in Payloads
  BY RecorderAssumption DEF RecorderTypeOK, Days, RecorderInv, WritersOK
<1>1. ASSUME NEW w \in Writers, Record(w) PROVE RecorderTypeOK'
  BY <1>0, <1>1 DEF Record, WriterTo, WritingStages, RecorderTypeOK, blobs, journals, pruning
<1>2. ASSUME NEW w \in Writers, CheckBlob(w) PROVE RecorderTypeOK'
  BY <1>0, <1>2 DEF CheckBlob, WriterTo, WritingStages, RecorderTypeOK, blobs, journals, pruning
<1>3. ASSUME NEW w \in Writers, CreateBlob(w) PROVE RecorderTypeOK'
  BY <1>0, <1>3 DEF CreateBlob, WriterTo, WritingStages, RecorderTypeOK, journals, pruning
<1>4. ASSUME NEW w \in Writers, FillBlob(w) PROVE RecorderTypeOK'
  BY <1>0, <1>4 DEF FillBlob, WriterTo, WritingStages, RecorderTypeOK, blobs, journals, pruning
<1>5. ASSUME NEW w \in Writers, WriteFails(w) PROVE RecorderTypeOK'
  BY <1>0, <1>5 DEF WriteFails, WriterTo, WritingStages, RecorderTypeOK, blobs, journals, pruning
<1>6. ASSUME NEW w \in Writers, AppendLine(w) PROVE RecorderTypeOK'
  BY <1>0, <1>6 DEF AppendLine, WriterTo, WritingStages, RecorderTypeOK, blobs, pruning
<1>7. ASSUME NEW w \in Writers, Die(w) PROVE RecorderTypeOK'
  BY <1>0, <1>7 DEF Die, WriterTo, WritingStages, RecorderTypeOK, blobs, journals, pruning
<1>8. ASSUME NEW f \in Writers \union Payloads, NEW time \in Days, Stat(f, time) PROVE RecorderTypeOK'
  BY <1>0, <1>8 DEF Stat, RecorderTypeOK, blobs, journals
<1>9. ASSUME StartPruning \/ WalkObjects \/ EndPruning PROVE RecorderTypeOK'
  <2>1. /\ cutoff' \in (0 - TraceRetention)..LastDay /\ pruner' \in {"idle", "journals", "objects"}
        /\ unseen' \subseteq Writers \union Payloads
    BY <1>0, <1>9 DEF StartPruning, WalkObjects, EndPruning, RecorderTypeOK, Days
  <2> QED
    BY <1>9, <2>1 DEF StartPruning, WalkObjects, EndPruning, RecorderTypeOK, blobs, journals
<1>10. ASSUME RemoveJournal PROVE RecorderTypeOK'
  <2>1. journal' \in [Writers -> SUBSET Payloads]
    BY <1>0, <1>10 DEF RemoveJournal
  <2>2. journalTime' \in [Writers -> Days]
    <3>1. journalTime' = [v \in Writers |-> IF v = doomed THEN 0 ELSE journalTime[v]]
      BY <1>0, <1>10 DEF RemoveJournal
    <3> QED
      BY <1>0, <3>1
  <2> QED
    BY <1>0, <1>10, <2>1, <2>2 DEF RemoveJournal, RecorderTypeOK, blobs
<1>11. ASSUME RemoveObject PROVE RecorderTypeOK'
  BY <1>0, <1>11 DEF RemoveObject, RecorderTypeOK, journals
<1>12. ASSUME NextDay PROVE RecorderTypeOK'
  BY <1>12, <1>0 DEF NextDay, RecorderTypeOK, Days, blobs, journals, pruning
<1>13. ASSUME UNCHANGED recorderVars PROVE RecorderTypeOK'
  BY <1>13 DEF recorderVars, RecorderTypeOK
<1>14. ASSUME NEW w \in Writers, StatJournal(w) PROVE RecorderTypeOK'
  BY <1>0, <1>8, <1>14 DEF StatJournal
<1>15. ASSUME NEW p \in Payloads, StatObject(p) PROVE RecorderTypeOK'
  BY <1>0, <1>8, <1>15 DEF StatObject
<1> QED
  BY <1>1, <1>2, <1>3, <1>4, <1>5, <1>6, <1>7, <1>9, <1>10, <1>11, <1>12, <1>13, <1>14, <1>15
     DEF RecorderNext

\* Whatever writers and the pruner do to one blob, a journal within its retention
\* names no missing or damaged one, but for the two accidents the code does not
\* guard against (recorder.rs:86-137, 170-227).
THEOREM JournalsBacked == RecorderSpec => []JournalBacked
<1>1. RecorderInv /\ [RecorderNext]_recorderVars => RecorderInv'
  BY RecorderKept
<1>2. RecorderInv => JournalBacked
  BY DEF RecorderInv, BlobsOK
<1> QED
  BY RecorderInitInv, <1>1, <1>2, PTL DEF RecorderSpec

-----------------------------------------------------------------------------
(***************************************************************************)
(* The index holds what the files held when they were read, however they   *)
(* are edited between the stat of a file, its reading and the commit.      *)
(***************************************************************************)

\* What the index should hold of a file.
Content(f) == IF Readable(f) THEN disk[f].text ELSE NoText

\* Files x has read in its transaction.
Read(x) == Changed(x) \ queue[x]

\* No stamp is of the future, and none is later than the reading behind it.
StampsPast ==
  /\ \A f \in Files : disk[f] # NoText => disk[f].time <= second
  /\ \A f \in Files : stamps[f] # NoStamp => stamps[f][1] <= readAt[f]
  /\ \A f \in Files : readAt[f] <= second
  /\ \A x \in Indexers, f \in Files : found[x][f] # NoStamp => found[x][f][1] <= second

\* The database's write lock.
OneReads == \A x, y \in Indexers : phase[x] = "read" /\ phase[y] = "read" => x = y

\* A text in a transaction is that of the file, unless the file was edited in
\* the second it was read or later; the stamps were there before.
StagedSound ==
  \A x \in Indexers : phase[x] = "read" => \A f \in Read(x) :
    /\ staging[x][f] <= second
    /\ disk[f] # NoText /\ disk[f].time < staging[x][f] => staged[x][f] = Content(f)
    /\ stamps[f] # NoStamp => stamps[f][1] <= staging[x][f]
    /\ found[x][f][1] <= staging[x][f]

IndexInv == ContextTypeOK /\ StampsPast /\ OneReads /\ StagedSound /\ IndexIsSound

LEMMA StampTime == \A s \in Stamps : s # NoStamp => s[1] \in Seconds
  BY DEF Stamps

LEMMA ContextInitInv == ContextInit => IndexInv
<1> SUFFICES ASSUME ContextInit PROVE IndexInv
  OBVIOUS
<1>1. 0 \in Seconds
  BY IndexAssumption DEF Seconds
<1>2. ContextTypeOK
  BY <1>1 DEF ContextInit, ContextTypeOK, Textless, Unstamped, Unread, Stamps
<1>3. StampsPast
  BY DEF ContextInit, StampsPast, Textless, Unstamped, Unread
<1>4. OneReads /\ StagedSound /\ IndexIsSound
  BY DEF ContextInit, OneReads, StagedSound, IndexIsSound, Textless
<1> QED
  BY <1>2, <1>3, <1>4 DEF IndexInv

-----------------------------------------------------------------------------
(* The editor. *)

LEMMA EditInv == ASSUME IndexInv, NEW f \in Files, EditFile(f) PROVE IndexInv'
<1>1. PICK t \in Texts : disk' = [disk EXCEPT ![f] = [text |-> t, time |-> second]]
  BY DEF EditFile
<1>2. UNCHANGED <<second, symbols, stamps, phase, known, unwalked, found, queue, staged,
                  staging, readAt>>
  BY DEF EditFile
<1>3. /\ disk'[f] = [text |-> t, time |-> second]
      /\ \A g \in Files \ {f} : disk'[g] = disk[g]
  BY <1>1 DEF IndexInv, ContextTypeOK
<1>4. ContextTypeOK'
  BY <1>1, <1>2 DEF IndexInv, ContextTypeOK, File
<1>5. second \in Int
  BY IndexAssumption DEF IndexInv, ContextTypeOK, Seconds
<1>6. StampsPast'
  BY <1>2, <1>3, <1>5 DEF IndexInv, StampsPast
<1>7. OneReads'
  BY <1>2 DEF IndexInv, OneReads
<1>8. \A g \in Files \ {f} : Content(g)' = Content(g) /\ Stamp(g)' = Stamp(g)
  BY <1>3 DEF Content, Readable, Stamp
<1>9. StagedSound'
  <2> SUFFICES ASSUME NEW x \in Indexers, phase'[x] = "read", NEW g \in Read(x)'
               PROVE  /\ staging'[x][g] <= second'
                      /\ disk'[g] # NoText /\ disk'[g].time < staging'[x][g]
                           => staged'[x][g] = Content(g)'
                      /\ stamps'[g] # NoStamp => stamps'[g][1] <= staging'[x][g]
                      /\ found'[x][g][1] <= staging'[x][g]
    BY DEF StagedSound
  <2>1. phase[x] = "read" /\ g \in Read(x) /\ g \in Files
    BY <1>2 DEF Read, Changed
  <2>2. /\ staging[x][g] <= second
        /\ disk[g] # NoText /\ disk[g].time < staging[x][g] => staged[x][g] = Content(g)
        /\ stamps[g] # NoStamp => stamps[g][1] <= staging[x][g]
        /\ found[x][g][1] <= staging[x][g]
    BY <2>1 DEF IndexInv, StagedSound
  <2>3. staging[x][g] \in Int
    BY <2>1 DEF IndexInv, ContextTypeOK, Seconds
  <2>4. CASE g = f
    BY <1>2, <1>3, <1>5, <2>2, <2>3, <2>4
  <2>5. CASE g # f
    BY <1>2, <1>3, <1>8, <2>1, <2>2, <2>5
  <2> QED
    BY <2>4, <2>5
<1>10. IndexIsSound'
  <2>1. \A g \in Files : symbols'[g] # NoText => stamps'[g] # NoStamp
    BY <1>2 DEF IndexInv, IndexIsSound
  <2>2. ASSUME NEW g \in Files, disk'[g] # NoText, stamps'[g] = Stamp(g)'
        PROVE  symbols'[g] = Content(g)' \/ readAt'[g] = disk'[g].time
    <3>1. CASE g # f
      BY <1>2, <1>3, <1>8, <2>2, <3>1 DEF IndexInv, IndexIsSound, Content
    <3>2. CASE g = f
      <4>1. Stamp(f)' = <<second, t \in Short>>
        BY <1>3, <2>2, <3>2 DEF Stamp
      <4>2. stamps[f] # NoStamp /\ stamps[f][1] = second
        <5> DEFINE short == t \in Short
        <5>1. stamps[f] = <<second, short>> /\ short \in BOOLEAN
          BY <1>2, <2>2, <3>2, <4>1
        <5>2. second \in 0..LastSecond
          BY DEF IndexInv, ContextTypeOK, Seconds
        <5> HIDE DEF short
        <5> QED
          BY <5>1, <5>2, IndexAssumption
      <4>3. readAt[f] = second
        <5>1. second <= readAt[f] /\ readAt[f] <= second
          BY <4>2 DEF IndexInv, StampsPast
        <5>2. readAt[f] \in Int
          BY DEF IndexInv, ContextTypeOK, Seconds
        <5> QED
          BY <5>1, <5>2, <1>5
      <4> QED
        BY <1>2, <1>3, <3>2, <4>3
    <3> QED
      BY <3>1, <3>2
  <2> QED
    BY <2>1, <2>2 DEF IndexIsSound, Content
<1> QED
  BY <1>4, <1>6, <1>7, <1>9, <1>10 DEF IndexInv

LEMMA RemoveInv == ASSUME IndexInv, NEW f \in Files, RemoveFile(f) PROVE IndexInv'
<1>1. UNCHANGED <<second, symbols, stamps, phase, known, unwalked, found, queue, staged,
                  staging, readAt>>
  BY DEF RemoveFile
<1>2. disk'[f] = NoText /\ \A g \in Files \ {f} : disk'[g] = disk[g]
  BY DEF RemoveFile, IndexInv, ContextTypeOK
<1>3. ContextTypeOK'
  BY <1>1 DEF RemoveFile, IndexInv, ContextTypeOK
<1>4. StampsPast' /\ OneReads'
  BY <1>1, <1>2 DEF IndexInv, StampsPast, OneReads
<1>5. \A g \in Files \ {f} : Content(g)' = Content(g) /\ Stamp(g)' = Stamp(g)
  BY <1>2 DEF Content, Readable, Stamp
<1>6. StagedSound'
  <2>1. \A x \in Indexers : Read(x)' = Read(x)
    BY <1>1 DEF Read, Changed
  <2> QED
    BY <1>1, <1>2, <1>5, <2>1 DEF IndexInv, StagedSound, Read, Changed
<1>7. IndexIsSound'
  BY <1>1, <1>2, <1>5 DEF IndexInv, IndexIsSound, Content
<1> QED
  BY <1>3, <1>4, <1>6, <1>7 DEF IndexInv

LEMMA SecondInv == ASSUME IndexInv, NextSecond PROVE IndexInv'
<1>1. /\ UNCHANGED <<disk, symbols, stamps, phase, known, unwalked, found, queue, staged,
                     staging, readAt>>
      /\ second' = second + 1 /\ second < LastSecond /\ second \in Nat /\ LastSecond \in Nat
  BY IndexAssumption DEF NextSecond, IndexInv, ContextTypeOK, Seconds
<1>2. ContextTypeOK'
  BY <1>1 DEF IndexInv, ContextTypeOK, Seconds
<1>3. \A t \in Seconds : t <= second => t <= second'
  BY <1>1 DEF Seconds
<1>4. StampsPast'
  <2>1. \A f \in Files : disk'[f] # NoText => disk'[f].time <= second'
    BY <1>1, <1>3 DEF IndexInv, StampsPast, ContextTypeOK, File
  <2>2. \A f \in Files : readAt'[f] <= second' /\ (stamps'[f] # NoStamp => stamps'[f][1] <= readAt'[f])
    BY <1>1, <1>3 DEF IndexInv, StampsPast, ContextTypeOK
  <2>3. ASSUME NEW x \in Indexers, NEW f \in Files, found[x][f] # NoStamp
        PROVE  found[x][f][1] <= second'
    <3>1. found[x][f] \in Stamps /\ found[x][f][1] <= second
      BY <2>3 DEF IndexInv, StampsPast, ContextTypeOK
    <3> QED
      BY <1>3, <2>3, <3>1, StampTime
  <2> QED
    BY <1>1, <2>1, <2>2, <2>3 DEF StampsPast
<1>5. StagedSound'
  <2>1. \A f \in Files : Content(f)' = Content(f)
    BY <1>1 DEF Content, Readable
  <2>2. \A x \in Indexers : Read(x)' = Read(x) /\ Read(x) \subseteq Files
    BY <1>1 DEF Read, Changed
  <2>3. \A x \in Indexers : phase[x] = "read" => \A f \in Read(x) : staging[x][f] <= second'
    BY <1>3, <2>2 DEF IndexInv, StagedSound, ContextTypeOK
  <2> QED
    BY <1>1, <2>1, <2>2, <2>3 DEF IndexInv, StagedSound
<1>6. OneReads' /\ IndexIsSound'
  BY <1>1 DEF IndexInv, OneReads, IndexIsSound, Readable, Stamp
<1> QED
  BY <1>2, <1>4, <1>5, <1>6 DEF IndexInv
-----------------------------------------------------------------------------
(* An indexer. *)

\* Steps that leave the file, the index and its stamps alone.
LEMMA KeepsIndex ==
  ASSUME IndexInv, UNCHANGED <<second, disk, symbols, stamps, readAt>>
  PROVE  /\ IndexIsSound'
         /\ \A f \in Files : Content(f)' = Content(f) /\ Stamp(f)' = Stamp(f)
         /\ found' = found => StampsPast'
  BY DEF IndexInv, IndexIsSound, Content, Readable, Stamp, StampsPast

\* What another indexer has staged stays sound.
LEMMA OthersSound ==
  ASSUME IndexInv, NEW x \in Indexers, NEW y \in Indexers, phase[y] = "read",
         UNCHANGED <<second, disk, stamps>>,
         known'[y] = known[y], found'[y] = found[y], queue'[y] = queue[y],
         staged'[y] = staged[y], staging'[y] = staging[y]
  PROVE  \A f \in Read(y)' :
           /\ staging'[y][f] <= second'
           /\ disk'[f] # NoText /\ disk'[f].time < staging'[y][f] => staged'[y][f] = Content(f)'
           /\ stamps'[f] # NoStamp => stamps'[f][1] <= staging'[y][f]
           /\ found'[y][f][1] <= staging'[y][f]
<1>1. Read(y)' = Read(y)
  BY DEF Read, Changed
<1>2. \A f \in Files : Content(f)' = Content(f)
  BY DEF Content, Readable
<1>3. Read(y) \subseteq Files
  BY DEF Read, Changed
<1> QED
  BY <1>1, <1>2, <1>3 DEF IndexInv, StagedSound

LEMMA ReadCacheInv == ASSUME IndexInv, NEW x \in Indexers, ReadCache(x) PROVE IndexInv'
<1>1. /\ UNCHANGED <<second, disk, symbols, stamps, found, queue, staged, staging, readAt>>
      /\ phase[x] = "idle" /\ phase' = [phase EXCEPT ![x] = "walk"]
      /\ known' = [known EXCEPT ![x] = stamps] /\ unwalked' = [unwalked EXCEPT ![x] = Files]
  BY DEF ReadCache
<1>2. ContextTypeOK'
  BY <1>1 DEF IndexInv, ContextTypeOK
<1>3. StampsPast' /\ IndexIsSound'
  BY <1>1, KeepsIndex DEF IndexInv
<1>4. /\ phase'[x] = "walk"
      /\ \A y \in Indexers \ {x} : phase'[y] = phase[y] /\ known'[y] = known[y]
  BY <1>1 DEF IndexInv, ContextTypeOK
<1>5. OneReads'
  BY <1>4 DEF IndexInv, OneReads
<1>6. StagedSound'
  <2> SUFFICES ASSUME NEW y \in Indexers, phase'[y] = "read"
               PROVE  y # x /\ phase[y] = "read" /\ known'[y] = known[y]
    BY <1>1, OthersSound DEF StagedSound
  <2> QED
    BY <1>4
<1> QED
  BY <1>2, <1>3, <1>5, <1>6 DEF IndexInv

LEMMA WalkedInv == ASSUME IndexInv, NEW x \in Indexers, Walk(x) PROVE IndexInv'
<1>1. PICK f \in unwalked[x] : /\ found' = [found EXCEPT ![x][f] = Stamp(f)]
                               /\ unwalked' = [unwalked EXCEPT ![x] = @ \ {f}]
  BY DEF Walk
<1>2. /\ UNCHANGED <<second, disk, symbols, stamps, phase, known, queue, staged, staging, readAt>>
      /\ phase[x] = "walk"
  BY DEF Walk
<1>3. f \in Files /\ Stamp(f) \in Stamps
  <2>1. f \in Files /\ disk[f] \in File \union {NoText}
    BY <1>1 DEF IndexInv, ContextTypeOK
  <2>2. CASE disk[f] = NoText
    BY <2>1, <2>2 DEF Stamp, Stamps
  <2>3. CASE disk[f] # NoText
    <3> DEFINE short == disk[f].text \in Short
    <3>1. short \in BOOLEAN /\ Stamp(f) = <<disk[f].time, short>>
      BY <2>3 DEF Stamp
    <3>2. disk[f].time \in Seconds
      BY <2>1, <2>3 DEF File
    <3> HIDE DEF short
    <3> QED
      BY <2>1, <3>1, <3>2 DEF Stamps
  <2> QED
    BY <2>2, <2>3
<1>4. /\ found'[x] = [found[x] EXCEPT ![f] = Stamp(f)]
      /\ \A y \in Indexers \ {x} : found'[y] = found[y]
  BY <1>1 DEF IndexInv, ContextTypeOK
<1>5. /\ found'[x][f] = Stamp(f)
      /\ \A g \in Files \ {f} : found'[x][g] = found[x][g]
  BY <1>3, <1>4 DEF IndexInv, ContextTypeOK
<1>6. ContextTypeOK'
  <2>1. found' \in [Indexers -> [Files -> Stamps]]
    <3>1. found'[x] \in [Files -> Stamps]
      BY <1>3, <1>4 DEF IndexInv, ContextTypeOK
    <3> QED
      BY <1>1, <3>1 DEF IndexInv, ContextTypeOK
  <2>2. unwalked' \in [Indexers -> SUBSET Files]
    BY <1>1 DEF IndexInv, ContextTypeOK
  <2> QED
    BY <1>2, <2>1, <2>2 DEF IndexInv, ContextTypeOK
<1>7. StampsPast'
  <2>1. Stamp(f) # NoStamp => Stamp(f)[1] <= second
    BY <1>3 DEF Stamp, IndexInv, StampsPast
  <2>2. \A y \in Indexers, g \in Files : found'[y][g] # NoStamp => found'[y][g][1] <= second
    BY <1>4, <1>5, <2>1 DEF IndexInv, StampsPast
  <2> QED
    BY <1>2, <2>2 DEF IndexInv, StampsPast
<1>8. OneReads' /\ IndexIsSound'
  BY <1>2, KeepsIndex DEF IndexInv, OneReads
<1>9. StagedSound'
  <2> SUFFICES ASSUME NEW y \in Indexers, phase'[y] = "read"
               PROVE  phase[y] = "read" /\ found'[y] = found[y]
    BY <1>2, OthersSound DEF StagedSound
  <2> QED
    BY <1>2, <1>4
<1> QED
  BY <1>6, <1>7, <1>8, <1>9 DEF IndexInv

LEMMA CompareInv == ASSUME IndexInv, NEW x \in Indexers, Compare(x) PROVE IndexInv'
<1>1. /\ UNCHANGED <<second, disk, symbols, stamps, known, unwalked, found, staged, staging, readAt>>
      /\ phase' = [phase EXCEPT ![x] = "read"] /\ \A y \in Indexers : phase[y] # "read"
      /\ queue' = [queue EXCEPT ![x] = Changed(x)]
  BY DEF Compare, Changed
<1>2. /\ queue'[x] = Changed(x)' /\ \A y \in Indexers \ {x} : phase'[y] # "read"
      /\ Changed(x) \subseteq Files
  BY <1>1 DEF IndexInv, ContextTypeOK, Changed
<1>3. ContextTypeOK'
  BY <1>1, <1>2 DEF IndexInv, ContextTypeOK
<1>4. StampsPast' /\ IndexIsSound'
  BY <1>1, KeepsIndex DEF IndexInv
<1>5. OneReads' /\ StagedSound'
  BY <1>2 DEF OneReads, StagedSound, Read
<1> QED
  BY <1>3, <1>4, <1>5 DEF IndexInv

LEMMA ReadFileInv == ASSUME IndexInv, NEW x \in Indexers, ReadFile(x) PROVE IndexInv'
<1>1. PICK f \in queue[x] : /\ staged' = [staged EXCEPT ![x][f] = Content(f)]
                            /\ staging' = [staging EXCEPT ![x][f] = second]
                            /\ queue' = [queue EXCEPT ![x] = @ \ {f}]
  BY DEF ReadFile, Content
<1>2. /\ UNCHANGED <<second, disk, symbols, stamps, phase, known, unwalked, found, readAt>>
      /\ phase[x] = "read"
  BY DEF ReadFile
<1>3. f \in Files /\ Content(f) \in (Texts \ Binary) \union {NoText} /\ second \in Seconds
  <2>1. f \in Files /\ second \in Seconds /\ disk[f] \in File \union {NoText}
    BY <1>1 DEF IndexInv, ContextTypeOK
  <2> QED
    BY <2>1 DEF Content, Readable, File
<1>4. /\ queue'[x] = queue[x] \ {f}
      /\ staged'[x] = [staged[x] EXCEPT ![f] = Content(f)]
      /\ staging'[x] = [staging[x] EXCEPT ![f] = second]
      /\ \A y \in Indexers \ {x} :
           queue'[y] = queue[y] /\ staged'[y] = staged[y] /\ staging'[y] = staging[y]
  BY <1>1 DEF IndexInv, ContextTypeOK
<1>5. /\ staged'[x][f] = Content(f) /\ staging'[x][f] = second
      /\ \A g \in Files \ {f} : staged'[x][g] = staged[x][g] /\ staging'[x][g] = staging[x][g]
  BY <1>3, <1>4 DEF IndexInv, ContextTypeOK
<1>6. ContextTypeOK'
  <2>1. /\ staged'[x] \in [Files -> (Texts \ Binary) \union {NoText}]
        /\ staging'[x] \in [Files -> Seconds] /\ queue'[x] \in SUBSET Files
    BY <1>3, <1>4 DEF IndexInv, ContextTypeOK
  <2>2. /\ staged' \in [Indexers -> [Files -> (Texts \ Binary) \union {NoText}]]
        /\ staging' \in [Indexers -> [Files -> Seconds]]
        /\ queue' \in [Indexers -> SUBSET Files]
    BY <1>1, <2>1 DEF IndexInv, ContextTypeOK
  <2> QED
    BY <1>2, <2>2 DEF IndexInv, ContextTypeOK
<1>7. StampsPast' /\ OneReads' /\ IndexIsSound'
  BY <1>2, KeepsIndex DEF IndexInv, OneReads
<1>8. StagedSound'
  <2>1. \A y \in Indexers : phase[y] = "read" => y = x
    BY <1>2 DEF IndexInv, OneReads
  <2>2. ASSUME NEW g \in Read(x)'
        PROVE  /\ staging'[x][g] <= second'
               /\ disk'[g] # NoText /\ disk'[g].time < staging'[x][g]
                    => staged'[x][g] = Content(g)'
               /\ stamps'[g] # NoStamp => stamps'[g][1] <= staging'[x][g]
               /\ found'[x][g][1] <= staging'[x][g]
    <3>1. g \in Files /\ found[x][g] # NoStamp /\ (g = f \/ g \in Read(x))
      BY <1>2, <1>4 DEF Read, Changed
    <3>2. CASE g = f
      <4>1. second <= second /\ found[x][g][1] <= second
        BY <1>3, <3>1 DEF IndexInv, StampsPast, Seconds
      <4>2. stamps[g] # NoStamp => stamps[g][1] <= second
        <5> SUFFICES ASSUME stamps[g] # NoStamp PROVE stamps[g][1] <= second
          OBVIOUS
        <5>1. stamps[g][1] <= readAt[g] /\ readAt[g] <= second
          BY <3>1 DEF IndexInv, StampsPast
        <5>2. stamps[g][1] \in Seconds /\ readAt[g] \in Seconds
          BY <3>1, StampTime DEF IndexInv, ContextTypeOK
        <5> QED
          BY <1>3, <5>1, <5>2 DEF Seconds
      <4>3. Content(g)' = Content(g)
        BY <1>2 DEF Content, Readable
      <4> QED
        BY <1>2, <1>5, <3>2, <4>1, <4>2, <4>3
    <3>3. CASE g # f
      <4>1. Content(g)' = Content(g)
        BY <1>2 DEF Content, Readable
      <4> QED
        BY <1>2, <1>5, <3>1, <3>3, <4>1 DEF IndexInv, StagedSound
    <3> QED
      BY <3>2, <3>3
  <2> QED
    BY <1>2, <2>1, <2>2 DEF StagedSound
<1> QED
  BY <1>6, <1>7, <1>8 DEF IndexInv

\* A transaction commits: a text is indexed as of its reading, under the stamp
\* taken before it, or under the one that is cached where there is no text.
LEMMA CommitInv == ASSUME IndexInv, NEW x \in Indexers, CommitIndex(x) PROVE IndexInv'
<1>1. /\ phase[x] = "read" /\ Read(x) = Changed(x)
      /\ symbols' = [f \in Files |-> IF f \in Gone(x) THEN NoText
                                     ELSE IF f \in Changed(x) THEN staged[x][f] ELSE symbols[f]]
      /\ stamps' = [f \in Files |-> IF f \in Gone(x) THEN NoStamp
                                    ELSE IF f \in Changed(x) THEN CachedAs(x, f) ELSE stamps[f]]
      /\ readAt' = [f \in Files |-> IF f \in Changed(x) THEN staging[x][f] ELSE readAt[f]]
      /\ phase' = [phase EXCEPT ![x] = "idle"]
      /\ found' = [found EXCEPT ![x] = Unstamped]
      /\ UNCHANGED <<second, disk>>
  BY DEF CommitIndex, Read
<1>2. ASSUME NEW f \in Files
      PROVE  stamps[f] \in Stamps /\ found[x][f] \in Stamps /\ readAt[f] \in Seconds
             /\ staging[x][f] \in Seconds /\ staged[x][f] \in (Texts \ Binary) \union {NoText}
             /\ symbols[f] \in (Texts \ Binary) \union {NoText} /\ CachedAs(x, f) \in Stamps
  BY DEF IndexInv, ContextTypeOK, CachedAs
<1>3. ContextTypeOK'
  <2>1. NoStamp \in Stamps /\ 0 \in Seconds
    BY IndexAssumption DEF Stamps, Seconds
  <2>2. symbols' \in [Files -> (Texts \ Binary) \union {NoText}]
    BY <1>1, <1>2
  <2>3. stamps' \in [Files -> Stamps]
    BY <1>1, <1>2, <2>1
  <2>4. readAt' \in [Files -> Seconds]
    BY <1>1, <1>2
  <2>5. /\ second' \in Seconds /\ disk' \in [Files -> File \union {NoText}]
        /\ unwalked' \in [Indexers -> SUBSET Files] /\ queue' \in [Indexers -> SUBSET Files]
        /\ phase' \in [Indexers -> {"idle", "walk", "read"}]
    BY DEF CommitIndex, IndexInv, ContextTypeOK
  <2>6. known' \in [Indexers -> [Files -> Stamps]] /\ found' \in [Indexers -> [Files -> Stamps]]
    BY <2>1 DEF CommitIndex, IndexInv, ContextTypeOK, Unstamped
  <2>7. /\ staged' \in [Indexers -> [Files -> (Texts \ Binary) \union {NoText}]]
        /\ staging' \in [Indexers -> [Files -> Seconds]]
    BY <2>1 DEF CommitIndex, IndexInv, ContextTypeOK, Textless, Unread
  <2> QED
    BY <2>2, <2>3, <2>4, <2>5, <2>6, <2>7 DEF ContextTypeOK
\* Each file that was read, and each that was not.
<1>4. ASSUME NEW f \in Changed(x), f \notin Gone(x)
      PROVE  /\ symbols'[f] = staged[x][f] /\ readAt'[f] = staging[x][f]
             /\ stamps'[f] = CachedAs(x, f) /\ f \in Files
             /\ readAt'[f] <= second
             /\ stamps'[f] # NoStamp => stamps'[f][1] <= readAt'[f]
             /\ disk[f] # NoText /\ disk[f].time < readAt'[f] => symbols'[f] = Content(f)
             /\ symbols'[f] # NoText => stamps'[f] # NoStamp
  <2>1. f \in Files /\ found[x][f] # NoStamp
    BY DEF Changed
  <2>2. /\ symbols'[f] = staged[x][f] /\ readAt'[f] = staging[x][f]
        /\ stamps'[f] = CachedAs(x, f)
    BY <1>1, <1>4, <2>1
  <2>3. /\ staging[x][f] <= second
        /\ disk[f] # NoText /\ disk[f].time < staging[x][f] => staged[x][f] = Content(f)
        /\ stamps[f] # NoStamp => stamps[f][1] <= staging[x][f]
        /\ found[x][f][1] <= staging[x][f]
    BY <1>1, <1>4 DEF IndexInv, StagedSound
  <2> QED
    BY <2>1, <2>2, <2>3 DEF CachedAs
<1>5. ASSUME NEW f \in Files \ Changed(x), f \notin Gone(x)
      PROVE  symbols'[f] = symbols[f] /\ stamps'[f] = stamps[f] /\ readAt'[f] = readAt[f]
  BY <1>1, <1>5
<1>6. ASSUME NEW f \in Gone(x)
      PROVE  /\ f \in Files /\ symbols'[f] = NoText /\ stamps'[f] = NoStamp
             /\ readAt'[f] = readAt[f]
  BY <1>1 DEF Gone, Changed
<1>7. StampsPast'
  <2>1. \A f \in Files : readAt'[f] <= second /\ (stamps'[f] # NoStamp => stamps'[f][1] <= readAt'[f])
    BY <1>4, <1>5, <1>6 DEF IndexInv, StampsPast
  <2>2. \A y \in Indexers, f \in Files : found'[y][f] # NoStamp => found'[y][f][1] <= second
    BY <1>1 DEF IndexInv, ContextTypeOK, StampsPast, Unstamped
  <2> QED
    BY <1>1, <2>1, <2>2 DEF IndexInv, StampsPast
<1>8. OneReads' /\ StagedSound'
  <2>1. \A y \in Indexers : phase'[y] # "read"
    BY <1>1 DEF IndexInv, ContextTypeOK, OneReads
  <2> QED
    BY <2>1 DEF OneReads, StagedSound
<1>9. IndexIsSound'
  <2> SUFFICES ASSUME NEW f \in Files
               PROVE  /\ symbols'[f] # NoText => stamps'[f] # NoStamp
                      /\ disk[f] # NoText /\ stamps'[f] = Stamp(f)
                           => symbols'[f] = Content(f) \/ readAt'[f] = disk[f].time
    BY <1>1 DEF IndexIsSound, Content, Readable, Stamp
  <2>1. CASE f \in Gone(x)
    <3>1. disk[f] # NoText => Stamp(f) # NoStamp
      <4> SUFFICES ASSUME disk[f] # NoText PROVE Stamp(f) # NoStamp
        OBVIOUS
      <4> DEFINE short == disk[f].text \in Short
      <4>1. short \in BOOLEAN /\ Stamp(f) = <<disk[f].time, short>>
        BY DEF Stamp
      <4>2. disk[f].time \in 0..LastSecond
        BY DEF IndexInv, ContextTypeOK, File, Seconds
      <4> HIDE DEF short
      <4> QED
        BY <4>1, <4>2, IndexAssumption
    <3> QED
      BY <1>6, <2>1, <3>1
  <2>2. CASE f \notin Gone(x) /\ f \notin Changed(x)
    BY <1>5, <2>2 DEF IndexInv, IndexIsSound, Content
  <2>3. CASE f \notin Gone(x) /\ f \in Changed(x)
    <3> SUFFICES ASSUME disk[f] # NoText, stamps'[f] = Stamp(f)
                 PROVE  symbols'[f] = Content(f) \/ readAt'[f] = disk[f].time
      BY <1>4, <2>3
    <3>1. disk[f].time \in Seconds /\ Stamp(f)[1] = disk[f].time
      BY DEF IndexInv, ContextTypeOK, File, Stamp
    <3>2. readAt'[f] \in Seconds
      BY <1>3 DEF ContextTypeOK
    <3>3. stamps'[f] # NoStamp
      <4> DEFINE short == disk[f].text \in Short
      <4>1. short \in BOOLEAN /\ Stamp(f) = <<disk[f].time, short>>
        BY DEF Stamp
      <4> HIDE DEF short
      <4> QED
        BY <3>1, <4>1, IndexAssumption DEF Seconds
    <3>4. disk[f].time <= readAt'[f]
      BY <1>4, <2>3, <3>1, <3>3
    <3> QED
      BY <1>4, <2>3, <3>1, <3>2, <3>4 DEF Seconds
  <2> QED
    BY <2>1, <2>2, <2>3
<1> QED
  BY <1>3, <1>7, <1>8, <1>9 DEF IndexInv

LEMMA AbandonInv == ASSUME IndexInv, NEW x \in Indexers, AbandonIndex(x) PROVE IndexInv'
<1>1. /\ UNCHANGED <<second, disk, symbols, stamps, readAt>>
      /\ phase' = [phase EXCEPT ![x] = "idle"] /\ found' = [found EXCEPT ![x] = Unstamped]
  BY DEF AbandonIndex
<1>2. ContextTypeOK'
  <2>1. NoStamp \in Stamps /\ 0 \in Seconds
    BY IndexAssumption DEF Stamps, Seconds
  <2>2. /\ unwalked' \in [Indexers -> SUBSET Files] /\ queue' \in [Indexers -> SUBSET Files]
        /\ phase' \in [Indexers -> {"idle", "walk", "read"}]
    BY DEF AbandonIndex, IndexInv, ContextTypeOK
  <2>3. known' \in [Indexers -> [Files -> Stamps]] /\ found' \in [Indexers -> [Files -> Stamps]]
    BY <2>1 DEF AbandonIndex, IndexInv, ContextTypeOK, Unstamped
  <2>4. /\ staged' \in [Indexers -> [Files -> (Texts \ Binary) \union {NoText}]]
        /\ staging' \in [Indexers -> [Files -> Seconds]]
    BY <2>1 DEF AbandonIndex, IndexInv, ContextTypeOK, Textless, Unread
  <2> QED
    BY <1>1, <2>2, <2>3, <2>4 DEF IndexInv, ContextTypeOK
<1>3. IndexIsSound'
  BY <1>1, KeepsIndex
<1>4. StampsPast'
  <2>1. \A y \in Indexers, f \in Files : found'[y][f] # NoStamp => found'[y][f][1] <= second
    BY <1>1 DEF IndexInv, ContextTypeOK, StampsPast, Unstamped
  <2> QED
    BY <1>1, <2>1 DEF IndexInv, StampsPast
<1>5. /\ phase'[x] = "idle"
      /\ \A y \in Indexers \ {x} :
           phase'[y] = phase[y] /\ known'[y] = known[y] /\ found'[y] = found[y]
             /\ queue'[y] = queue[y] /\ staged'[y] = staged[y] /\ staging'[y] = staging[y]
  BY DEF AbandonIndex, IndexInv, ContextTypeOK
<1>6. OneReads'
  BY <1>5 DEF IndexInv, OneReads
<1>7. StagedSound'
  <2> SUFFICES ASSUME NEW y \in Indexers, phase'[y] = "read"
               PROVE  y # x
    BY <1>1, <1>5, OthersSound DEF StagedSound
  <2> QED
    BY <1>5
<1> QED
  BY <1>2, <1>3, <1>4, <1>6, <1>7 DEF IndexInv

-----------------------------------------------------------------------------
LEMMA IndexKept == ASSUME IndexInv, [ContextNext]_indexVars PROVE IndexInv'
<1>1. CASE UNCHANGED indexVars
  <2>1. ContextTypeOK'
    BY <1>1 DEF indexVars, IndexInv, ContextTypeOK
  <2>2. StampsPast' /\ IndexIsSound'
    BY <1>1, KeepsIndex DEF indexVars
  <2>3. OneReads'
    BY <1>1 DEF indexVars, IndexInv, OneReads
  <2>4. StagedSound'
    BY <1>1, OthersSound DEF indexVars, StagedSound
  <2> QED
    BY <2>1, <2>2, <2>3, <2>4 DEF IndexInv
<1>2. CASE ContextNext
  BY <1>2, EditInv, RemoveInv, SecondInv, ReadCacheInv, WalkedInv, CompareInv, ReadFileInv,
     CommitInv, AbandonInv DEF ContextNext
<1> QED
  BY <1>1, <1>2

\* A file that the next indexing would skip is indexed as it is, unless it was
\* edited again in the second it was read, and no symbols are without a row of
\* file_cache: for any number of indexers and files and any edits meanwhile
\* (contextidx.rs:378-396).
THEOREM IndexSound == ContextSpec => []IndexIsSound
<1>1. IndexInv /\ [ContextNext]_indexVars => IndexInv'
  BY IndexKept
<1> QED
  BY <1>1, ContextInitInv, PTL DEF ContextSpec, IndexInv
=============================================================================
