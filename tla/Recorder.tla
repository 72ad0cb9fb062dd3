------------------------------ MODULE Recorder ------------------------------
(***************************************************************************)
(* The flight recorder (src/src/recorder.rs): processes write payloads to  *)
(* a content-addressed store and then name them in a journal per task,     *)
(* while another process prunes both by modification time.                 *)
(*                                                                         *)
(* A blob is named by its payload, so the model uses the payload for the   *)
(* digest.  Every file operation is a step of its own, the stat and the    *)
(* unlink of the pruner included; a writer may die between any two.  Each  *)
(* writer has a task of its own, as a run has.                             *)
(***************************************************************************)
EXTENDS Integers, FiniteSets

CONSTANTS
  Writers,       \* runs that record, each for its own task
  Payloads,
  NoFile,
  TraceRetention, \* security.retention_days
  LastDay        \* bound on time

ASSUME RecorderAssumption ==
  /\ IsFiniteSet(Writers) /\ NoFile \notin Payloads
  /\ TraceRetention \in Nat \ {0} /\ LastDay \in Nat

VARIABLES
  day,
  blob,     \* per payload: "none", "part" or "whole"
  blobTime, \* its modification time
  journal,  \* per writer: the payloads its journal names
  journalTime,
  writing,  \* where each writer is
  holding,  \* the payload it is recording
  pruner,   \* "idle", "journals" or "objects"
  cutoff,   \* of the pruning under way
  unseen,   \* files it has yet to stat
  doomed,   \* the file it has found to be old, or NoFile
  modified, \* what its stat said
  \* For the properties only.
  spoiled   \* blobs a writer died over, or that went on a stat taken before they were rewritten

recorderVars == <<day, blob, blobTime, journal, journalTime, writing, holding, pruner,
                  cutoff, unseen, doomed, modified, spoiled>>
blobs == <<blob, blobTime>>
journals == <<journal, journalTime>>
pruning == <<pruner, cutoff, unseen, doomed, modified>>

Days == 0..LastDay
WritingStages == {"idle", "check", "write", "finish", "append"}

RecorderTypeOK ==
  /\ day \in Days
  /\ blob \in [Payloads -> {"none", "part", "whole"}]
  /\ blobTime \in [Payloads -> Days]
  /\ journal \in [Writers -> SUBSET Payloads]
  /\ journalTime \in [Writers -> Days]
  /\ writing \in [Writers -> WritingStages]
  /\ holding \in [Writers -> Payloads \union {NoFile}]
  /\ pruner \in {"idle", "journals", "objects"}
  /\ cutoff \in (0 - TraceRetention)..LastDay
  /\ unseen \subseteq Writers \union Payloads
  /\ doomed \in Writers \union Payloads \union {NoFile} /\ modified \in Days
  /\ spoiled \subseteq Payloads

RecorderInit ==
  /\ day = 0
  /\ blob = [p \in Payloads |-> "none"]
  /\ blobTime = [p \in Payloads |-> 0]
  /\ journal = [w \in Writers |-> {}]
  /\ journalTime = [w \in Writers |-> 0]
  /\ writing = [w \in Writers |-> "idle"]
  /\ holding = [w \in Writers |-> NoFile]
  /\ pruner = "idle" /\ cutoff = 0 /\ unseen = {} /\ doomed = NoFile /\ modified = 0
  /\ spoiled = {}

-----------------------------------------------------------------------------
(* record_event. *)

WriterTo(w, place) == writing' = [writing EXCEPT ![w] = place]

Record(w) ==
  /\ writing[w] = "idle"
  /\ \E p \in Payloads : holding' = [holding EXCEPT ![w] = p]
  /\ WriterTo(w, "check")
  /\ UNCHANGED <<day, blobs, journals, pruning, spoiled>>

\* put_blob: a file that exists is taken for stored, and is not touched.
CheckBlob(w) ==
  /\ writing[w] = "check"
  /\ WriterTo(w, IF blob[holding[w]] # "none" THEN "append" ELSE "write")
  /\ UNCHANGED <<day, blobs, journals, holding, pruning, spoiled>>

\* fs::write creates or truncates the file in place...
CreateBlob(w) ==
  /\ writing[w] = "write"
  /\ blob' = [blob EXCEPT ![holding[w]] = "part"]
  /\ blobTime' = [blobTime EXCEPT ![holding[w]] = day]
  /\ WriterTo(w, "finish")
  /\ UNCHANGED <<day, journals, holding, pruning, spoiled>>

\* ...and then fills it, if it was not unlinked meanwhile.
FillBlob(w) ==
  /\ writing[w] = "finish"
  /\ IF blob[holding[w]] = "none" THEN UNCHANGED <<blobs, spoiled>>
     ELSE /\ blob' = [blob EXCEPT ![holding[w]] = "whole"]
          /\ blobTime' = [blobTime EXCEPT ![holding[w]] = day]
          /\ spoiled' = spoiled \ {holding[w]}
  /\ WriterTo(w, "append")
  /\ UNCHANGED <<day, journals, holding, pruning>>

\* The directory was removed between create_dir_all and the write, or the disk
\* is full: record returns the error, and the run only warns.
WriteFails(w) ==
  /\ writing[w] = "write"
  /\ WriterTo(w, "idle")
  /\ holding' = [holding EXCEPT ![w] = NoFile]
  /\ UNCHANGED <<day, blobs, journals, pruning, spoiled>>

AppendLine(w) ==
  /\ writing[w] = "append"
  /\ journal' = [journal EXCEPT ![w] = @ \union {holding[w]}]
  /\ journalTime' = [journalTime EXCEPT ![w] = day]
  /\ WriterTo(w, "idle")
  /\ holding' = [holding EXCEPT ![w] = NoFile]
  /\ UNCHANGED <<day, blobs, pruning, spoiled>>

\* The writer's process dies.
Die(w) ==
  /\ writing[w] # "idle"
  /\ spoiled' = IF writing[w] = "finish" THEN spoiled \union {holding[w]} ELSE spoiled
  /\ WriterTo(w, "idle")
  /\ holding' = [holding EXCEPT ![w] = NoFile]
  /\ UNCHANGED <<day, blobs, journals, pruning>>

-----------------------------------------------------------------------------
(* prune_old_traces, from Engine::new in some process. *)

StartPruning ==
  /\ pruner = "idle"
  /\ cutoff' = day - TraceRetention
  /\ pruner' = "journals"
  /\ unseen' = {w \in Writers : journal[w] # {}}
  /\ UNCHANGED <<day, blobs, journals, writing, holding, doomed, modified, spoiled>>

\* The metadata of the next file of the directory.
Stat(f, time) ==
  /\ f \in unseen /\ doomed = NoFile
  /\ unseen' = unseen \ {f}
  /\ IF time < cutoff THEN doomed' = f /\ modified' = time ELSE UNCHANGED <<doomed, modified>>
  /\ UNCHANGED <<day, blobs, journals, writing, holding, pruner, cutoff, spoiled>>

StatJournal(w) == pruner = "journals" /\ Stat(w, journalTime[w])

\* Mutant: a blob goes on the last day of its retention.
StatObjectEarly(p) ==
  /\ pruner = "objects" /\ p \in unseen /\ doomed = NoFile
  /\ unseen' = unseen \ {p}
  /\ IF blobTime[p] <= cutoff THEN doomed' = p /\ modified' = blobTime[p]
     ELSE UNCHANGED <<doomed, modified>>
  /\ UNCHANGED <<day, blobs, journals, writing, holding, pruner, cutoff, spoiled>>

StatObject(p) == pruner = "objects" /\ Stat(p, blobTime[p])

\* remove_file, whatever has happened to the file since.
RemoveJournal ==
  /\ doomed \in Writers
  /\ journal' = [journal EXCEPT ![doomed] = {}]
  /\ journalTime' = [journalTime EXCEPT ![doomed] = 0]
  /\ doomed' = NoFile /\ modified' = 0
  /\ UNCHANGED <<day, blobs, writing, holding, pruner, cutoff, unseen, spoiled>>

RemoveObject ==
  /\ doomed \in Payloads
  /\ blob' = [blob EXCEPT ![doomed] = "none"]
  /\ spoiled' = IF blobTime[doomed] = modified THEN spoiled ELSE spoiled \union {doomed}
  /\ doomed' = NoFile /\ modified' = 0
  /\ UNCHANGED <<day, blobTime, journals, writing, holding, pruner, cutoff, unseen>>

WalkObjects ==
  /\ pruner = "journals" /\ unseen = {} /\ doomed = NoFile
  /\ pruner' = "objects"
  /\ unseen' = {p \in Payloads : blob[p] # "none"}
  /\ UNCHANGED <<day, blobs, journals, writing, holding, cutoff, doomed, modified, spoiled>>

EndPruning ==
  /\ pruner = "objects" /\ unseen = {} /\ doomed = NoFile
  /\ pruner' = "idle" /\ cutoff' = 0
  /\ UNCHANGED <<day, blobs, journals, writing, holding, unseen, doomed, modified, spoiled>>

NextDay ==
  /\ day < LastDay
  /\ day' = day + 1
  /\ UNCHANGED <<blobs, journals, writing, holding, pruning, spoiled>>

RecorderNext ==
  \/ \E w \in Writers :
       \/ Record(w) \/ CheckBlob(w) \/ CreateBlob(w) \/ FillBlob(w) \/ WriteFails(w)
       \/ AppendLine(w) \/ Die(w)
  \/ \E w \in Writers : StatJournal(w)
  \/ \E p \in Payloads : StatObject(p)
  \/ StartPruning \/ RemoveJournal \/ WalkObjects \/ RemoveObject \/ EndPruning
  \/ NextDay

RecorderSpec == RecorderInit /\ [][RecorderNext]_recorderVars

-----------------------------------------------------------------------------
(* Properties. *)

Old(t) == day - t > TraceRetention
BeingWritten(p) == \E w \in Writers : holding[w] = p /\ writing[w] = "finish"

\* Whatever writers of one payload and the pruner do to each other, what a
\* journal names is there in full, unless it is still being written, was stored
\* longer ago than the retention, or was spoiled: its writer died over it, or
\* the pruner unlinked it just after it was written anew (recorder.rs:86-137,
\* 170-227).
JournalBacked ==
  \A w \in Writers : \A p \in journal[w] :
    blob[p] = "whole" \/ BeingWritten(p) \/ p \in spoiled \/ Old(blobTime[p])
=============================================================================
