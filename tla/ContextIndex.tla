---------------------------- MODULE ContextIndex ----------------------------
(***************************************************************************)
(* Indexer::index_workspace (src/src/contextidx.rs): an incremental index  *)
(* of a workspace that is edited meanwhile, kept in a database that other  *)
(* indexing processes use too (`index --out`).  A file is read again only  *)
(* when its modification time, in whole seconds, or its size has changed.  *)
(*                                                                         *)
(* The symbols of a file are a function of its text, so the index holds    *)
(* the text they were extracted from.  The cache is read before the        *)
(* transaction; what is written inside it appears when it commits.         *)
(***************************************************************************)
EXTENDS Integers, FiniteSets

CONSTANTS
  Indexers,
  Files,
  Texts,
  Short,      \* texts of one size; the others have another
  Binary,     \* texts read_to_string refuses
  NoText, NoStamp,
  LastSecond  \* bound on time

ASSUME IndexAssumption ==
  /\ Short \subseteq Texts /\ Binary \subseteq Texts
  /\ NoText \notin Texts /\ NoStamp \notin (0..LastSecond) \X BOOLEAN /\ LastSecond \in Nat

VARIABLES
  second,
  disk,     \* per file: its text and modification time, or NoText
  symbols,  \* per file: the text whose symbols the index holds, or NoText
  stamps,   \* file_cache: modification time and size, or NoStamp
  phase,    \* per indexer: "idle", "walk" or "read"
  known,    \* the stamps it read from file_cache
  unwalked, \* files it has yet to stat
  found,    \* the stamps it took
  queue,    \* files it has yet to read
  staged,   \* the symbols of its transaction
  \* For the properties only.
  staging,  \* the second it read each file
  readAt    \* the second the indexed text of each file was read

indexVars == <<second, disk, symbols, stamps, phase, known, unwalked, found, queue, staged,
               staging, readAt>>

Seconds == 0..LastSecond
File == [text : Texts, time : Seconds]
Stamps == Seconds \X BOOLEAN \union {NoStamp}

\* What stat tells of a file; none, or one of more than a megabyte, is skipped.
Stamp(f) == IF disk[f] = NoText THEN NoStamp
            ELSE <<disk[f].time, disk[f].text \in Short>>

ContextTypeOK ==
  /\ second \in Seconds
  /\ disk \in [Files -> File \union {NoText}]
  /\ symbols \in [Files -> (Texts \ Binary) \union {NoText}]
  /\ stamps \in [Files -> Stamps]
  /\ phase \in [Indexers -> {"idle", "walk", "read"}]
  /\ known \in [Indexers -> [Files -> Stamps]]
  /\ found \in [Indexers -> [Files -> Stamps]]
  /\ unwalked \in [Indexers -> SUBSET Files]
  /\ queue \in [Indexers -> SUBSET Files]
  /\ staged \in [Indexers -> [Files -> (Texts \ Binary) \union {NoText}]]
  /\ staging \in [Indexers -> [Files -> Seconds]]
  /\ readAt \in [Files -> Seconds]

Unstamped == [f \in Files |-> NoStamp]
Textless == [f \in Files |-> NoText]
Unread == [f \in Files |-> 0]

ContextInit ==
  /\ second = 0
  /\ disk = Textless /\ symbols = Textless /\ stamps = Unstamped
  /\ phase = [x \in Indexers |-> "idle"]
  /\ known = [x \in Indexers |-> Unstamped]
  /\ found = [x \in Indexers |-> Unstamped]
  /\ unwalked = [x \in Indexers |-> {}]
  /\ queue = [x \in Indexers |-> {}]
  /\ staged = [x \in Indexers |-> Textless]
  /\ staging = [x \in Indexers |-> Unread]
  /\ readAt = Unread

-----------------------------------------------------------------------------
(* The editor. *)

EditFile(f) ==
  /\ \E t \in Texts : disk' = [disk EXCEPT ![f] = [text |-> t, time |-> second]]
  /\ UNCHANGED <<second, symbols, stamps, phase, known, unwalked, found, queue, staged,
                 staging, readAt>>

RemoveFile(f) ==
  /\ disk[f] # NoText
  /\ disk' = [disk EXCEPT ![f] = NoText]
  /\ UNCHANGED <<second, symbols, stamps, phase, known, unwalked, found, queue, staged,
                 staging, readAt>>

NextSecond ==
  /\ second < LastSecond
  /\ second' = second + 1
  /\ UNCHANGED <<disk, symbols, stamps, phase, known, unwalked, found, queue, staged,
                 staging, readAt>>

-----------------------------------------------------------------------------
(* index_workspace. *)

ReadCache(x) ==
  /\ phase[x] = "idle"
  /\ phase' = [phase EXCEPT ![x] = "walk"]
  /\ known' = [known EXCEPT ![x] = stamps]
  /\ unwalked' = [unwalked EXCEPT ![x] = Files]
  /\ UNCHANGED <<second, disk, symbols, stamps, found, queue, staged, staging, readAt>>

Walk(x) ==
  /\ phase[x] = "walk"
  /\ \E f \in unwalked[x] :
       /\ found' = [found EXCEPT ![x][f] = Stamp(f)]
       /\ unwalked' = [unwalked EXCEPT ![x] = @ \ {f}]
  /\ UNCHANGED <<second, disk, symbols, stamps, phase, known, queue, staged, staging, readAt>>

\* The files whose stamp is not the cached one are read.  The first DELETE of
\* the transaction takes the database's write lock, so one indexer reads at a time.
Compare(x) ==
  /\ phase[x] = "walk" /\ unwalked[x] = {} /\ \A y \in Indexers : phase[y] # "read"
  /\ phase' = [phase EXCEPT ![x] = "read"]
  /\ queue' = [queue EXCEPT ![x] =
       {f \in Files : found[x][f] # NoStamp /\ found[x][f] # known[x][f]}]
  /\ UNCHANGED <<second, disk, symbols, stamps, known, unwalked, found, staged, staging, readAt>>

\* Mutant: text is read lossily, binary or not.
ReadableAny(f) == disk[f] # NoText

Readable(f) == disk[f] # NoText /\ disk[f].text \notin Binary

\* A file that cannot be read, any more or as text, leaves no symbols.
ReadFile(x) ==
  /\ phase[x] = "read"
  /\ \E f \in queue[x] :
       /\ staged' = [staged EXCEPT ![x][f] = IF Readable(f) THEN disk[f].text ELSE NoText]
       /\ staging' = [staging EXCEPT ![x][f] = second]
       /\ queue' = [queue EXCEPT ![x] = @ \ {f}]
  /\ UNCHANGED <<second, disk, symbols, stamps, phase, known, unwalked, found, readAt>>

\* Files that were cached and are gone, and files to be read whose stamp differs.
Gone(x) == {f \in Files : known[x][f] # NoStamp /\ found[x][f] = NoStamp}
Changed(x) == {f \in Files : found[x][f] # NoStamp /\ found[x][f] # known[x][f]}

\* Mutant: the stamp is taken once more, after the text was read.
CachedLater(x, f) == IF staged[x][f] = NoText THEN stamps[f] ELSE Stamp(f)

\* The stamp of a file that was read; of one that could not be, the cached one stays.
CachedAs(x, f) == IF staged[x][f] = NoText THEN stamps[f] ELSE found[x][f]

CommitIndex(x) ==
  /\ phase[x] = "read" /\ queue[x] = {}
  /\ symbols' = [f \in Files |-> IF f \in Gone(x) THEN NoText
                                 ELSE IF f \in Changed(x) THEN staged[x][f] ELSE symbols[f]]
  /\ stamps' = [f \in Files |-> IF f \in Gone(x) THEN NoStamp
                                ELSE IF f \in Changed(x) THEN CachedAs(x, f) ELSE stamps[f]]
  /\ readAt' = [f \in Files |-> IF f \in Changed(x) THEN staging[x][f] ELSE readAt[f]]
  /\ phase' = [phase EXCEPT ![x] = "idle"]
  /\ known' = [known EXCEPT ![x] = Unstamped]
  /\ found' = [found EXCEPT ![x] = Unstamped]
  /\ staged' = [staged EXCEPT ![x] = Textless]
  /\ staging' = [staging EXCEPT ![x] = Unread]
  /\ UNCHANGED <<second, disk, unwalked, queue>>

\* The process dies: its transaction is rolled back.
AbandonIndex(x) ==
  /\ phase[x] # "idle"
  /\ phase' = [phase EXCEPT ![x] = "idle"]
  /\ known' = [known EXCEPT ![x] = Unstamped]
  /\ unwalked' = [unwalked EXCEPT ![x] = {}]
  /\ found' = [found EXCEPT ![x] = Unstamped]
  /\ queue' = [queue EXCEPT ![x] = {}]
  /\ staged' = [staged EXCEPT ![x] = Textless]
  /\ staging' = [staging EXCEPT ![x] = Unread]
  /\ UNCHANGED <<second, disk, symbols, stamps, readAt>>

ContextNext ==
  \/ \E f \in Files : EditFile(f) \/ RemoveFile(f)
  \/ NextSecond
  \/ \E x \in Indexers :
       ReadCache(x) \/ Walk(x) \/ Compare(x) \/ ReadFile(x) \/ CommitIndex(x) \/ AbandonIndex(x)

ContextSpec == ContextInit /\ [][ContextNext]_indexVars

-----------------------------------------------------------------------------
(* Properties. *)

\* A file that the next indexing would skip is indexed as it is: whatever edits
\* and other indexers come between its stat, its reading and the commit, its
\* symbols are those of its text.  The one exception is a file edited again in
\* the very second it was read.  And no symbols are without a file_cache row,
\* for they would never be found to be deleted (contextidx.rs:378-396).
IndexIsSound ==
  /\ \A f \in Files :
       disk[f] # NoText /\ stamps[f] = Stamp(f)
         => \/ symbols[f] = (IF Readable(f) THEN disk[f].text ELSE NoText)
            \/ readAt[f] = disk[f].time
  /\ \A f \in Files : symbols[f] # NoText => stamps[f] # NoStamp
=============================================================================
