----------------------------- MODULE Migration -----------------------------
(***************************************************************************)
(* Opening the database file (Store::open in src/src/store.rs): several    *)
(* processes create or upgrade one SQLite file, statement by statement,    *)
(* without a transaction around them; any of them may crash in between, or *)
(* meet a lock and give up.                                                *)
(*                                                                         *)
(* A statement matters for what it adds: a table with the columns it is    *)
(* created with, a column, an index, or the schema version.  Tables that   *)
(* no migration touches are one table, "others".                           *)
(***************************************************************************)
EXTENDS Integers, Sequences

CONSTANTS
  Openers,   \* processes that open the file
  Layouts,   \* what the file can hold before: tables, columns, indexes, version
  OldTasks   \* tasks with rows in failure_memory that have no goal_hash

VARIABLES
  db,       \* the file
  unhashed, \* the OldTasks whose failures have no goal_hash yet
  step,     \* next statement of each opener; 0 before it starts
  opened,   \* "no", "ok", "locked" or "refused"
  \* For the properties only.
  ignored   \* an opener went on although token_hash could not be added

migrationVars == <<db, unhashed, step, opened, ignored>>

Columns == [failure_memory |-> {"goal_hash"},
            executions |-> {"executions_tier", "token_hash"},
            solution_cache |-> {"cache_tier", "cache_goal"},
            execution_attempts |-> {"route", "cost_usd"},
            bandit_state |-> {}, others |-> {}]
Tables == DOMAIN Columns
TableOf(c) == CHOOSE t \in Tables : c \in Columns[t]
AllColumns == UNION {Columns[t] : t \in Tables}
Indexes == {"goal_hash", "route"}  \* the indexes on columns that were added later

\* Statements.
Create(t) == [do |-> "create", on |-> t]
Index(c) == [do |-> "index", on |-> c]
AddColumn(c) == [do |-> "add", on |-> c]
SetVersion(v) == [do |-> "version", on |-> v]
Backfill == [do |-> "backfill", on |-> ""]
\* Step over the next n statements if the file has version v already.
CheckVersion(v, n) == [do |-> "check", on |-> v, over |-> n]

\* SCHEMA: one batch, in this order.
Schema == <<Create("failure_memory"), Index("goal_hash"), Create("executions"),
            Create("solution_cache"), Create("execution_attempts"), Index("route"),
            Create("bandit_state"), Create("others")>>

ToVersion1 == Schema \o
  <<AddColumn("goal_hash"), Index("goal_hash"), AddColumn("executions_tier"),
    AddColumn("cache_tier"), AddColumn("cache_goal"), AddColumn("route"),
    AddColumn("cost_usd"), Index("route"), Create("others"), SetVersion(1)>>
ToVersion2 == <<Create("bandit_state"), SetVersion(2)>>
\* Mutant: the version is written before the column is there.
ToVersion3Early == <<SetVersion(3), AddColumn("token_hash")>>
ToVersion3 == <<AddColumn("token_hash"), SetVersion(3)>>

\* PRAGMA user_version is read before each block.
Upgrade(v, block) == <<CheckVersion(v, Len(block))>> \o block
Statements ==
  Upgrade(1, ToVersion1) \o Upgrade(2, ToVersion2) \o Upgrade(3, ToVersion3) \o <<Backfill>>
Last == Len(Statements)

EmptyFile == [tables |-> {}, columns |-> {}, indexes |-> {}, version |-> 0]

FileLayouts == [tables : SUBSET Tables, columns : SUBSET AllColumns, indexes : SUBSET Indexes,
          version : 0..3]

\* No earlier build wrote a version before what it stands for was there.
ASSUME MigrationAssumption ==
  /\ Layouts \subseteq FileLayouts
  /\ \A f \in Layouts :
       /\ f.version >= 1 => /\ Tables \ {"bandit_state"} \subseteq f.tables
                           /\ AllColumns \ {"token_hash"} \subseteq f.columns
                           /\ f.indexes = Indexes
       /\ f.version >= 2 => "bandit_state" \in f.tables
       /\ f.version >= 3 => "token_hash" \in f.columns

MigrationTypeOK ==
  /\ db \in FileLayouts
  /\ unhashed \subseteq OldTasks
  /\ step \in [Openers -> 0..Last]
  /\ opened \in [Openers -> {"no", "ok", "locked", "refused"}]
  /\ ignored \in BOOLEAN

MigrationInit ==
  /\ db = EmptyFile
  /\ unhashed = {}
  /\ step = [p \in Openers |-> 0]
  /\ opened = [p \in Openers |-> "no"]
  /\ ignored = FALSE

-----------------------------------------------------------------------------

\* The file an earlier build left.
FindFile ==
  /\ db = EmptyFile /\ \A p \in Openers : step[p] = 0
  /\ db' \in Layouts
  /\ unhashed' \in IF "failure_memory" \in db'.tables THEN SUBSET OldTasks ELSE {{}}
  /\ UNCHANGED <<step, opened, ignored>>

StartOpen(p) ==
  /\ step[p] = 0
  /\ step' = [step EXCEPT ![p] = 1]
  /\ opened' = [opened EXCEPT ![p] = "no"]
  /\ UNCHANGED <<db, unhashed, ignored>>

\* What a statement does to the file.  IF NOT EXISTS: what is there stays as it
\* is.  The error of an ALTER TABLE is taken for "the column is there".
Done(s) ==
  CASE s.do = "create" /\ s.on \notin db.tables ->
         [db EXCEPT !.tables = @ \union {s.on}, !.columns = @ \union Columns[s.on]]
    [] s.do = "index" -> [db EXCEPT !.indexes = @ \union {s.on}]
    [] s.do = "add" /\ TableOf(s.on) \in db.tables -> [db EXCEPT !.columns = @ \union {s.on}]
    [] s.do = "version" -> [db EXCEPT !.version = s.on]
    [] OTHER -> db

\* An index needs its column.
Possible(s) == s.do = "index" => s.on \in db.columns

Execute(p) ==
  LET s == Statements[step[p]] IN
  /\ step[p] \in 1..(Last - 1)
  /\ Possible(s)
  /\ db' = Done(s)
  /\ step' = [step EXCEPT ![p] = IF s.do = "check" /\ db.version >= s.on
                                 THEN @ + 1 + s.over ELSE @ + 1]
  /\ UNCHANGED <<unhashed, opened, ignored>>

\* Open returns the error; what was executed stays.
Refuse(p) ==
  /\ step[p] \in 1..(Last - 1)
  /\ ~Possible(Statements[step[p]])
  /\ step' = [step EXCEPT ![p] = 0]
  /\ opened' = [opened EXCEPT ![p] = "refused"]
  /\ UNCHANGED <<db, unhashed, ignored>>

\* The ALTER of version 3 is the one statement whose error, a lock included,
\* is ignored: the version is set all the same.
IgnoreError(p) ==
  /\ step[p] \in 1..(Last - 1) /\ Statements[step[p]] = AddColumn("token_hash")
  /\ step' = [step EXCEPT ![p] = @ + 1]
  /\ ignored' = TRUE
  /\ UNCHANGED <<db, unhashed, opened>>

\* Each task's failures get the hash of its goal; then the store is open.
BackfillTask(p) ==
  /\ step[p] = Last
  /\ \E t \in unhashed : unhashed' = unhashed \ {t}
  /\ UNCHANGED <<db, step, opened, ignored>>

FinishOpen(p) ==
  /\ step[p] = Last /\ unhashed = {}
  /\ step' = [step EXCEPT ![p] = 0]
  /\ opened' = [opened EXCEPT ![p] = "ok"]
  /\ UNCHANGED <<db, unhashed, ignored>>

\* Another process holds the lock past the busy timeout, or this one dies.
StopOpening(p) ==
  /\ step[p] > 0
  /\ step' = [step EXCEPT ![p] = 0]
  /\ opened' = [opened EXCEPT ![p] = "locked"]
  /\ UNCHANGED <<db, unhashed, ignored>>

MigrationNext ==
  \/ FindFile
  \/ \E p \in Openers :
       \/ StartOpen(p) \/ Execute(p) \/ Refuse(p) \/ IgnoreError(p) \/ BackfillTask(p)
       \/ FinishOpen(p) \/ StopOpening(p)

MigrationSpec == MigrationInit /\ [][MigrationNext]_migrationVars

-----------------------------------------------------------------------------
(* Properties. *)

\* The file is current, but for a column whose ALTER failed unnoticed.
Current(columns) ==
  columns = AllColumns \/ (ignored /\ columns = AllColumns \ {"token_hash"})

\* A store that opened has the current layout, whoever else was upgrading the
\* file and wherever an earlier upgrade died; only the column of version 3,
\* which nothing reads, may be missing.  Meanwhile the version never promises
\* more than the file holds, so that the next open finishes what a crash left
\* undone (store.rs:308-451).
LayoutIsHonest ==
  /\ (\E p \in Openers : opened[p] = "ok") =>
       db.tables = Tables /\ Current(db.columns) /\ db.indexes = Indexes /\ unhashed = {}
  /\ db.version >= 1 => Tables \ {"bandit_state"} \subseteq db.tables
  /\ db.version >= 1 => AllColumns \ {"token_hash"} \subseteq db.columns
  /\ db.version >= 2 => "bandit_state" \in db.tables
  /\ db.version >= 3 => Current(db.columns)

\* "Migration for pre-goal_hash databases" (store.rs:316-318): no file of an
\* earlier build is refused.
EveryLayoutOpens == \A p \in Openers : opened[p] # "refused"
=============================================================================
