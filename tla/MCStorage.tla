------------------------------ MODULE MCStorage ------------------------------
(***************************************************************************)
(* Finite instances of the components that keep something in the database  *)
(* or on disk, for TLC.  They share no variable, so one run checks them    *)
(* side by side: its states are those of each in turn, not their product.  *)
(***************************************************************************)
EXTENDS SolutionCache, SpendLedger, Migration, Recorder, ContextIndex, TLC

VARIABLE part

storageVars == <<part, cacheVars, spendVars, migrationVars, recorderVars, indexVars>>

Parts == {"cache", "spend", "migration", "recorder", "index"}

\* Three goals, each a word longer than the one before: the last is more alike
\* to the second (75%) than to the first (50%).
MCGoals == {{"fix", "login"}, {"fix", "login", "page"}, {"fix", "login", "page", "now"}}

\* Files that earlier builds left: before the bandit's table and the token
\* hash, before the tiers of the cache, and before goals were hashed.
Version1 == [tables |-> Tables \ {"bandit_state"}, columns |-> AllColumns \ {"token_hash"},
             indexes |-> Indexes, version |-> 1]
NoTiers == [tables |-> {"failure_memory", "executions", "solution_cache"},
            columns |-> {"goal_hash"}, indexes |-> {"goal_hash"}, version |-> 0]
PreGoalHash == [tables |-> {"failure_memory", "executions"}, columns |-> {}, indexes |-> {},
                version |-> 0]
MCLayouts == {Version1, NoTiers, PreGoalHash}

Init ==
  /\ part \in Parts
  /\ CacheInit /\ SpendInit /\ MigrationInit /\ RecorderInit /\ ContextInit

Next ==
  /\ UNCHANGED part
  /\ \/ part = "cache" /\ CacheNext
     \/ part = "spend" /\ SpendNext
     \/ part = "migration" /\ MigrationNext
     \/ part = "recorder" /\ RecorderNext
     \/ part = "index" /\ ContextNext
  /\ IF part = "cache" THEN TRUE ELSE UNCHANGED cacheVars
  /\ IF part = "spend" THEN TRUE ELSE UNCHANGED spendVars
  /\ IF part = "migration" THEN TRUE ELSE UNCHANGED migrationVars
  /\ IF part = "recorder" THEN TRUE ELSE UNCHANGED recorderVars
  /\ IF part = "index" THEN TRUE ELSE UNCHANGED indexVars

Spec == Init /\ [][Next]_storageVars

\* The configuration gives every component the same two actors and the same
\* two data, each interchangeable.
Symmetry == Permutations(Asks) \union Permutations(Routes)

\* The variables of every component keep their types: in particular the index
\* never holds a text that cannot be read as one, and no table a row of another shape.
StorageTypeOK ==
  CacheTypeOK /\ SpendTypeOK /\ MigrationTypeOK /\ RecorderTypeOK /\ ContextTypeOK
=============================================================================
