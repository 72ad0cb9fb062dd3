---------------------------- MODULE MCMigration ----------------------------
(* The file of a build that did not hash goals, for TLC. *)
EXTENDS Migration, TLC

PreGoalHash == [tables |-> {"failure_memory", "executions"}, columns |-> {}, indexes |-> {},
                version |-> 0]
MCLayouts == {PreGoalHash}
=============================================================================
