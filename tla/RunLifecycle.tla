---------------------------- MODULE RunLifecycle ----------------------------
(***************************************************************************)
(* What a caller of Engine::run, and a reader of the tasks and executions  *)
(* tables, may rely on: a task goes from Routed to one terminal status,    *)
(* through InProgress when providers are involved, and never leaves it;    *)
(* a run returns only then, after its execution row, and returns an error  *)
(* exactly when the task Failed.  Only a refused start, a restart of the   *)
(* process, a configuration without an enabled provider and, where writes  *)
(* can be refused, a lost write fall short.                                *)
(***************************************************************************)
CONSTANTS
  Runs,
  Lossy,     \* whether writes can be refused
  Unserved   \* whether a configuration may enable no provider

VARIABLES
  status,     \* of each run's current task
  execution,  \* the success column of its execution row
  phase       \* "idle", "running", or what the run returned

vars == <<status, execution, phase>>

Init ==
  /\ status = [r \in Runs |-> "none"]
  /\ execution = [r \in Runs |-> "none"]
  /\ phase = [r \in Runs |-> "idle"]

\* A new task, or a request that is refused before there is one.
Start(r) ==
  /\ phase[r] # "running"
  /\ status' = [status EXCEPT ![r] = "none"]
  /\ execution' = [execution EXCEPT ![r] = "none"]
  /\ \E p \in {"running", "err"} : phase' = [phase EXCEPT ![r] = p]

\* What may follow a status, and what the execution row says of it.
Follows == {<<"none", "Routed">>, <<"Routed", "InProgress">>, <<"Routed", "Blocked">>,
            <<"Routed", "Escalated">>, <<"Routed", "Done">>,
            <<"InProgress", "Done">>, <<"InProgress", "Failed">>}
Rows == {<<"Done", "success">>, <<"Escalated", "success">>, <<"Failed", "failure">>,
         <<"Blocked", "success">>, <<"Blocked", "failure">>}

Move(r) ==
  /\ phase[r] = "running"
  /\ \E f \in Follows : f[1] = status[r] /\ status' = [status EXCEPT ![r] = f[2]]
  /\ UNCHANGED <<execution, phase>>

Return(r) ==
  /\ phase[r] = "running"
  /\ \E row \in Rows :
       /\ row[1] = status[r]
       /\ \/ execution' = [execution EXCEPT ![r] = row[2]]
          \/ Lossy /\ UNCHANGED execution
  /\ phase' = [phase EXCEPT ![r] = IF status[r] = "Failed" THEN "err" ELSE "ok"]
  /\ UNCHANGED status

GiveUp(r) ==
  /\ Lossy
  /\ phase[r] = "running"
  /\ phase' = [phase EXCEPT ![r] = "err"]
  /\ UNCHANGED <<status, execution>>

\* A task that needs a provider, and there is none.
Unserve(r) ==
  /\ Unserved
  /\ phase[r] = "running"
  /\ status[r] = "Routed"
  /\ phase' = [phase EXCEPT ![r] = "err"]
  /\ UNCHANGED <<status, execution>>

\* Execution rows may also have outlived their retention.
Crash ==
  /\ phase' = [r \in Runs |-> "idle"]
  /\ \E old \in SUBSET Runs :
       execution' = [r \in Runs |-> IF r \in old THEN "none" ELSE execution[r]]
  /\ UNCHANGED status

Next ==
  \/ \E r \in Runs : Start(r) \/ Move(r) \/ Return(r) \/ GiveUp(r) \/ Unserve(r)
  \/ Crash

Spec == Init /\ [][Next]_vars
=============================================================================
