------------------------------- MODULE Bandit -------------------------------
(***************************************************************************)
(* The bandit's evidence (src/src/pricing.rs, Ucb1Router): runs of one     *)
(* process add outcomes to the atomics of an arm, one atomic after the     *)
(* other and without a lock, read them back one after the other, save the  *)
(* sums (src/src/store.rs) and lose whatever was not saved in a crash; a   *)
(* new process starts from the saved sums or, where there are none, from   *)
(* the attempt rows (Engine::new).                                         *)
(*                                                                         *)
(* Rows and outcomes do not match one to one (Engine::execute): a success  *)
(* writes its row before it is recorded, a failure after; a rejected       *)
(* answer that loops writes a second row; an answer below the cascade      *)
(* threshold writes a row and is not recorded.                             *)
(*                                                                         *)
(* A success is worth 1: the decay of the reward with latency is left out. *)
(* The latency sum is updated and saved like the reward and is left out,   *)
(* and so are the final executions, read where there is no attempt row.    *)
(***************************************************************************)
EXTENDS Integers, FiniteSets, Functions

CONSTANTS
  Callers,  \* concurrent runs
  Arms,     \* configured providers
  NoArm,
  MaxCalls, \* bound on the recorded calls, and on the rows beyond them
  MaxStarts \* bound on restarts

ASSUME BanditAssumption ==
  /\ IsFiniteSet(Callers) /\ IsFiniteSet(Arms) /\ NoArm \notin Arms
  /\ MaxCalls \in Nat /\ MaxStarts \in Nat

VARIABLES
  pulls, reward,  \* the atomics of each arm
  totalPulls,
  saved,          \* bandit_state: [pulls, reward] per arm, or NoArm
  attempts,       \* attempt rows: [pulls, reward] per arm
  caller,         \* where each run is
  arm,            \* the arm it has called
  outcome,        \* and what came of it
  loaded,         \* the value its compare-exchange expects
  sums,           \* what arm_sums has read
  starts,         \* restarts so far
  \* For the properties only.
  calls,          \* calls to be recorded, and their successes, per arm
  extra,          \* rows beyond one per such call, per arm
  borrowed        \* those of them that the evidence of the process goes back to

banditVars == <<pulls, reward, totalPulls, saved, attempts, caller, arm, outcome, loaded, sums,
                starts, calls, extra, borrowed>>
atomics == <<pulls, reward, totalPulls>>
durable == <<saved, attempts>>
evidence == <<starts, calls, extra, borrowed>>

Tally == [pulls : Nat, reward : Nat]
Nothing == [pulls |-> 0, reward |-> 0]
Outcomes == {"failed", "looped", "cascaded", "succeeded"}
CallerPlaces == {"idle", "rowFirst", "pull", "load", "exchange", "total", "readPulls", "readReward",
                 "save", "row", "rowAgain"}

BanditInit ==
  /\ pulls = [a \in Arms |-> 0] /\ reward = [a \in Arms |-> 0] /\ totalPulls = 0
  /\ saved = [a \in Arms |-> NoArm]
  /\ attempts = [a \in Arms |-> Nothing] /\ calls = [a \in Arms |-> Nothing]
  /\ extra = [a \in Arms |-> 0] /\ borrowed = [a \in Arms |-> 0]
  /\ caller = [c \in Callers |-> "idle"]
  /\ arm = [c \in Callers |-> NoArm] /\ outcome = [c \in Callers |-> "failed"]
  /\ loaded = [c \in Callers |-> 0] /\ sums = [c \in Callers |-> Nothing]
  /\ starts = 0

-----------------------------------------------------------------------------
(* record. *)

\* What the outcome adds to the reward of its arm.
Worth(c) == IF outcome[c] = "succeeded" THEN 1 ELSE 0
Plus(tally, w) == [pulls |-> tally.pulls + 1, reward |-> tally.reward + w]

\* The run moves on, and forgets the call when it is done with it.
CallerTo(c, place) ==
  /\ caller' = [caller EXCEPT ![c] = place]
  /\ IF place = "idle"
     THEN arm' = [arm EXCEPT ![c] = NoArm] /\ outcome' = [outcome EXCEPT ![c] = "failed"]
     ELSE UNCHANGED <<arm, outcome>>

\* A provider has failed or answered, and the answer was rejected, found too weak
\* or accepted.
CallReturns(c) ==
  /\ caller[c] = "idle"
  /\ SumFunctionOnSet([a \in Arms |-> calls[a].pulls], Arms) < MaxCalls
  /\ SumFunctionOnSet(extra, Arms) < MaxCalls
  /\ \E a \in Arms, o \in Outcomes :
       /\ arm' = [arm EXCEPT ![c] = a]
       /\ outcome' = [outcome EXCEPT ![c] = o]
       /\ calls' = IF o = "cascaded" THEN calls
                   ELSE [calls EXCEPT ![a] = Plus(@, IF o = "succeeded" THEN 1 ELSE 0)]
       /\ caller' = [caller EXCEPT ![c] = CASE o = "succeeded" -> "rowFirst"
                                            [] o = "cascaded" -> "row"
                                            [] OTHER -> "pull"]
  /\ UNCHANGED <<atomics, durable, loaded, sums, starts, extra, borrowed>>

AddPull(c) ==
  /\ caller[c] = "pull"
  /\ pulls' = [pulls EXCEPT ![arm[c]] = @ + 1]
  /\ CallerTo(c, "load")
  /\ UNCHANGED <<reward, totalPulls, durable, loaded, sums, evidence>>

\* AtomicF64::fetch_add.
LoadReward(c) ==
  /\ caller[c] = "load"
  /\ loaded' = [loaded EXCEPT ![c] = reward[arm[c]]]
  /\ CallerTo(c, "exchange")
  /\ UNCHANGED <<atomics, durable, sums, evidence>>

\* Mutant: the sum is stored whatever has happened since it was loaded.
StoreReward(c) ==
  /\ caller[c] = "exchange"
  /\ reward' = [reward EXCEPT ![arm[c]] = loaded[c] + Worth(c)]
  /\ CallerTo(c, "total")
  /\ loaded' = [loaded EXCEPT ![c] = 0]
  /\ UNCHANGED <<pulls, totalPulls, durable, sums, evidence>>

\* The exchange fails when the sum has changed, and the sum is loaded again.
ExchangeReward(c) ==
  /\ caller[c] = "exchange"
  /\ IF reward[arm[c]] = loaded[c]
     THEN /\ reward' = [reward EXCEPT ![arm[c]] = loaded[c] + Worth(c)]
          /\ loaded' = [loaded EXCEPT ![c] = 0]
          /\ CallerTo(c, "total")
     ELSE loaded' = [loaded EXCEPT ![c] = reward[arm[c]]] /\ UNCHANGED <<reward, caller, arm, outcome>>
  /\ UNCHANGED <<pulls, totalPulls, durable, sums, evidence>>

AddTotal(c) ==
  /\ caller[c] = "total"
  /\ totalPulls' = totalPulls + 1
  /\ CallerTo(c, "readPulls")
  /\ UNCHANGED <<pulls, reward, durable, loaded, sums, evidence>>

-----------------------------------------------------------------------------
(* arm_sums, save_bandit_state, record_attempt. *)

ReadPulls(c) ==
  /\ caller[c] = "readPulls"
  /\ sums' = [sums EXCEPT ![c].pulls = pulls[arm[c]]]
  /\ CallerTo(c, "readReward")
  /\ UNCHANGED <<atomics, durable, loaded, evidence>>

ReadReward(c) ==
  /\ caller[c] = "readReward"
  /\ sums' = [sums EXCEPT ![c].reward = reward[arm[c]]]
  /\ CallerTo(c, "save")
  /\ UNCHANGED <<atomics, durable, loaded, evidence>>

AfterSave(c) == IF outcome[c] = "succeeded" THEN "idle" ELSE "row"

SaveSums(c) ==
  /\ caller[c] = "save"
  /\ saved' = [saved EXCEPT ![arm[c]] = sums[c]]
  /\ sums' = [sums EXCEPT ![c] = Nothing]
  /\ CallerTo(c, AfterSave(c))
  /\ UNCHANGED <<atomics, attempts, loaded, evidence>>

\* save_bandit_state fails: the run only warns.
SaveSumsFails(c) ==
  /\ caller[c] = "save"
  /\ sums' = [sums EXCEPT ![c] = Nothing]
  /\ CallerTo(c, AfterSave(c))
  /\ UNCHANGED <<atomics, durable, loaded, evidence>>

AfterRow(c) ==
  CASE caller[c] = "rowFirst" -> "pull"
    [] caller[c] = "row" /\ outcome[c] = "looped" -> "rowAgain"
    [] OTHER -> "idle"

\* The second row of a loop, and the row of an answer that is not recorded.
IsExtra(c) == caller[c] = "rowAgain" \/ outcome[c] = "cascaded"

RowAttempt(c) ==
  /\ caller[c] \in {"rowFirst", "row", "rowAgain"}
  /\ attempts' = [attempts EXCEPT ![arm[c]] = Plus(@, Worth(c))]
  /\ extra' = IF IsExtra(c) THEN [extra EXCEPT ![arm[c]] = @ + 1] ELSE extra
  /\ CallerTo(c, AfterRow(c))
  /\ UNCHANGED <<atomics, saved, loaded, sums, starts, calls, borrowed>>

\* record_attempt fails: the run only warns.
RowAttemptFails(c) ==
  /\ caller[c] \in {"rowFirst", "row", "rowAgain"}
  /\ CallerTo(c, AfterRow(c))
  /\ UNCHANGED <<atomics, durable, loaded, sums, evidence>>

-----------------------------------------------------------------------------
(* A crash, and Engine::new in the process that follows. *)

StartFrom(tallies) ==
  /\ pulls' = [a \in Arms |-> tallies[a].pulls]
  /\ reward' = [a \in Arms |-> tallies[a].reward]
  /\ totalPulls' = SumFunctionOnSet(pulls', Arms)

\* One saved arm is enough for the attempt rows of all to be passed over.
StartFromSaved ==
  /\ \E a \in Arms : saved[a] # NoArm
  /\ StartFrom([a \in Arms |-> IF saved[a] # NoArm THEN saved[a] ELSE Nothing])
  /\ UNCHANGED borrowed

\* No arm is saved, or load_bandit_states fails.
StartFromRows ==
  /\ StartFrom(attempts)
  /\ borrowed' = extra

Restart ==
  /\ starts < MaxStarts
  /\ starts' = starts + 1
  /\ StartFromSaved \/ StartFromRows
  /\ caller' = [c \in Callers |-> "idle"]
  /\ arm' = [c \in Callers |-> NoArm] /\ outcome' = [c \in Callers |-> "failed"]
  /\ loaded' = [c \in Callers |-> 0] /\ sums' = [c \in Callers |-> Nothing]
  /\ UNCHANGED <<durable, calls, extra>>

BanditNext ==
  \/ \E c \in Callers :
       \/ CallReturns(c) \/ AddPull(c) \/ LoadReward(c) \/ ExchangeReward(c) \/ AddTotal(c)
       \/ ReadPulls(c) \/ ReadReward(c) \/ SaveSums(c) \/ SaveSumsFails(c)
       \/ RowAttempt(c) \/ RowAttemptFails(c)
  \/ Restart

BanditSpec == BanditInit /\ [][BanditNext]_banditVars

-----------------------------------------------------------------------------
(* Properties. *)

\* Evidence is never lost in memory nor counted twice: when every call of a
\* process that never restarted has been recorded, the atomics are exact and add
\* up; and however often it restarted, from sums read between two updates,
\* overtaken by later ones or not saved at all, or from attempt rows, an arm
\* knows no success that was not recorded, and no pull beyond the recorded calls
\* and, once a process has started from rows, the second rows of loops and the
\* rows of cascades (engine.rs:180-230, 837-878, 1017-1100, pricing.rs:778-803).
EvidenceHolds ==
  /\ (starts = 0 /\ \A c \in Callers :
                       caller[c] \notin {"rowFirst", "pull", "load", "exchange", "total"}) =>
       /\ \A a \in Arms : calls[a] = [pulls |-> pulls[a], reward |-> reward[a]]
       /\ totalPulls = SumFunctionOnSet(pulls, Arms)
  /\ \A a \in Arms : pulls[a] <= calls[a].pulls + borrowed[a] /\ reward[a] <= calls[a].reward
  /\ totalPulls <= SumFunctionOnSet([a \in Arms |-> calls[a].pulls + borrowed[a]], Arms)
=============================================================================
