---------------------------- MODULE SpendLedger ----------------------------
(***************************************************************************)
(* What runs cost, and who is told (src/src/store.rs and the spend guard   *)
(* and the booking of Engine::run, src/src/engine.rs): concurrent runs     *)
(* pass the guard, pay providers leg by leg, and book attempts and one     *)
(* execution; startup prunes; the guard and the reports read the tables.   *)
(*                                                                         *)
(* Money and time are small numbers.  A provider is named by what the      *)
(* reports tell apart: "live", "mock" (free), "cache", or "" for a run     *)
(* that failed.  MaxClock, MaxRows and MaxLegs bound the exploration.        *)
(***************************************************************************)
EXTENDS Integers, Sequences, FiniteSets, Functions

CONSTANTS
  Spenders,       \* concurrent Engine::run calls
  Routes,
  MaxPrice,       \* most a call of a live provider costs
  DailyLimit,     \* security.daily_spend_limit_usd; 0 disables
  MonthlyLimit,   \* security.monthly_spend_limit_usd; 0 disables
  DayLength, MonthLength,  \* the windows of the two guards
  RetentionTime,  \* security.retention_days; 0 keeps rows for ever
  DaysShown,      \* LIMIT of get_daily_spend
  MaxClock, MaxRows, MaxLegs

ASSUME SpendAssumption ==
  /\ IsFiniteSet(Spenders) /\ IsFiniteSet(Routes)
  /\ MaxPrice \in Nat /\ DailyLimit \in Nat /\ MonthlyLimit \in Nat
  /\ DayLength \in Nat /\ MonthLength \in Nat /\ DayLength <= MonthLength
  /\ RetentionTime \in Nat /\ DaysShown \in Nat \ {0}
  /\ MaxClock \in Nat /\ MaxRows \in Nat /\ MaxLegs \in Nat

VARIABLES
  clock,
  executions,  \* table executions: the rows that are kept, by their id
  stage,       \* where each run is
  bill,        \* res.provider, res.cost_usd and res.success of each run
  legs,        \* providers each run has called
  \* For the properties only.
  booked       \* every execution row ever written; its place here is its id

spendVars == <<clock, executions, stage, bill, legs, booked>>

Times == 0..MaxClock
Execution == [at : Times, route : Routes, provider : {"live", "mock", "cache", ""},
              cost : 0..MaxPrice, success : BOOLEAN]
Bills == [provider : {"live", "mock", "cache", ""}, cost : 0..MaxPrice, success : BOOLEAN]
NoBill == [provider |-> "", cost |-> 0, success |-> FALSE]
SpendStages == {"idle", "daily", "monthly", "ladder", "book", "refused"}

SpendTypeOK ==
  /\ clock \in Times
  /\ DOMAIN executions \subseteq DOMAIN booked
  /\ executions \in [DOMAIN executions -> Execution]
  /\ stage \in [Spenders -> SpendStages]
  /\ bill \in [Spenders -> Bills]
  /\ legs \in [Spenders -> 0..MaxLegs]
  /\ booked \in Seq(Execution)

SpendInit ==
  /\ clock = 0
  /\ executions = <<>>
  /\ stage = [r \in Spenders |-> "idle"]
  /\ bill = [r \in Spenders |-> NoBill]
  /\ legs = [r \in Spenders |-> 0]
  /\ booked = <<>>

-----------------------------------------------------------------------------
(* Queries. *)

Rows(table, Test(_)) == {id \in DOMAIN table : Test(table[id])}
RowsSince(table, t) == Rows(table, LAMBDA row : row.at >= t)
TotalCost(table, ids) == SumFunctionOnSet([id \in ids |-> table[id].cost], ids)

AggregateSpend(window) == TotalCost(executions, RowsSince(executions, clock - window))

\* The headline, without the mock provider.
NotMock(row) == row.provider # "mock"
Report(ids) ==
  [runs |-> Cardinality(ids), cost |-> TotalCost(executions, ids),
   successes |-> Cardinality({id \in ids : executions[id].success})]
Summary == Report(Rows(executions, NotMock))

\* Mutant: the mock provider counts as a route's run.
StatsByRouteAll(route) == Report(Rows(executions, LAMBDA row : row.route = route))

StatsByRoute(route) ==
  Report(Rows(executions, LAMBDA row : row.route = route /\ NotMock(row)))

\* With the mock provider, and with failed runs and cache hits as providers of
\* their own.
StatsByProvider(provider) == Report(Rows(executions, LAMBDA row : row.provider = provider))

\* The oldest DaysShown days that have rows.
Day(t) == t \div (IF DayLength = 0 THEN 1 ELSE DayLength)
SpendDays == {Day(executions[id].at) : id \in Rows(executions, NotMock)}
DailySpend ==
  [d \in {e \in SpendDays : Cardinality({f \in SpendDays : f < e}) < DaysShown} |->
     TotalCost(executions, Rows(executions, LAMBDA row : NotMock(row) /\ Day(row.at) = d))]

-----------------------------------------------------------------------------
(* A run. *)

To(r, place) == stage' = [stage EXCEPT ![r] = place]
StartRun(r) ==
  /\ stage[r] \in {"idle", "refused"}
  /\ Len(booked) + Cardinality({q \in Spenders : stage[q] \notin {"idle", "refused"}}) < MaxRows
  /\ To(r, "daily")
  /\ UNCHANGED <<clock, executions, bill, legs, booked>>

\* Mutant: a run is refused only above the limit.
CheckDailyAbove(r) ==
  /\ stage[r] = "daily"
  /\ To(r, IF DailyLimit > 0 /\ AggregateSpend(DayLength) > DailyLimit
           THEN "refused" ELSE "monthly")
  /\ UNCHANGED <<clock, executions, bill, legs, booked>>

CheckDaily(r) ==
  /\ stage[r] = "daily"
  /\ To(r, IF DailyLimit > 0 /\ AggregateSpend(DayLength) >= DailyLimit
           THEN "refused" ELSE "monthly")
  /\ UNCHANGED <<clock, executions, bill, legs, booked>>

CheckMonthly(r) ==
  /\ stage[r] = "monthly"
  /\ To(r, IF MonthlyLimit > 0 /\ AggregateSpend(MonthLength) >= MonthlyLimit
           THEN "refused" ELSE "ladder")
  /\ UNCHANGED <<clock, executions, bill, legs, booked>>

\* A cached answer, or one that needs no provider.
AnswerLocally(r) ==
  /\ stage[r] = "ladder" /\ legs[r] = 0
  /\ bill' = [bill EXCEPT ![r] = [provider |-> "cache", cost |-> 0, success |-> TRUE]]
  /\ To(r, "book")
  /\ UNCHANGED <<clock, executions, legs, booked>>

Leg(r) == stage[r] = "ladder" /\ legs[r] < MaxLegs /\ legs' = [legs EXCEPT ![r] = @ + 1]

\* A leg that does not end the run: an error is free; an answer that is
\* rejected, cascaded or re-asked, or a call of the LLM verifier, is paid.  It
\* may leave an attempt row (Engine has those), never an execution row.
FailedLeg(r) ==
  /\ Leg(r)
  /\ UNCHANGED <<clock, executions, stage, bill, booked>>

AcceptedLeg(r) ==
  /\ Leg(r)
  /\ \E provider \in {"live", "mock"} :
     \E cost \in IF provider = "mock" THEN {0} ELSE 0..MaxPrice :
       bill' = [bill EXCEPT ![r] = [provider |-> provider, cost |-> cost, success |-> TRUE]]
  /\ To(r, "book")
  /\ UNCHANGED <<clock, executions, booked>>

\* A failed run keeps cost 0 and no provider, whatever its legs cost.
GiveUp(r) ==
  /\ stage[r] = "ladder"
  /\ To(r, "book")
  /\ UNCHANGED <<clock, executions, bill, legs, booked>>

BookExecution(r) ==
  /\ stage[r] = "book"
  /\ \E route \in Routes :
       LET row == [at |-> clock, route |-> route, provider |-> bill[r].provider,
                   cost |-> bill[r].cost, success |-> bill[r].success] IN
       /\ booked' = Append(booked, row)
       /\ executions' = [id \in DOMAIN executions \union {Len(booked) + 1} |->
                           IF id \in DOMAIN executions THEN executions[id] ELSE row]
  /\ To(r, "idle")
  /\ bill' = [bill EXCEPT ![r] = NoBill]
  /\ legs' = [legs EXCEPT ![r] = 0]
  /\ UNCHANGED clock

-----------------------------------------------------------------------------
(* Time, and the process. *)

SpendTick ==
  /\ clock < MaxClock
  /\ clock' = clock + 1
  /\ UNCHANGED <<executions, stage, bill, legs, booked>>

\* A restart loses the runs and what they have not booked; Engine::new prunes
\* what is older than the retention window.
PruneRecords ==
  /\ RetentionTime > 0
  /\ executions' = Restrict(executions, RowsSince(executions, clock - RetentionTime))
  /\ stage' = [r \in Spenders |-> "idle"]
  /\ bill' = [r \in Spenders |-> NoBill]
  /\ legs' = [r \in Spenders |-> 0]
  /\ UNCHANGED <<clock, booked>>

SpendNext ==
  \/ \E r \in Spenders :
       \/ StartRun(r) \/ CheckDaily(r) \/ CheckMonthly(r) \/ AnswerLocally(r)
       \/ FailedLeg(r) \/ AcceptedLeg(r) \/ GiveUp(r) \/ BookExecution(r)
  \/ SpendTick \/ PruneRecords

SpendSpec == SpendInit /\ [][SpendNext]_spendVars

-----------------------------------------------------------------------------
(* Properties. *)

\* The guard is read once, before the run: concurrent runs pass it together.
\* What is booked in a window still stays below the limit plus one accepted
\* answer per concurrent run, and the window is the whole truth: pruning at
\* startup never takes a row that a guard has to sum, as long as rows are kept
\* for a month (engine.rs:171-179, 453-476, store.rs:1317-1327, 1493-1533).
SpendGuardHolds ==
  /\ DailyLimit > 0 =>
       AggregateSpend(DayLength) < DailyLimit + Cardinality(Spenders) * MaxPrice
  /\ (RetentionTime = 0 \/ RetentionTime >= MonthLength) =>
       \A window \in {DayLength, MonthLength} :
         AggregateSpend(window) = TotalCost(booked, RowsSince(booked, clock - window))

\* The reports tell one story: routes add up to the headline, providers to the
\* headline and the mock runs, and no day shows more than was spent
\* (store.rs:1537-1625, 1728-1760).
ReportsAgree ==
  /\ Summary.runs = SumFunction([x \in Routes |-> StatsByRoute(x).runs])
  /\ Summary.successes = SumFunction([x \in Routes |-> StatsByRoute(x).successes])
  /\ Summary.cost = SumFunction([x \in Routes |-> StatsByRoute(x).cost])
  /\ Summary.runs = SumFunction([p \in {"live", "cache", ""} |-> StatsByProvider(p).runs])
  /\ Summary.runs + StatsByProvider("mock").runs = Cardinality(DOMAIN executions)
  /\ SumFunction(DailySpend) <= Summary.cost
=============================================================================
