------------------------------ MODULE Workbench ------------------------------
(***************************************************************************)
(* What is computed from the router without running anything: the          *)
(* evaluation of a labelled dataset and its sweep over ask thresholds, on  *)
(* the desktop and on the command line, and the A/B comparison of two      *)
(* policies over the tasks in the store (src/src/nativeapp.rs, main.rs).   *)
(* No run of the engine ends meanwhile.                                    *)
(*                                                                         *)
(* The desktop trims the tasks and the constraints of a dataset and drops  *)
(* the constraints that are blank; the command line takes them as written, *)
(* so that the same item may have more tokens there and, a blank           *)
(* constraint being part of the key, another answer in the cache.          *)
(*                                                                         *)
(* Costs are whole numbers, in hundredths of a cent.  Latencies are summed *)
(* and averaged like costs and are left out.                               *)
(***************************************************************************)
EXTENDS Router, Sequences, FiniteSets, FiniteSetsExt

CONSTANTS
  Samples,     \* tasks: [task, tokens, past], past the route of a similar success
  Expected,    \* expected_route of an item; "" is refused by the desktop
  States,      \* what the engine may know of a goal
  Writings,    \* how an item is written: [padding, solved], the tokens that
               \* trimming saves and whether the cache answers it as written
  Executions,  \* routes and costs of the executions booked
  Thresholds,  \* the steps of the sweep
  Rivals,      \* policies compared with Policy
  MaxItems, NoRun, NoReport

ASSUME WorkbenchAssumption ==
  /\ Samples \subseteq [task : Task, tokens : Nat, past : Routes \union {NoRoute}]
  /\ Writings \subseteq [padding : Nat, solved : BOOLEAN]
  /\ States \subseteq Known /\ Executions \subseteq [route : Routes, cost : Nat]
  /\ Thresholds \subseteq 0..100 /\ Thresholds # {}
  /\ Rivals \subseteq RouterPolicy /\ MaxItems \in Nat

VARIABLES
  items,      \* the dataset, and the tasks of the store
  panel,      \* "load", "sweep", "desktop", "cli", "compare" or "shown"
  sweep,      \* per threshold done: [correct, cost]
  desktop,    \* EvalReport, or NoReport
  cli,        \* what run_eval prints
  comparison  \* ABReport: the totals, the differing routes, the distributions

benchVars == <<items, panel, sweep, desktop, cli, comparison>>

Item == [sample : Samples, expected : Expected, known : States, written : Writings,
         ran : Executions \union {NoRun}]

Rows == DOMAIN items

\* The route of an item, trimmed.
Shown(p, i) == Preview(p, items[i].sample.task, items[i].sample.tokens, items[i].known,
                       items[i].sample.past)

\* And as it is written.
Printed(p, i) ==
  Preview(p, items[i].sample.task, items[i].sample.tokens + items[i].written.padding,
          [items[i].known EXCEPT !.solved = items[i].written.solved], items[i].sample.past)

OnDesktop(p) == [i \in Rows |-> Shown(p, i)]
OnCli(p) == [i \in Rows |-> Printed(p, i)]

\* Trimming changes nothing, neither the estimate nor what the cache answers.
Tidy(i) == items[i].written = [padding |-> 0, solved |-> items[i].known.solved]

BenchInit ==
  /\ items = <<>> /\ panel = "load"
  /\ sweep = <<>> /\ desktop = NoReport /\ cli = NoReport /\ comparison = NoReport

\* parse_eval_items refuses a dataset with an item that expects nothing.
LoadDataset ==
  /\ panel = "load"
  /\ items' \in UNION {[1..n -> Item] : n \in 1..MaxItems}
  /\ panel' = IF \E i \in DOMAIN items' : items'[i].expected = "" THEN "cli" ELSE "sweep"
  /\ UNCHANGED <<sweep, desktop, cli, comparison>>

-----------------------------------------------------------------------------
(* evaluate_items, run_eval. *)

Correct(routes) == Cardinality({i \in Rows : routes[i] = items[i].expected})
RouterCost(routes) == SumFunctionOnSet([i \in Rows |-> Cost(routes[i])], Rows)

Count(r) == Cardinality({i \in Rows : items[i].expected = r})

\* The weak baseline always predicts the most frequent of the expected routes:
\* which one, when there are several, is up to the order of a hash map.
MostFrequent == {r \in Expected : \A s \in Expected : Count(s) <= Count(r)}

\* The gap that was closed between the baseline and a perfect router.
Apgr(correct, weak) ==
  IF weak = Len(items) THEN <<1, 1>>
  ELSE <<IF correct > weak THEN correct - weak ELSE 0, Len(items) - weak>>

Report(routes, weak) ==
  [correct |-> Correct(routes), cost |-> RouterCost(routes), weak |-> weak,
   apgr |-> Apgr(Correct(routes), weak)]

WithThreshold(p, t) == [p EXCEPT !.ask = t]

SweepRow ==
  /\ panel = "sweep"
  /\ LET todo == {t \in Thresholds : \A n \in DOMAIN sweep : sweep[n].threshold < t}
         t == Min(todo)
         routes == OnDesktop(WithThreshold(Policy, t))
     IN /\ sweep' = Append(sweep, [threshold |-> t, correct |-> Correct(routes),
                                   cost |-> RouterCost(routes)])
        /\ panel' = IF todo = {t} THEN "desktop" ELSE panel
  /\ UNCHANGED <<items, desktop, cli, comparison>>

\* Mutant: the sweep leaves its last threshold in the policy.
AfterSweep == WithThreshold(Policy, sweep[Len(sweep)].threshold)

\* The sweep works on copies of the configured policy.
Configured == Policy

EvaluateOnDesktop ==
  /\ panel = "desktop"
  /\ \E r \in MostFrequent : desktop' = Report(OnDesktop(Configured), Count(r))
  /\ panel' = "cli"
  /\ UNCHANGED <<items, sweep, cli, comparison>>

EvaluateOnCli ==
  /\ panel = "cli"
  /\ \E r \in MostFrequent : cli' = Report(OnCli(Policy), Count(r))
  /\ panel' = "compare"
  /\ UNCHANGED <<items, sweep, desktop, comparison>>

-----------------------------------------------------------------------------
(* execute_ab_simulation. *)

RanOn(r) == {i \in Rows : items[i].ran # NoRun /\ items[i].ran.route = r}

Booked(ran) == SumFunctionOnSet([i \in ran |-> items[i].ran.cost], ran)

\* What an execution on the route has cost on average, or what one should cost.
AverageCost(r) ==
  IF RanOn(r) = {} THEN Cost(r)
  ELSE Booked(RanOn(r)) \div Cardinality(RanOn(r))

\* What a task would cost on a route is what it did cost, if it ran on that one.
CostOn(r, i) == IF i \in RanOn(r) THEN items[i].ran.cost ELSE AverageCost(r)

TotalCostOf(p) == SumFunctionOnSet([i \in Rows |-> CostOn(Shown(p, i), i)], Rows)
Distribution(p) == [r \in Routes |-> Cardinality({i \in Rows : Shown(p, i) = r})]

Compare ==
  /\ panel = "compare"
  /\ \E rival \in Rivals :
       comparison' = [a |-> TotalCostOf(Policy), b |-> TotalCostOf(rival),
                      different |-> Cardinality({i \in Rows : Shown(Policy, i) # Shown(rival, i)}),
                      routesA |-> Distribution(Policy), routesB |-> Distribution(rival)]
  /\ panel' = "shown"
  /\ UNCHANGED <<items, sweep, desktop, cli>>

BenchNext ==
  LoadDataset \/ SweepRow \/ EvaluateOnDesktop \/ EvaluateOnCli \/ Compare

BenchSpec == BenchInit /\ [][BenchNext]_benchVars

-----------------------------------------------------------------------------
(* Properties. *)

\* The panels tell one story: on the desktop a higher ask threshold never raises
\* the cost of routing, and the report at the policy's own threshold lies between
\* the rows of the sweep around it; the command line has the same baseline,
\* whichever of equally frequent routes either settles on, and the same report
\* where trimming changes nothing; policies that route alike cost alike, and a
\* policy that routes every task as it was routed costs what its executions were
\* booked at (nativeapp.rs:1424-1595, 2500-2636, main.rs:754-922).
PanelsAgree ==
  panel = "shown" =>
    /\ \A m, n \in DOMAIN sweep : m <= n => sweep[n].cost <= sweep[m].cost
    /\ desktop # NoReport =>
         /\ \A n \in DOMAIN sweep :
              /\ sweep[n].threshold >= Policy.ask => sweep[n].cost <= desktop.cost
              /\ sweep[n].threshold <= Policy.ask => desktop.cost <= sweep[n].cost
         /\ desktop.weak = cli.weak
         /\ (\A i \in Rows : Tidy(i)) => desktop = cli
    /\ comparison.different = 0 =>
         comparison.a = comparison.b /\ comparison.routesA = comparison.routesB
    /\ (\A i \in Rows : items[i].ran # NoRun /\ Shown(Policy, i) = items[i].ran.route) =>
         comparison.a = Booked(Rows)
=============================================================================
