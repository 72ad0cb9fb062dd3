----------------------------- MODULE CallProofs -----------------------------
(***************************************************************************)
(* What a call passes through: the router and the panels computed from it, *)
(* the one slot of the desktop application, the chain of providers, their  *)
(* order and the budget, and the verdict of the adapter on the reply.      *)
(***************************************************************************)
EXTENDS Workbench, RunConsole, ProviderChain, AttemptPlan, Adapter, SetProofs, FiniteSetTheorems,
        SequenceTheorems, TLAPS

-----------------------------------------------------------------------------
(***************************************************************************)
(* The router, for any policy: what stands against a goal never opens a    *)
(* route that calls a provider.                                            *)
(***************************************************************************)

RouterInv ==
  task # NoTask =>
    /\ task \in Task /\ known \in Known
    /\ route = Decide(Policy, task, tokens, known)

LEMMA KnownParts == ASSUME NEW k \in Known PROVE k.solved \in BOOLEAN /\ k.failed \in BOOLEAN /\ k.looping \in BOOLEAN
BY DEF Known

LEMMA TaskParts ==
  ASSUME NEW t \in Task
  PROVE  /\ t.vague \in 0..3 /\ t.words \in WordBands /\ t.trivial \in BOOLEAN
         /\ t.localized \in BOOLEAN /\ t.repetitive \in BOOLEAN /\ t.external \in BOOLEAN
         /\ t.conflict \in BOOLEAN /\ t.safety \in BOOLEAN /\ t.unspecified \in BOOLEAN
BY DEF Task

\* A failure never raises the confidence, and it is a whole number of percent.
LEMMA ConfidenceFalls ==
  ASSUME NEW t \in Task, NEW k \in Known, NEW l \in Known, k.failed => l.failed
  PROVE  Confidence(t, k) \in Nat /\ Confidence(t, l) \in Nat /\ Confidence(t, l) <= Confidence(t, k)
BY KnownParts, TaskParts DEF Confidence, Less

\* No lower rung of the ladder is terminal.
LEMMA ProductiveRoutes ==
  ASSUME NEW p, NEW t, NEW n, NEW k
  PROVE  Productive(p, t, n, k) \in Routes \ Terminal
BY DEF Productive, Routes, Terminal

LEMMA TerminalStays ==
  ASSUME NEW p \in RouterPolicy, NEW t \in Task, NEW n, NEW k \in Known, NEW l \in Known,
         k.failed => l.failed, k.looping => l.looping, Decide(p, t, n, k) \in Terminal
  PROVE  Decide(p, t, n, l) \in Terminal
<1>1. p.ask \in Nat
  BY DEF RouterPolicy
<1>2. Blocked(p, t, k) => Blocked(p, t, l)
  BY <1>1, ConfidenceFalls DEF Blocked
<1>3. Decide(p, t, n, k) # Productive(p, t, n, k)
  BY ProductiveRoutes
<1> QED
  BY <1>2, <1>3 DEF Decide, Terminal

LEMMA RouterStep == ASSUME RouterInv, [RouterNext]_routerVars PROVE RouterInv'
<1>1. CASE UNCHANGED routerVars
  BY <1>1 DEF routerVars, RouterInv
<1>2. CASE Submit
  BY <1>2 DEF Submit, RouterInv
<1>3. ASSUME NEW what \in Known, Learn(what) PROVE RouterInv'
  BY <1>3 DEF Learn, RouterInv
<1>4. CASE GoalFails \/ GoalLoops \/ GoalSolved \/ AnswerLost
  <2>1. task # NoTask /\ known \in Known
    BY <1>4 DEF GoalFails, GoalLoops, GoalSolved, AnswerLost, Learn, RouterInv
  <2>2. /\ [known EXCEPT !.failed = TRUE] \in Known
        /\ [known EXCEPT !.failed = TRUE, !.looping = TRUE] \in Known
        /\ [solved |-> TRUE, failed |-> FALSE, looping |-> FALSE] \in Known
        /\ [known EXCEPT !.solved = FALSE] \in Known
    BY <2>1 DEF Known
  <2> QED
    BY <2>2, <1>3, <1>4 DEF GoalFails, GoalLoops, GoalSolved, AnswerLost
<1> QED
  BY <1>1, <1>2, <1>4 DEF RouterNext

LEMMA OnlySubmitTasks ==
  ASSUME RouterInv, [RouterNext]_routerVars, task # NoTask
  PROVE  UNCHANGED <<task, tokens>>
BY DEF RouterNext, Submit, GoalFails, GoalLoops, GoalSolved, AnswerLost, Learn, routerVars

\* A task that resolves locally still does whatever more stands against its goal,
\* for every policy (kernel.rs:363-433, 472-531).
THEOREM BadNewsBuysNothing == RouterSpec => BadNewsIsFree
<1>1. RouterInit => RouterInv
  BY DEF RouterInit, RouterInv
<1>2. RouterInv /\ [RouterNext]_routerVars => RouterInv'
  BY RouterStep
<1>3. RouterInv /\ [RouterNext]_routerVars =>
        [Worse /\ route \in Terminal => route' \in Terminal]_routerVars
  <2> SUFFICES ASSUME RouterInv, [RouterNext]_routerVars, Worse, route \in Terminal
               PROVE  route' \in Terminal
    OBVIOUS
  <2>1. task # NoTask /\ task \in Task /\ known \in Known /\ route = Decide(Policy, task, tokens, known)
    BY DEF Worse, RouterInv
  <2>2. task' = task /\ tokens' = tokens
    BY <2>1, OnlySubmitTasks
  <2>3. RouterInv'
    BY <1>2
  <2>4. known' \in Known /\ route' = Decide(Policy, task, tokens, known')
    BY <2>1, <2>2, <2>3 DEF RouterInv
  <2>5. (known.failed => known'.failed) /\ (known.looping => known'.looping)
    BY DEF Worse
  <2> QED
    BY <2>1, <2>4, <2>5, TerminalStays, RouterAssumption
<1> QED
  BY <1>1, <1>2, <1>3, PTL DEF RouterSpec, BadNewsIsFree

-----------------------------------------------------------------------------
(***************************************************************************)
(* The panels computed from the router agree, for any dataset, thresholds, *)
(* policies and executions.                                                *)
(***************************************************************************)

RowsOK == IsFiniteSet(Rows) /\ \A i \in Rows : items[i] \in Item

SweepRows == [threshold : Thresholds, correct : Nat, cost : Int]

\* The rows of the sweep are in the order of their thresholds, and each has the
\* cost of the policy with its threshold.
Unswept == {t \in Thresholds : \A n \in DOMAIN sweep : sweep[n].threshold < t}
SweepOK ==
  /\ sweep \in Seq(SweepRows)
  /\ \A n \in DOMAIN sweep :
       sweep[n].cost = RouterCost(OnDesktop(WithThreshold(Policy, sweep[n].threshold)))
  /\ \A m, n \in DOMAIN sweep : m < n => sweep[m].threshold < sweep[n].threshold
  /\ panel = "load" => sweep = <<>>
  /\ panel \in {"load", "sweep"} => Unswept # {}

\* A report is that of these routes, against one of the weak baselines.
Reported(report, routes) == \E r \in MostFrequent : report = Report(routes, Count(r))

Compared(rival) ==
  [a |-> TotalCostOf(Policy), b |-> TotalCostOf(rival),
   different |-> Cardinality({i \in Rows : Shown(Policy, i) # Shown(rival, i)}),
   routesA |-> Distribution(Policy), routesB |-> Distribution(rival)]

BenchInv ==
  /\ RowsOK /\ SweepOK
  /\ desktop = NoReport \/ (panel \in {"cli", "compare", "shown"} /\ Reported(desktop, OnDesktop(Policy)))
  /\ panel \in {"compare", "shown"} => Reported(cli, OnCli(Policy))
  /\ panel = "shown" => \E rival \in Rivals : comparison = Compared(rival)

LEMMA ItemParts ==
  ASSUME NEW x \in Item
  PROVE  /\ x.sample.task \in Task /\ x.sample.tokens \in Nat
         /\ x.sample.past \in Routes \union {NoRoute} /\ x.known \in Known
<1>1. x.sample \in Samples /\ x.known \in States
  BY DEF Item
<1>2. x.sample \in [task : Task, tokens : Nat, past : Routes \union {NoRoute}]
  BY <1>1, WorkbenchAssumption
<1> QED
  BY <1>1, <1>2, WorkbenchAssumption

LEMMA RouteCosts == ASSUME NEW r \in Routes PROVE Cost(r) \in Nat /\ 5 <= Cost(r) /\ (r = "ASK" => Cost(r) = 5)
<1>1. r \in Terminal \/ r = "DIRECT" \/ r \in {"REUSE", "PATCH"} \/ r \in {"IMPLEMENT", "PARTIAL", "DELEGATE"}
  BY DEF Routes, Terminal
<1> QED
  BY <1>1 DEF Cost, Terminal

LEMMA PreviewIsRoute ==
  ASSUME NEW p, NEW t, NEW n, NEW k, NEW past \in Routes \union {NoRoute}
  PROVE  Preview(p, t, n, k, past) \in Routes
<1>1. Decide(p, t, n, k) \in Routes
  BY ProductiveRoutes DEF Decide, Routes
<1> QED
  BY <1>1 DEF Preview

\* q is p but for a higher threshold.
Stricter(q, p) ==
  /\ p.ask \in Nat /\ q.ask \in Nat /\ p.ask <= q.ask
  /\ q.direct = p.direct /\ q.delegation = p.delegation /\ q.learned = p.learned

\* Asking more often costs no more.
LEMMA AskingIsCheap ==
  ASSUME NEW p, NEW q, Stricter(q, p), NEW t \in Task, NEW n, NEW k \in Known,
         NEW past \in Routes \union {NoRoute}
  PROVE  Cost(Preview(q, t, n, k, past)) <= Cost(Preview(p, t, n, k, past))
<1>1. Confidence(t, k) \in Nat
  BY ConfidenceFalls
<1>2. Blocked(p, t, k) => Blocked(q, t, k)
  BY <1>1 DEF Blocked, Stricter
<1>3. Productive(q, t, n, k) = Productive(p, t, n, k)
  BY DEF Productive, Stricter
<1>4. Decide(q, t, n, k) \in {"ASK", Decide(p, t, n, k)}
  BY <1>2, <1>3 DEF Decide
<1>5. Preview(q, t, n, k, past) \in {"ASK", Preview(p, t, n, k, past)}
  BY <1>4 DEF Preview, Stricter
<1>6. Cost("ASK") = 5 /\ 5 <= Cost(Preview(p, t, n, k, past)) /\ Cost(Preview(p, t, n, k, past)) \in Nat
  <2>1. "ASK" \in Routes
    BY DEF Routes
  <2> QED
    BY <2>1, PreviewIsRoute, RouteCosts
<1> QED
  BY <1>5, <1>6

LEMMA ShownCosts ==
  ASSUME RowsOK, NEW p, NEW i \in Rows
  PROVE  Cost(Shown(p, i)) \in Int
<1>1. items[i].sample.past \in Routes \union {NoRoute}
  BY ItemParts DEF RowsOK
<1>2. Shown(p, i) \in Routes
  BY <1>1, PreviewIsRoute DEF Shown
<1> QED
  BY <1>2, RouteCosts

LEMMA CostIsInt == ASSUME RowsOK, NEW p PROVE RouterCost(OnDesktop(p)) \in Int
<1> DEFINE f == [i \in Rows |-> Cost(OnDesktop(p)[i])]
<1>1. \A i \in Rows : f[i] \in Int
  BY ShownCosts DEF OnDesktop
<1> HIDE DEF f
<1>2. SumFunctionOnSet(f, Rows) \in Int
  BY <1>1, SumInt DEF RowsOK
<1> QED
  BY <1>2 DEF RouterCost, f

LEMMA CostFalls ==
  ASSUME RowsOK, NEW p, NEW q, Stricter(q, p)
  PROVE  RouterCost(OnDesktop(q)) <= RouterCost(OnDesktop(p))
<1> DEFINE f == [i \in Rows |-> Cost(OnDesktop(q)[i])]
           g == [i \in Rows |-> Cost(OnDesktop(p)[i])]
<1>1. ASSUME NEW i \in Rows PROVE f[i] \in Int /\ g[i] \in Int /\ f[i] <= g[i]
  <2>1. items[i] \in Item
    BY DEF RowsOK
  <2>2. Cost(Shown(q, i)) <= Cost(Shown(p, i))
    BY <2>1, ItemParts, AskingIsCheap DEF Shown
  <2> QED
    BY <2>2, ShownCosts DEF OnDesktop
<1>2. /\ RouterCost(OnDesktop(q)) = SumFunctionOnSet(f, Rows)
      /\ RouterCost(OnDesktop(p)) = SumFunctionOnSet(g, Rows)
  BY DEF RouterCost
<1> HIDE DEF f, g
<1>3. SumFunctionOnSet(f, Rows) <= SumFunctionOnSet(g, Rows)
  BY <1>1, SumLE DEF RowsOK
<1> QED
  BY <1>2, <1>3

LEMMA CountNat == ASSUME RowsOK, NEW r PROVE Count(r) \in Nat
<1> DEFINE S == {i \in Rows : items[i].expected = r}
<1>1. S \in SUBSET Rows /\ IsFiniteSet(Rows)
  BY DEF RowsOK
<1>2. Cardinality(S) \in Nat
  <2> HIDE DEF S
  <2> QED
    BY <1>1, FS_Subset, FS_CardinalityType
<1> QED
  BY <1>2 DEF Count

LEMMA CorrectNat == ASSUME RowsOK, NEW routes PROVE Correct(routes) \in Nat
<1> DEFINE S == {i \in Rows : routes[i] = items[i].expected}
<1>1. S \in SUBSET Rows /\ IsFiniteSet(Rows)
  BY DEF RowsOK
<1>2. Cardinality(S) \in Nat
  <2> HIDE DEF S
  <2> QED
    BY <1>1, FS_Subset, FS_CardinalityType
<1> QED
  BY <1>2 DEF Correct

\* Whichever of the most frequent routes a baseline settles on, it is as good, and
\* the report on the same routes is the same.
LEMMA OneReport ==
  ASSUME RowsOK, NEW x, NEW y, NEW R, NEW Q, Reported(x, R), Reported(y, Q)
  PROVE  x.weak = y.weak /\ (R = Q => x = y)
<1>1. PICK r \in MostFrequent : x = Report(R, Count(r))
  BY DEF Reported
<1>2. PICK s \in MostFrequent : y = Report(Q, Count(s))
  BY DEF Reported
<1>3. Count(r) = Count(s)
  <2>1. Count(r) <= Count(s) /\ Count(s) <= Count(r)
    BY DEF MostFrequent
  <2> QED
    BY <2>1, CountNat
<1>4. x.weak = Count(r) /\ y.weak = Count(s)
  BY <1>1, <1>2 DEF Report
<1> QED
  BY <1>1, <1>2, <1>3, <1>4

\* Where trimming changes nothing, both front ends route alike.
LEMMA TidyRoutes ==
  ASSUME RowsOK, NEW p, \A i \in Rows : Tidy(i)
  PROVE  OnCli(p) = OnDesktop(p)
<1>1. ASSUME NEW i \in Rows PROVE Printed(p, i) = Shown(p, i)
  <2>1. items[i] \in Item /\ items[i].written = [padding |-> 0, solved |-> items[i].known.solved]
    BY DEF RowsOK, Tidy
  <2>2. items[i].sample.tokens + items[i].written.padding = items[i].sample.tokens
    BY <2>1, ItemParts
  <2>3. [items[i].known EXCEPT !.solved = items[i].written.solved] = items[i].known
    <3>1. items[i].known \in Known /\ items[i].written.solved = items[i].known.solved
      BY <2>1, ItemParts
    <3> QED
      BY <3>1 DEF Known
  <2> QED
    BY <2>2, <2>3 DEF Printed, Shown
<1> QED
  BY <1>1 DEF OnCli, OnDesktop

-----------------------------------------------------------------------------

LEMMA BenchInitInv == BenchInit => BenchInv
<1> SUFFICES ASSUME BenchInit PROVE BenchInv
  OBVIOUS
<1>1. items = <<>> /\ sweep = <<>> /\ DOMAIN items = {} /\ DOMAIN sweep = {}
  BY DEF BenchInit
<1>2. RowsOK
  BY <1>1, FS_EmptySet DEF RowsOK, Rows
<1>3. Unswept # {}
  BY <1>1, WorkbenchAssumption DEF Unswept
<1>4. SweepOK
  BY <1>1, <1>3 DEF SweepOK
<1> QED
  BY <1>2, <1>4 DEF BenchInit, BenchInv

LEMMA LoadDatasetInv == ASSUME BenchInv, LoadDataset PROVE BenchInv'
<1>1. PICK n \in 1..MaxItems : items' \in [1..n -> Item]
  BY DEF LoadDataset
<1>2. RowsOK'
  <2>1. DOMAIN items' = 1..n /\ n \in Nat
    BY <1>1, WorkbenchAssumption
  <2>2. IsFiniteSet(1..n)
    BY <2>1, FS_Interval
  <2> QED
    BY <1>1, <2>1, <2>2 DEF RowsOK, Rows
<1>3. /\ sweep = <<>> /\ sweep' = sweep /\ DOMAIN sweep = {} /\ Unswept # {}
  <2>1. panel = "load" /\ sweep' = sweep
    BY DEF LoadDataset
  <2>2. SweepOK
    BY DEF BenchInv
  <2>3. sweep = <<>> /\ Unswept # {}
    BY <2>1, <2>2 DEF SweepOK
  <2> QED
    BY <2>1, <2>3
<1>4. panel' \in {"cli", "sweep"}
  BY DEF LoadDataset
<1>5. SweepOK'
  BY <1>3, <1>4 DEF SweepOK, Unswept
<1> QED
  BY <1>2, <1>5 DEF LoadDataset, BenchInv

\* Nothing that is computed from the dataset changes while the dataset does not.
LEMMA SameItems ==
  ASSUME items' = items
  PROVE  /\ Rows' = Rows /\ MostFrequent' = MostFrequent
         /\ \A p : OnDesktop(p)' = OnDesktop(p)
         /\ \A p : OnCli(p)' = OnCli(p)
         /\ \A p : RouterCost(p)' = RouterCost(p)
         /\ \A p : Correct(p)' = Correct(p)
         /\ \A r : Count(r)' = Count(r)
         /\ \A p, w : Report(p, w)' = Report(p, w)
         /\ \A x, p : Reported(x, p)' = Reported(x, p)
         /\ RowsOK' = RowsOK
<1>1. Rows' = Rows
  BY DEF Rows
<1>2. \A p : RouterCost(p)' = RouterCost(p)
  BY <1>1 DEF RouterCost
<1>3. \A p : Correct(p)' = Correct(p)
  BY <1>1 DEF Correct
<1>9. (\A p : OnDesktop(p)' = OnDesktop(p)) /\ (\A p : OnCli(p)' = OnCli(p))
  BY <1>1 DEF OnDesktop, OnCli, Shown, Printed
<1>4. \A r : Count(r)' = Count(r)
  BY <1>1 DEF Count
<1>5. \A p, w : Report(p, w)' = Report(p, w)
  BY <1>2, <1>3 DEF Report, Apgr
<1>6. MostFrequent' = MostFrequent
  BY <1>4 DEF MostFrequent
<1>7. \A x, p : Reported(x, p)' = Reported(x, p)
  BY <1>4, <1>5, <1>6 DEF Reported
<1>8. RowsOK' = RowsOK
  BY <1>1 DEF RowsOK
<1> QED
  BY <1>1, <1>2, <1>3, <1>4, <1>5, <1>6, <1>7, <1>8, <1>9

LEMMA SweepSame ==
  ASSUME SweepOK, UNCHANGED <<items, sweep>>, panel' \notin {"load", "sweep"}
  PROVE  SweepOK'
<1>1. \A p : RouterCost(OnDesktop(p))' = RouterCost(OnDesktop(p))
  BY SameItems DEF RouterCost
<1> QED
  BY <1>1 DEF SweepOK, WithThreshold

LEMMA SweepRowInv == ASSUME BenchInv, SweepRow PROVE BenchInv'
<1> DEFINE t == Min(Unswept)
           p == OnDesktop(WithThreshold(Policy, t))
           row == [threshold |-> t, correct |-> Correct(p), cost |-> RouterCost(p)]
<1>1. /\ panel = "sweep" /\ UNCHANGED <<items, desktop, cli, comparison>>
      /\ sweep' = Append(sweep, row)
      /\ panel' = IF Unswept = {t} THEN "desktop" ELSE panel
  BY DEF SweepRow, Unswept
<1>2. Thresholds \subseteq Nat
  BY WorkbenchAssumption
<1>3. t \in Unswept /\ \A u \in Unswept : t <= u
  <2>1. Unswept \in SUBSET Nat /\ Unswept # {}
    BY <1>1, <1>2 DEF BenchInv, SweepOK, Unswept
  <2>2. \E j \in Unswept : \A k \in Unswept : j <= k
    BY <2>1, LeastOf
  <2> QED
    BY <2>2 DEF Min
<1>4. t \in Thresholds /\ t \in Nat /\ \A n \in DOMAIN sweep : sweep[n].threshold < t
  BY <1>2, <1>3 DEF Unswept
<1>5. row \in SweepRows /\ row.threshold = t /\ row.cost = RouterCost(OnDesktop(WithThreshold(Policy, t)))
  BY <1>4, CorrectNat, CostIsInt DEF SweepRows, BenchInv
<1> HIDE DEF t, row, p
<1>6. sweep \in Seq(SweepRows)
  BY DEF BenchInv, SweepOK
<1>7. /\ sweep' \in Seq(SweepRows) /\ Len(sweep) \in Nat /\ DOMAIN sweep = 1..Len(sweep)
      /\ DOMAIN sweep' = 1..Len(sweep) + 1
      /\ \A n \in DOMAIN sweep : sweep'[n] = sweep[n]
      /\ sweep'[Len(sweep) + 1] = row
  BY <1>1, <1>5, <1>6, AppendProperties
<1>8. \A n \in DOMAIN sweep' : n \in DOMAIN sweep \/ n = Len(sweep) + 1
  BY <1>7
<1>9. \A n \in DOMAIN sweep : sweep[n].threshold \in Nat
  <2>1. \A n \in DOMAIN sweep : sweep[n] \in SweepRows
    BY <1>6
  <2> QED
    BY <2>1, <1>2 DEF SweepRows
<1>10. \A n \in DOMAIN sweep' :
         sweep'[n].cost = RouterCost(OnDesktop(WithThreshold(Policy, sweep'[n].threshold)))
  BY <1>5, <1>7, <1>8 DEF BenchInv, SweepOK
<1>11. ASSUME NEW m \in DOMAIN sweep', NEW n \in DOMAIN sweep', m < n
       PROVE  sweep'[m].threshold < sweep'[n].threshold
  <2>1. m \in DOMAIN sweep
    BY <1>7, <1>11
  <2>2. CASE n \in DOMAIN sweep
    BY <2>1, <2>2, <1>7, <1>11 DEF BenchInv, SweepOK
  <2>3. CASE n = Len(sweep) + 1
    BY <2>1, <2>3, <1>4, <1>5, <1>7
  <2> QED
    BY <2>2, <2>3, <1>8
<1>12. panel' = "sweep" => Unswept' # {}
  <2> SUFFICES ASSUME panel' = "sweep" PROVE Unswept' # {}
    OBVIOUS
  <2>1. Unswept # {t}
    BY <1>1
  <2>2. PICK u \in Unswept : u # t
    BY <2>1, <1>3
  <2>3. u \in Thresholds /\ u \in Nat /\ t < u /\ \A n \in DOMAIN sweep : sweep[n].threshold < u
    BY <2>2, <1>2, <1>3, <1>4 DEF Unswept
  <2>4. \A n \in DOMAIN sweep' : sweep'[n].threshold < u
    BY <2>3, <1>5, <1>7, <1>8
  <2> QED
    BY <2>3, <2>4 DEF Unswept
<1>13. \A q : RouterCost(OnDesktop(q))' = RouterCost(OnDesktop(q))
  BY <1>1, SameItems DEF RouterCost
<1>14. panel' \in {"sweep", "desktop"}
  BY <1>1
<1>15. SweepOK'
  BY <1>7, <1>10, <1>11, <1>12, <1>13, <1>14 DEF SweepOK, WithThreshold
<1>16. desktop' = NoReport
  BY <1>1 DEF BenchInv
<1> QED
  BY <1>1, <1>14, <1>15, <1>16, SameItems DEF BenchInv

LEMMA DesktopInv == ASSUME BenchInv, EvaluateOnDesktop PROVE BenchInv'
<1>1. /\ UNCHANGED <<items, sweep, cli, comparison>> /\ panel' = "cli"
  BY DEF EvaluateOnDesktop
<1>2. desktop' = NoReport \/ Reported(desktop', OnDesktop(Policy))
  <2>1. desktop = NoReport
    BY DEF EvaluateOnDesktop, BenchInv
  <2> QED
    BY <2>1 DEF EvaluateOnDesktop, Reported, Configured
<1>3. SweepOK' /\ RowsOK'
  BY <1>1, SweepSame, SameItems DEF BenchInv
<1>4. Reported(desktop, OnDesktop(Policy))' = Reported(desktop', OnDesktop(Policy))
  BY <1>1, SameItems DEF Reported
<1> QED
  BY <1>1, <1>2, <1>3, <1>4 DEF BenchInv

LEMMA CliInv == ASSUME BenchInv, EvaluateOnCli PROVE BenchInv'
<1>1. /\ UNCHANGED <<items, sweep, desktop, comparison>> /\ panel' = "compare" /\ panel = "cli"
  BY DEF EvaluateOnCli
<1>2. Reported(cli', OnCli(Policy))
  BY DEF EvaluateOnCli, Reported
<1>3. SweepOK' /\ RowsOK'
  BY <1>1, SweepSame, SameItems DEF BenchInv
<1>4. /\ Reported(cli, OnCli(Policy))' = Reported(cli', OnCli(Policy))
      /\ Reported(desktop, OnDesktop(Policy))' = Reported(desktop', OnDesktop(Policy))
  BY <1>1, SameItems DEF Reported
<1> QED
  BY <1>1, <1>2, <1>3, <1>4 DEF BenchInv

LEMMA ComparedSame ==
  ASSUME items' = items PROVE \A rival : Compared(rival)' = Compared(rival)
<1>1. Rows' = Rows
  BY DEF Rows
<1>2. \A p, i : Shown(p, i)' = Shown(p, i)
  BY DEF Shown
<1>3. \A r : RanOn(r)' = RanOn(r)
  BY <1>1 DEF RanOn
<1>4. \A r : AverageCost(r)' = AverageCost(r)
  BY <1>3 DEF AverageCost, Booked
<1>5. \A r, i : CostOn(r, i)' = CostOn(r, i)
  BY <1>3, <1>4 DEF CostOn
<1>6. \A p : TotalCostOf(p)' = TotalCostOf(p)
  BY <1>1, <1>2, <1>5 DEF TotalCostOf
<1>7. \A p : Distribution(p)' = Distribution(p)
  BY <1>1, <1>2 DEF Distribution
<1> QED
  BY <1>1, <1>2, <1>6, <1>7 DEF Compared

LEMMA CompareInv == ASSUME BenchInv, Compare PROVE BenchInv'
<1>1. /\ UNCHANGED <<items, sweep, desktop, cli>> /\ panel' = "shown" /\ panel = "compare"
  BY DEF Compare
<1>2. PICK rival \in Rivals : comparison' = Compared(rival)
  BY DEF Compare, Compared
<1>3. SweepOK' /\ RowsOK'
  BY <1>1, SweepSame, SameItems DEF BenchInv
<1>4. /\ Reported(cli, OnCli(Policy))' = Reported(cli, OnCli(Policy))
      /\ Reported(desktop, OnDesktop(Policy))' = Reported(desktop, OnDesktop(Policy))
  BY <1>1, SameItems DEF Reported
<1>5. Compared(rival)' = Compared(rival)
  BY <1>1, ComparedSame
<1> QED
  BY <1>1, <1>2, <1>3, <1>4, <1>5 DEF BenchInv

LEMMA BenchStep == ASSUME BenchInv, [BenchNext]_benchVars PROVE BenchInv'
<1>1. CASE UNCHANGED benchVars
  <2>1. UNCHANGED <<items, panel, sweep, desktop, cli, comparison>>
    BY <1>1 DEF benchVars
  <2>2. \A q : RouterCost(OnDesktop(q))' = RouterCost(OnDesktop(q))
    BY <2>1, SameItems DEF RouterCost
  <2>3. SweepOK'
    BY <2>1, <2>2 DEF BenchInv, SweepOK, WithThreshold, Unswept
  <2>4. /\ RowsOK' /\ Reported(cli, OnCli(Policy))' = Reported(cli, OnCli(Policy))
        /\ Reported(desktop, OnDesktop(Policy))' = Reported(desktop, OnDesktop(Policy))
    BY <2>1, SameItems DEF BenchInv, Reported
  <2>5. panel = "shown" => \E rival \in Rivals : comparison' = Compared(rival)'
    BY <2>1, ComparedSame DEF BenchInv
  <2> QED
    BY <2>1, <2>3, <2>4, <2>5 DEF BenchInv
<1> QED
  BY <1>1, LoadDatasetInv, SweepRowInv, DesktopInv, CliInv, CompareInv DEF BenchNext

\* Policies that show the same routes have the same totals.
LEMMA SameRoutesSameTotals ==
  ASSUME NEW p, NEW q, RowsOK, Cardinality({i \in Rows : Shown(p, i) # Shown(q, i)}) = 0
  PROVE  TotalCostOf(p) = TotalCostOf(q) /\ Distribution(p) = Distribution(q)
<1> DEFINE S == {i \in Rows : Shown(p, i) # Shown(q, i)}
<1>1. IsFiniteSet(S)
  BY FS_Subset DEF RowsOK
<1>2. S = {}
  <2> HIDE DEF S
  <2>1. Cardinality(S) = 0
    BY DEF S
  <2> QED
    BY <1>1, <2>1, FS_EmptySet
<1>3. \A i \in Rows : Shown(p, i) = Shown(q, i)
  BY <1>2
<1>4. [i \in Rows |-> CostOn(Shown(p, i), i)] = [i \in Rows |-> CostOn(Shown(q, i), i)]
  BY <1>3
<1>5. \A r : {i \in Rows : Shown(p, i) = r} = {i \in Rows : Shown(q, i) = r}
  BY <1>3
<1> QED
  BY <1>4, <1>5 DEF TotalCostOf, Distribution

\* A policy that routes every task as it was routed costs what was booked.
LEMMA AsBooked ==
  ASSUME NEW p, \A i \in Rows : items[i].ran # NoRun /\ Shown(p, i) = items[i].ran.route
  PROVE  TotalCostOf(p) = Booked(Rows)
<1>1. \A i \in Rows : CostOn(Shown(p, i), i) = items[i].ran.cost
  BY DEF CostOn, RanOn
<1>2. [i \in Rows |-> CostOn(Shown(p, i), i)] = [i \in Rows |-> items[i].ran.cost]
  BY <1>1
<1> QED
  BY <1>2 DEF TotalCostOf, Booked

LEMMA ThresholdParts ==
  ASSUME NEW t \in Thresholds
  PROVE  /\ WithThreshold(Policy, t).ask = t /\ t \in Nat /\ Policy.ask \in Nat
         /\ WithThreshold(Policy, t).direct = Policy.direct
         /\ WithThreshold(Policy, t).delegation = Policy.delegation
         /\ WithThreshold(Policy, t).learned = Policy.learned
<1>1. Policy \in [ask : 0..100, direct : Nat, delegation : Nat, learned : BOOLEAN]
  BY RouterAssumption DEF RouterPolicy
<1>2. t \in Nat
  BY WorkbenchAssumption
<1> QED
  BY <1>1, <1>2 DEF WithThreshold

LEMMA BenchAgrees == BenchInv => PanelsAgree
<1> SUFFICES ASSUME BenchInv, panel = "shown" PROVE PanelsAgree
  BY DEF PanelsAgree
<1>1. /\ RowsOK /\ SweepOK /\ Reported(cli, OnCli(Policy))
      /\ desktop = NoReport \/ Reported(desktop, OnDesktop(Policy))
  BY DEF BenchInv
<1>2. PICK rival \in Rivals : comparison = Compared(rival)
  BY DEF BenchInv
<1>3. \A n \in DOMAIN sweep : sweep[n].threshold \in Thresholds /\ n \in Nat
  <2>1. sweep \in Seq(SweepRows)
    BY <1>1 DEF SweepOK
  <2>2. \A n \in DOMAIN sweep : sweep[n] \in SweepRows /\ n \in Nat
    BY <2>1
  <2> QED
    BY <2>2 DEF SweepRows
<1>4. ASSUME NEW m \in DOMAIN sweep, NEW n \in DOMAIN sweep, m <= n
      PROVE  sweep[n].cost <= sweep[m].cost
  <2>1. sweep[m].threshold <= sweep[n].threshold
    <3>1. CASE m = n
      BY <3>1, <1>3, ThresholdParts
    <3>2. CASE m < n
      BY <3>2, <1>1, <1>3, ThresholdParts DEF SweepOK
    <3> QED
      BY <3>1, <3>2, <1>3, <1>4
  <2>2. Stricter(WithThreshold(Policy, sweep[n].threshold), WithThreshold(Policy, sweep[m].threshold))
    BY <2>1, <1>3, ThresholdParts DEF Stricter
  <2>3. RouterCost(OnDesktop(WithThreshold(Policy, sweep[n].threshold)))
          <= RouterCost(OnDesktop(WithThreshold(Policy, sweep[m].threshold)))
    BY <2>2, <1>1, CostFalls
  <2> QED
    BY <2>3, <1>1 DEF SweepOK
<1>5. desktop # NoReport => desktop.cost = RouterCost(OnDesktop(Policy))
  BY <1>1 DEF Reported, Report
<1>6. ASSUME desktop # NoReport, NEW n \in DOMAIN sweep
      PROVE  /\ sweep[n].threshold >= Policy.ask => sweep[n].cost <= desktop.cost
             /\ sweep[n].threshold <= Policy.ask => desktop.cost <= sweep[n].cost
  <2>1. sweep[n].cost = RouterCost(OnDesktop(WithThreshold(Policy, sweep[n].threshold)))
    BY <1>1 DEF SweepOK
  <2>2. sweep[n].threshold >= Policy.ask => Stricter(WithThreshold(Policy, sweep[n].threshold), Policy)
    BY <1>3, ThresholdParts DEF Stricter
  <2>3. sweep[n].threshold <= Policy.ask => Stricter(Policy, WithThreshold(Policy, sweep[n].threshold))
    BY <1>3, ThresholdParts DEF Stricter
  <2> QED
    BY <2>1, <2>2, <2>3, <1>1, <1>5, <1>6, CostFalls
<1>7. desktop # NoReport => desktop.weak = cli.weak /\ ((\A i \in Rows : Tidy(i)) => desktop = cli)
  BY <1>1, OneReport, TidyRoutes
<1>8. comparison.different = 0 => comparison.a = comparison.b /\ comparison.routesA = comparison.routesB
  BY <1>1, <1>2, SameRoutesSameTotals DEF Compared
<1>9. comparison.a = TotalCostOf(Policy)
  BY <1>2 DEF Compared
<1>10. (\A i \in Rows : items[i].ran # NoRun /\ Shown(Policy, i) = items[i].ran.route) =>
          comparison.a = Booked(Rows)
  BY <1>9, AsBooked
<1> QED
  BY <1>4, <1>6, <1>7, <1>8, <1>10 DEF PanelsAgree

\* The evaluation on the desktop and on the command line, the sweep and the A/B
\* comparison tell one story about any dataset (nativeapp.rs:1424-1595, 2532-2636,
\* main.rs:754-922).
THEOREM PanelsTellOneStory == BenchSpec => []PanelsAgree
<1>1. BenchInv /\ [BenchNext]_benchVars => BenchInv'
  BY BenchStep
<1> QED
  BY BenchInitInv, <1>1, BenchAgrees, PTL DEF BenchSpec

-----------------------------------------------------------------------------
(***************************************************************************)
(* The one-run slot, for all requests and any bound on the runs, with      *)
(* tasks that may panic or may not.                                        *)
(***************************************************************************)

ConsoleTypeOK ==
  /\ form \in Forms
  /\ running \in BOOLEAN /\ lost \in BOOLEAN
  /\ job \in Requests \union {NoRequest}
  /\ channel \in Seq(Requests)

\* A task and a result never wait together, and after a panic neither does.
OneInFlight ==
  /\ job # NoRequest => channel = <<>>
  /\ Len(channel) <= 1
  /\ lost => job = NoRequest /\ channel = <<>>

ConsoleInv == ConsoleTypeOK /\ OneInFlight /\ OneRunAtATime

LEMMA ConsoleInitInv == ConsoleInit => ConsoleInv
<1> SUFFICES ASSUME ConsoleInit PROVE ConsoleInv
  OBVIOUS
<1>1. ConsoleTypeOK
  BY EmptySeq DEF ConsoleInit, ConsoleTypeOK, Forms
<1>2. OneInFlight
  BY EmptySeq DEF ConsoleInit, OneInFlight
<1>3. OneRunAtATime
  BY EmptySeq DEF ConsoleInit, OneRunAtATime
<1> QED
  BY <1>1, <1>2, <1>3 DEF ConsoleInv

\* What touches neither the slot nor the result on screen.
LEMMA FormInv == ConsoleInv /\ (Edit \/ Load \/ Clear \/ RoutePreview \/ Refresh) => ConsoleInv'
<1> SUFFICES ASSUME ConsoleInv, Edit \/ Load \/ Clear \/ RoutePreview \/ Refresh
             PROVE ConsoleInv'
  OBVIOUS
<1>1. /\ UNCHANGED <<running, job, channel, lost, recorded>>
      /\ form' \in Forms
      /\ lastRun' \in {lastRun, NoRequest}
      /\ snapshot' \in {snapshot, recorded}
  BY DEF Edit, Load, Clear, RoutePreview, Refresh, ConsoleInv, ConsoleTypeOK, Forms
<1>2. ConsoleTypeOK' /\ OneInFlight'
  BY <1>1 DEF ConsoleInv, ConsoleTypeOK, OneInFlight
<1>3. OneRunAtATime'
  BY <1>1 DEF ConsoleInv, OneRunAtATime
<1> QED
  BY <1>2, <1>3 DEF ConsoleInv

\* A run starts only when nothing is in flight, for then the flag would be set.
LEMMA ExecuteInv == ConsoleInv /\ Execute => ConsoleInv'
<1> SUFFICES ASSUME ConsoleInv, Execute PROVE ConsoleInv'
  OBVIOUS
<1>1. job = NoRequest /\ channel = <<>> /\ lost = FALSE
  BY DEF Execute, Free, ConsoleInv, ConsoleTypeOK, OneRunAtATime
<1>2. /\ running' = TRUE /\ job' = form /\ form \in Requests
      /\ UNCHANGED <<form, channel, lastRun, recorded, snapshot, lost>>
  BY DEF Execute, ConsoleInv, ConsoleTypeOK, Forms
<1>3. ConsoleTypeOK' /\ OneInFlight'
  BY <1>1, <1>2 DEF ConsoleInv, ConsoleTypeOK, OneInFlight, Forms
<1>4. OneRunAtATime'
  BY <1>1, <1>2, ConsoleAssumption DEF OneRunAtATime
<1> QED
  BY <1>3, <1>4 DEF ConsoleInv

\* The task hands its request to the channel, or is lost.
LEMMA EndInv == ConsoleInv /\ (Return \/ Panic) => ConsoleInv'
<1> SUFFICES ASSUME ConsoleInv, Return \/ Panic PROVE ConsoleInv'
  OBVIOUS
<1>1. job \in Requests /\ channel = <<>> /\ lost = FALSE /\ running = TRUE
  BY DEF Return, Panic, ConsoleInv, ConsoleTypeOK, OneInFlight, OneRunAtATime
<1>2. job' = NoRequest /\ UNCHANGED <<form, running, lastRun, snapshot>>
  BY DEF Return, Panic
<1>3. CASE Return
  <2>1. channel' = <<job>> /\ lost' = FALSE
    BY <1>1, <1>3 DEF Return
  <2>2. channel' \in Seq(Requests) /\ Len(channel') = 1 /\ channel' # <<>>
    BY <1>1, <2>1
  <2>3. ConsoleTypeOK'
    BY <1>2, <2>1, <2>2 DEF ConsoleInv, ConsoleTypeOK, Forms
  <2>4. OneInFlight'
    BY <1>2, <2>1, <2>2 DEF OneInFlight
  <2>5. OneRunAtATime'
    BY <1>1, <1>2, <2>2 DEF OneRunAtATime
  <2> QED
    BY <2>3, <2>4, <2>5 DEF ConsoleInv
<1>4. CASE Panic
  <2>1. channel' = <<>> /\ lost' = TRUE
    BY <1>1, <1>4 DEF Panic
  <2>2. ConsoleTypeOK' /\ OneInFlight'
    BY <1>2, <2>1, EmptySeq DEF ConsoleInv, ConsoleTypeOK, OneInFlight, Forms
  <2>3. OneRunAtATime'
    BY <1>1, <1>2, <2>1, EmptySeq DEF OneRunAtATime
  <2> QED
    BY <2>2, <2>3 DEF ConsoleInv
<1> QED
  BY <1>3, <1>4

\* The only message is taken, and telemetry is loaded with it.
LEMMA PollInv == ConsoleInv /\ Poll => ConsoleInv'
<1> SUFFICES ASSUME ConsoleInv, Poll PROVE ConsoleInv'
  OBVIOUS
<1>1. /\ channel \in Seq(Requests) /\ channel # <<>> /\ lost \in BOOLEAN
      /\ Len(channel) <= 1 /\ (job # NoRequest => channel = <<>>) /\ (lost => channel = <<>>)
  BY DEF Poll, ConsoleInv, ConsoleTypeOK, OneInFlight
<1>2. Len(channel) = 1 /\ job = NoRequest /\ lost = FALSE
  <2>1. Len(channel) \in Nat \ {0}
    BY <1>1, EmptySeq
  <2>2. Len(channel) = 1
    BY <1>1, <2>1
  <2>3. job = NoRequest
    BY <1>1
  <2>4. lost = FALSE
    BY <1>1
  <2> QED
    BY <2>2, <2>3, <2>4
<1>3. /\ channel' = Tail(channel) /\ running' = FALSE /\ snapshot' = recorded
      /\ UNCHANGED <<form, job, recorded, lost>>
  BY DEF Poll
<1>4. channel' \in Seq(Requests) /\ channel' = <<>> /\ Len(channel') = 0
  BY <1>1, <1>2, <1>3
<1>5. ConsoleTypeOK'
  BY <1>2, <1>3, <1>4 DEF ConsoleInv, ConsoleTypeOK, Forms
<1>6. OneInFlight'
  BY <1>2, <1>3, <1>4 DEF OneInFlight
<1>7. OneRunAtATime'
  BY <1>2, <1>3, <1>4 DEF OneRunAtATime
<1> QED
  BY <1>5, <1>6, <1>7 DEF ConsoleInv

\* However the form is edited and frames, timers and the runtime interleave, at
\* most one execution is under way, and the flag says so (nativeapp.rs, execute
\* and poll_run).
THEOREM OneRun == ConsoleSpec => []OneRunAtATime
<1>1. ConsoleInv /\ [ConsoleNext]_consoleVars => ConsoleInv'
  <2>1. ASSUME ConsoleInv, UNCHANGED consoleVars PROVE ConsoleInv'
    BY <2>1 DEF consoleVars, ConsoleInv, ConsoleTypeOK, OneInFlight, OneRunAtATime
  <2> QED
    BY <2>1, FormInv, ExecuteInv, EndInv, PollInv DEF ConsoleNext
<1>2. ConsoleInv => OneRunAtATime
  BY DEF ConsoleInv
<1> QED
  BY ConsoleInitInv, <1>1, <1>2, PTL DEF ConsoleSpec

-----------------------------------------------------------------------------
(***************************************************************************)
(* The walk along the routing rules ends, and the chain it yields offers   *)
(* each enabled provider once: for any number of providers and rules,      *)
(* however the rules point at each other.                                  *)
(***************************************************************************)

\* Rules name configured providers only, and only configured ones are enabled.
ConfigOK ==
  /\ config.providers \subseteq Names
  /\ config.enabled \subseteq config.providers
  /\ \A i \in DOMAIN config.rules :
       /\ config.rules[i].provider \in config.providers
       /\ config.rules[i].fallback \in config.providers \union {NoName}

Seen == config.enabled \intersect visited
Offered == {chain[i] : i \in DOMAIN chain}

\* Until the rest is appended, the chain lists the enabled providers seen.
ListsSeen ==
  /\ chain \in Seq(config.enabled)
  /\ Offered = Seen
  /\ Len(chain) = Cardinality(Seen)

ChainInv ==
  /\ ConfigOK
  /\ visited \subseteq config.providers
  /\ fallback \in config.providers \union {NoName}
  /\ walk = "config" => visited = {} /\ fallback = NoName /\ chain = <<>>
  /\ walk # "chained" => ListsSeen
  /\ ChainIsComplete

\* Names are finitely many.
LEMMA Finite == ASSUME ConfigOK PROVE IsFiniteSet(config.providers) /\ IsFiniteSet(config.enabled)
  BY ChainAssumption, FS_Subset DEF ConfigOK

LEMMA ChainInitInv == ChainInit => ChainInv
<1> SUFFICES ASSUME ChainInit PROVE ChainInv
  OBVIOUS
<1>1. ConfigOK
  BY DEF ChainInit, NoConfig, ConfigOK
<1>2. chain = <<>> /\ Seen = {} /\ chain \in Seq(config.enabled)
  BY EmptySeq DEF ChainInit, NoConfig, Seen
<1>3. Offered = {} /\ Len(chain) = 0
  BY <1>2 DEF Offered
<1>4. ListsSeen
  BY <1>2, <1>3, FS_EmptySet DEF ListsSeen
<1> QED
  BY <1>1, <1>4 DEF ChainInit, ChainInv, NoConfig, ChainIsComplete

LEMMA LoadInv == ChainInv /\ LoadConfig => ChainInv'
<1> SUFFICES ASSUME ChainInv, LoadConfig PROVE ChainInv'
  OBVIOUS
<1>1. /\ visited' = {} /\ fallback' = NoName /\ chain' = <<>> /\ walk' = "rule"
  BY DEF LoadConfig, ChainInv
<1>2. PICK named \in SUBSET Names : \E on \in SUBSET named : \E list :
        config' = [providers |-> named, enabled |-> on, rules |-> list]
  BY DEF LoadConfig
<1>3. Valid(config')
  BY DEF LoadConfig
<1>4. ConfigOK'
  BY <1>2, <1>3 DEF ConfigOK, Valid
<1>5. Seen' = {} /\ chain' \in Seq(config'.enabled)
  BY <1>1, EmptySeq DEF Seen
<1>6. Offered' = {} /\ Len(chain') = 0
  BY <1>1 DEF Offered
<1>7. ListsSeen'
  BY <1>5, <1>6, FS_EmptySet DEF ListsSeen
<1> QED
  BY <1>1, <1>4, <1>7 DEF ChainInv, ChainIsComplete

\* A provider that is added is seen from then on, and listed if it is enabled.
LEMMA AddInv ==
  ASSUME ConfigOK, visited \subseteq config.providers, ListsSeen,
         NEW p \in config.providers, Add(p), config' = config
  PROVE  /\ visited' = visited \union {p} /\ visited' \subseteq config'.providers
         /\ ListsSeen'
<1>1. visited' = visited \union {p} /\ visited' \subseteq config'.providers
  BY DEF Add
<1>2. CASE p \in config.enabled \ visited
  <2>1. chain' = Append(chain, p) /\ Seen' = Seen \union {p} /\ p \notin Seen
    BY <1>1, <1>2 DEF Add, Seen
  <2>2. /\ chain' \in Seq(config.enabled) /\ Len(chain') = Len(chain) + 1
        /\ \A i \in 1..Len(chain) : chain'[i] = chain[i]
        /\ chain'[Len(chain) + 1] = p
    BY <1>2, <2>1, AppendProperties DEF ListsSeen
  <2>3. Offered' = Offered \union {p}
    <3>1. DOMAIN chain = 1..Len(chain) /\ DOMAIN chain' = 1..(Len(chain) + 1) /\ Len(chain) \in Nat
      BY <2>2, LenProperties DEF ListsSeen
    <3> QED
      BY <2>2, <3>1 DEF Offered
  <2>4. Cardinality(Seen') = Cardinality(Seen) + 1
    <3>1. IsFiniteSet(Seen)
      BY Finite, FS_Subset DEF Seen
    <3> QED
      BY <2>1, <3>1, FS_AddElement
  <2> QED
    BY <1>1, <2>1, <2>2, <2>3, <2>4 DEF ListsSeen
<1>3. CASE p \notin config.enabled \ visited
  <2>1. chain' = chain /\ Seen' = Seen
    BY <1>1, <1>3 DEF Add, Seen
  <2>2. Offered' = Offered
    BY <2>1 DEF Offered
  <2> QED
    BY <1>1, <2>1, <2>2 DEF ListsSeen
<1> QED
  BY <1>2, <1>3

\* The first rule with a property is a rule, or there is none.
LEMMA MatchInv == ChainInv /\ MatchRule => ChainInv'
<1> SUFFICES ASSUME ChainInv, MatchRule PROVE ChainInv'
  OBVIOUS
<1>1. config' = config /\ ConfigOK' /\ walk # "chained"
  BY DEF MatchRule, ChainInv, ConfigOK
<1> DEFINE i == FirstRule(Matches)
<1>2. CASE i = 0
  BY <1>1, <1>2 DEF MatchRule, ChainInv, ListsSeen, Seen, Offered, ChainIsComplete
<1>3. CASE i # 0
  <2>1. /\ Add(config.rules[i].provider) /\ fallback' = config.rules[i].fallback
        /\ walk' = "follow"
    BY <1>3 DEF MatchRule
  <2>2. i \in DOMAIN config.rules
    BY <1>3 DEF FirstRule
  <2>3. config.rules[i].provider \in config.providers
        /\ config.rules[i].fallback \in config.providers \union {NoName}
    BY <2>2 DEF ChainInv, ConfigOK
  <2> HIDE DEF i
  <2>4. visited' \subseteq config'.providers /\ ListsSeen'
    BY <1>1, <2>1, <2>3, AddInv DEF ChainInv
  <2> QED
    BY <1>1, <2>1, <2>3, <2>4 DEF ChainInv, ChainIsComplete
<1> QED
  BY <1>2, <1>3

\* A fallback is followed when it is configured and not yet seen.
LEMMA FollowStep ==
  ASSUME ChainInv, FollowFallback
  PROVE  ChainInv' /\ visited' = visited \union {fallback} /\ fallback \notin visited
<1>1. config' = config /\ ConfigOK' /\ walk = "follow" /\ walk' = "follow"
  BY DEF FollowFallback, ChainInv, ConfigOK
<1>2. fallback \in config.providers /\ fallback \notin visited /\ Add(fallback)
  BY DEF FollowFallback, Followed, ChainInv
<1>3. visited' = visited \union {fallback} /\ visited' \subseteq config'.providers /\ ListsSeen'
  BY <1>1, <1>2, AddInv DEF ChainInv
<1>4. fallback' \in config.providers \union {NoName}
  BY DEF FollowFallback, FirstRule, ChainInv, ConfigOK
<1> QED
  BY <1>1, <1>2, <1>3, <1>4 DEF ChainInv, ChainIsComplete

LEMMA EndFollowInv == ChainInv /\ EndFollow => ChainInv'
  BY DEF EndFollow, ChainInv, ConfigOK, ListsSeen, Seen, Offered, ChainIsComplete

\* A function that lists members of a set is a sequence over it.
LEMMA ListIsSeq ==
  ASSUME NEW S, NEW T \in SUBSET S, NEW n \in Nat, NEW s \in [1..n -> T]
  PROVE  s \in Seq(S) /\ Len(s) = n
<1>1. s \in [1..n -> S] /\ DOMAIN s = 1..n
  OBVIOUS
<1>2. s \in Seq(S)
  BY <1>1
<1> QED
  BY <1>1, <1>2, LenProperties

\* What was not seen is all that was missing.
LEMMA AppendRestInv == ChainInv /\ AppendRest => ChainInv'
<1> SUFFICES ASSUME ChainInv, AppendRest PROVE ChainInv'
  OBVIOUS
<1> DEFINE left == config.enabled \ visited
<1>1. /\ config' = config /\ fallback' = fallback /\ visited' = visited /\ ConfigOK'
      /\ walk = "rest" /\ walk' = "chained" /\ chain' = chain \o Order(left)
  BY DEF AppendRest, Rest, ChainInv, ConfigOK
<1>2. IsFiniteSet(config.enabled) /\ IsFiniteSet(left) /\ left \in SUBSET Names
  BY Finite, FS_Difference DEF ChainInv, ConfigOK
<1>3. /\ chain \in Seq(config.enabled) /\ Offered = Seen /\ Len(chain) = Cardinality(Seen)
      /\ DOMAIN chain = 1..Len(chain) /\ Len(chain) \in Nat
  BY <1>1, LenProperties DEF ChainInv, ListsSeen
<1>4. Cardinality(left) \in Nat /\ Cardinality(left) + Len(chain) = Cardinality(config.enabled)
  <2>1. Cardinality(left) = Cardinality(config.enabled) - Cardinality(Seen)
    BY <1>2, FS_Difference DEF Seen
  <2>2. Cardinality(left) \in Nat /\ Cardinality(config.enabled) \in Nat
    BY <1>2, FS_CardinalityType
  <2> HIDE DEF left
  <2> QED
    BY <1>3, <2>1, <2>2
<1> DEFINE tail == Order(left)
<1>5. /\ tail \in [1..Cardinality(left) -> left]
      /\ {tail[i] : i \in 1..Cardinality(left)} = left
  BY <1>2, ChainAssumption
<1>6. tail \in Seq(config.enabled) /\ Len(tail) = Cardinality(left)
  <2>1. left \in SUBSET config.enabled
    OBVIOUS
  <2> HIDE DEF tail, left
  <2> QED
    BY <1>4, <1>5, <2>1, ListIsSeq
<1> HIDE DEF tail
<1>7. /\ chain' \in Seq(config.enabled) /\ Len(chain') = Len(chain) + Len(tail)
      /\ \A i \in 1..(Len(chain) + Len(tail)) :
           chain'[i] = IF i <= Len(chain) THEN chain[i] ELSE tail[i - Len(chain)]
  BY <1>1, <1>3, <1>6, ConcatProperties DEF tail
<1>8. Len(chain') = Cardinality(config.enabled)
  BY <1>4, <1>6, <1>7, <1>3
<1>9. {chain'[i] : i \in DOMAIN chain'} = config.enabled
  <2>1. DOMAIN chain' = 1..(Len(chain) + Len(tail))
    BY <1>7, LenProperties
  <2>2. ASSUME NEW x \in config.enabled PROVE \E i \in DOMAIN chain' : chain'[i] = x
    <3>1. CASE x \in visited
      <4>1. PICK i \in 1..Len(chain) : chain[i] = x
        BY <1>3, <2>2, <3>1 DEF Offered, Seen
      <4>2. i \in 1..(Len(chain) + Len(tail)) /\ i <= Len(chain)
        BY <1>3, <1>4, <1>6
      <4> QED
        BY <1>7, <2>1, <4>1, <4>2
    <3>2. CASE x \notin visited
      <4>1. PICK i \in 1..Len(tail) : tail[i] = x
        BY <1>5, <1>6, <2>2, <3>2
      <4>2. Len(chain) + i \in 1..(Len(chain) + Len(tail)) /\ ~(Len(chain) + i <= Len(chain))
            /\ Len(chain) + i - Len(chain) = i
        BY <1>3, <1>4, <1>6
      <4> QED
        BY <1>7, <2>1, <4>1, <4>2
    <3> QED
      BY <3>1, <3>2
  <2>3. \A i \in DOMAIN chain' : chain'[i] \in config.enabled
    BY <1>7, ElementOfSeq
  <2> QED
    BY <2>2, <2>3
<1>10. ChainIsComplete'
  BY <1>1, <1>8, <1>9 DEF ChainIsComplete
<1> QED
  BY <1>1, <1>10 DEF ChainInv

LEMMA ChainStepInv == ChainInv /\ [ChainNext]_chainVars => ChainInv'
<1> SUFFICES ASSUME ChainInv, [ChainNext]_chainVars PROVE ChainInv'
  OBVIOUS
<1>1. CASE UNCHANGED chainVars
  BY <1>1 DEF chainVars, ChainInv, ConfigOK, ListsSeen, Seen, Offered, ChainIsComplete
<1> QED
  BY <1>1, LoadInv, MatchInv, FollowStep, EndFollowInv, AppendRestInv DEF ChainNext

-----------------------------------------------------------------------------
\* For every valid configuration the chain lists each enabled provider once
\* (config.rs:465-520).
THEOREM ChainComplete == ChainSpec => []ChainIsComplete
<1>1. ChainInv => ChainIsComplete
  BY DEF ChainInv
<1> QED
  BY ChainInitInv, ChainStepInv, <1>1, PTL DEF ChainSpec

\* Rules that point at each other in a circle do not hold the walk: each step
\* sees a provider it has not seen (config.rs:487-500).
THEOREM WalkSeesMore == ChainSpec => WalkEnds
<1>1. ChainInv /\ [ChainNext]_chainVars =>
        [walk = "follow" /\ walk' = "follow" =>
           Cardinality(visited') > Cardinality(visited)]_chainVars
  <2> SUFFICES ASSUME ChainInv, ChainNext, walk = "follow", walk' = "follow"
               PROVE  Cardinality(visited') > Cardinality(visited)
    OBVIOUS
  <2>1. FollowFallback
    BY DEF ChainNext, LoadConfig, MatchRule, EndFollow, AppendRest
  <2>2. IsFiniteSet(visited)
    BY Finite, FS_Subset DEF ChainInv
  <2>3. visited' = visited \union {fallback} /\ fallback \notin visited
    BY <2>1, FollowStep
  <2>4. Cardinality(visited') = Cardinality(visited) + 1
    BY <2>2, <2>3, FS_AddElement
  <2>5. Cardinality(visited) \in Nat
    BY <2>2, FS_CardinalityType
  <2> QED
    BY <2>4, <2>5
<1> QED
  BY ChainInitInv, ChainStepInv, <1>1, PTL DEF ChainSpec, WalkEnds

-----------------------------------------------------------------------------
(***************************************************************************)
(* The attempts are ordered by gain and kept within the ceiling, for any   *)
(* chain, costs, latencies, failures, pressures and weights.               *)
(***************************************************************************)

\* Every quoted provider is over the ceiling.
AllTooDear == MaxCost > 0 /\ quotes # {} /\ OverBudget = quotes

PlanTypeOK ==
  /\ stage \in {"price", "order", "planned", "blocked"}
  /\ quotes \subseteq Position
  /\ stage # "price" => offers \in [Position -> Offer] /\ quotes = Fitting(offers)

PlanInv ==
  /\ PlanTypeOK
  /\ stage = "planned" => plan = Ordered(Position \ OverBudget) /\ ~AllTooDear
  /\ stage = "blocked" => AllTooDear
  /\ stage # "planned" => plan = <<>>

-----------------------------------------------------------------------------
(* The order of the attempts. *)

LEMMA ProductNat == ASSUME NEW x \in Nat, NEW y \in Nat PROVE x * y \in Nat
OBVIOUS
LEMMA ProductPositive == ASSUME NEW x \in Nat, NEW y \in Nat, x > 0, y > 0 PROVE x * y > 0
OBVIOUS
LEMMA ProductGrows ==
  ASSUME NEW x \in Int, NEW y \in Int, NEW k \in Nat, x <= y PROVE x * k <= y * k /\ k * x <= k * y
OBVIOUS
LEMMA ProductShrinks ==
  ASSUME NEW x \in Int, NEW y \in Int, NEW k \in Nat, k > 0, x * k <= y * k PROVE x <= y
<1>1. ASSUME y + 1 <= x PROVE FALSE
  <2>1. (y + 1) * k <= x * k
    BY <1>1, ProductGrows
  <2>2. (y + 1) * k = y * k + k
    OBVIOUS
  <2>3. y * k \in Int /\ x * k \in Int
    OBVIOUS
  <2> QED
    BY <2>1, <2>2, <2>3
<1> QED
  BY <1>1

\* Fractions compare through their cross products: a/p >= b/q >= c/r gives a/p >= c/r.
LEMMA CrossProducts ==
  ASSUME NEW a \in Nat, NEW b \in Nat, NEW c \in Nat, NEW p \in Nat, NEW q \in Nat, NEW r \in Nat,
         q > 0, b * p <= a * q, c * q <= b * r
  PROVE  c * p <= a * r
<1>1. (b * p) * r <= (a * q) * r
  BY ProductGrows, ProductNat
<1>2. (c * q) * p <= (b * r) * p
  BY ProductGrows, ProductNat
<1>3. (b * r) * p = (b * p) * r /\ (c * q) * p = (c * p) * q /\ (a * q) * r = (a * r) * q
  OBVIOUS
<1>4. /\ (b * p) * r \in Int /\ (a * r) * q \in Int /\ (c * p) * q \in Int
  OBVIOUS
<1>5. (c * p) * q <= (a * r) * q
  BY <1>1, <1>2, <1>3, <1>4
<1>6. c * p \in Int /\ a * r \in Int
  OBVIOUS
<1> QED
  BY <1>5, <1>6, ProductShrinks

\* Every score is positive: no failure rate or pressure takes a utility to nothing.
LEMMA OfferNumbers ==
  ASSUME NEW o \in Offer
  PROVE  Gain(o) \in Nat /\ Scored(o) \in Nat /\ Scored(o) > 0 /\ Price(o) \in Nat
<1>1. /\ o.failing \in 0..9 /\ o.pressure \in 0..10 /\ o.weight \in 5..15
      /\ o.cost \in Nat /\ o.latency \in Nat /\ Alpha \in Nat /\ Beta \in Nat
  BY PlanAssumption DEF Offer
<1>2. 10 - o.failing \in Nat /\ 10 - o.failing > 0
      /\ 100 - 9 * o.pressure \in Nat /\ 100 - 9 * o.pressure > 0
  BY <1>1
<1>3. Gain(o) \in Nat /\ Gain(o) > 0
  BY <1>2, ProductNat, ProductPositive DEF Gain
<1>4. Scored(o) \in Nat /\ Scored(o) > 0
  BY <1>1, <1>3, ProductNat, ProductPositive DEF Scored
<1>5. Alpha * o.cost \in Nat /\ Beta * o.latency \in Nat
  BY <1>1, ProductNat
<1> QED
  BY <1>3, <1>4, <1>5 DEF Price

Priced == offers \in [Position -> Offer]

\* i is not below j, as the cross products say it.
LEMMA NotBelow ==
  ASSUME Priced, NEW i \in Position, NEW j \in Position
  PROVE  ~Above(j, i) <=>
           IF Price(offers[i]) = 0 \/ Price(offers[j]) = 0
           THEN Price(offers[i]) = 0 /\ (Price(offers[j]) = 0 => Scored(offers[j]) <= Scored(offers[i]))
           ELSE Scored(offers[j]) * Price(offers[i]) <= Scored(offers[i]) * Price(offers[j])
<1>1. offers[i] \in Offer /\ offers[j] \in Offer
  BY DEF Priced
<1>2. /\ Scored(offers[i]) \in Nat /\ Scored(offers[i]) > 0 /\ Price(offers[i]) \in Nat
      /\ Scored(offers[j]) \in Nat /\ Scored(offers[j]) > 0 /\ Price(offers[j]) \in Nat
  BY <1>1, OfferNumbers
<1>3. /\ Scored(offers[j]) * Price(offers[i]) \in Nat /\ Scored(offers[i]) * Price(offers[j]) \in Nat
  BY <1>2, ProductNat
<1> QED
  BY <1>2, <1>3 DEF Above

LEMMA NotBelowTransitive ==
  ASSUME Priced, NEW i \in Position, NEW j \in Position, NEW k \in Position,
         ~Above(j, i), ~Above(k, j)
  PROVE  ~Above(k, i)
<1> DEFINE a == Scored(offers[i])  b == Scored(offers[j])  c == Scored(offers[k])
           p == Price(offers[i])   q == Price(offers[j])   r == Price(offers[k])
<1>1. a \in Nat /\ b \in Nat /\ c \in Nat /\ p \in Nat /\ q \in Nat /\ r \in Nat
  BY OfferNumbers DEF Priced
<1>2. IF p = 0 \/ q = 0 THEN p = 0 /\ (q = 0 => b <= a) ELSE b * p <= a * q
  BY NotBelow
<1>3. IF q = 0 \/ r = 0 THEN q = 0 /\ (r = 0 => c <= b) ELSE c * q <= b * r
  BY NotBelow
<1>4. ~Above(k, i) <=> IF p = 0 \/ r = 0 THEN p = 0 /\ (r = 0 => c <= a) ELSE c * p <= a * r
  BY NotBelow
<1> HIDE DEF a, b, c, p, q, r
<1>5. CASE p # 0 /\ q # 0 /\ r # 0
  <2>1. c * p <= a * r
    BY <1>1, <1>2, <1>3, <1>5, CrossProducts
  <2> QED
    BY <1>4, <1>5, <2>1
<1>6. CASE p = 0 \/ q = 0 \/ r = 0
  BY <1>1, <1>2, <1>3, <1>4, <1>6
<1> QED
  BY <1>5, <1>6

LEMMA BeforeOrders ==
  ASSUME Priced
  PROVE  /\ \A i, j \in Position : Above(i, j) => ~Above(j, i)
         /\ \A i, j \in Position : i # j => Before(i, j) \/ Before(j, i)
         /\ \A i \in Position : ~Before(i, i)
         /\ \A i, j, k \in Position : Before(i, j) /\ Before(j, k) => Before(i, k)
<1>1. /\ \A i \in Position : Rank[i] \in Int
      /\ \A i, j \in Position : Rank[i] = Rank[j] => i = j
  BY PlanAssumption DEF Position
<1>2. ASSUME NEW i \in Position, NEW j \in Position, Above(i, j) PROVE ~Above(j, i)
  <2>1. /\ Scored(offers[i]) \in Nat /\ Price(offers[i]) \in Nat
        /\ Scored(offers[j]) \in Nat /\ Price(offers[j]) \in Nat
    BY OfferNumbers DEF Priced
  <2>2. Scored(offers[j]) * Price(offers[i]) \in Nat /\ Scored(offers[i]) * Price(offers[j]) \in Nat
    BY <2>1, ProductNat
  <2> QED
    BY <1>2, <2>1, <2>2 DEF Above
<1>3. \A i, j \in Position : i # j => Before(i, j) \/ Before(j, i)
  BY <1>1, <1>2 DEF Before
<1>4. \A i \in Position : ~Before(i, i)
  BY <1>1, <1>2 DEF Before
<1>5. ASSUME NEW i \in Position, NEW j \in Position, NEW k \in Position, Before(i, j), Before(j, k)
      PROVE  Before(i, k)
  <2>1. ~Above(j, i) /\ ~Above(k, j)
    BY <1>2, <1>5 DEF Before
  <2>2. ~Above(k, i)
    BY <2>1, NotBelowTransitive
  <2>3. CASE Rank[i] < Rank[j] /\ Rank[j] < Rank[k]
    <3>1. Rank[i] < Rank[k]
      BY <1>1, <2>3
    <3> QED
      BY <2>2, <3>1 DEF Before
  <2>4. CASE Above(i, j)
    <3>1. Above(i, k)
      BY <2>1, <2>4, NotBelowTransitive
    <3> QED
      BY <3>1 DEF Before
  <2>5. CASE Above(j, k)
    <3>1. Above(i, k)
      BY <2>1, <2>5, NotBelowTransitive
    <3> QED
      BY <3>1 DEF Before
  <2> QED
    BY <1>5, <2>3, <2>4, <2>5 DEF Before
<1> QED
  BY <1>2, <1>3, <1>4, <1>5

LEMMA AheadOrders ==
  ASSUME Priced, quotes \subseteq Position
  PROVE  /\ \A i, j \in Position : i # j => Ahead(i, j) \/ Ahead(j, i)
         /\ \A i \in Position : ~Ahead(i, i)
         /\ \A i, j, k \in Position : Ahead(i, j) /\ Ahead(j, k) => Ahead(i, k)
<1>1. Position \subseteq Int
  BY PlanAssumption DEF Position
<1>2. \A i, j \in Position : i # j => Ahead(i, j) \/ Ahead(j, i)
  BY <1>1, BeforeOrders DEF Ahead
<1>3. \A i \in Position : ~Ahead(i, i)
  BY <1>1, BeforeOrders DEF Ahead
<1>4. ASSUME NEW i \in Position, NEW j \in Position, NEW k \in Position, Ahead(i, j), Ahead(j, k)
      PROVE  Ahead(i, k)
  <2>1. CASE i \in quotes /\ k \in quotes
    <3>1. j \in quotes
      BY <1>4, <2>1 DEF Ahead
    <3>2. Before(i, j) /\ Before(j, k)
      BY <1>4, <2>1, <3>1 DEF Ahead
    <3> QED
      BY <2>1, <3>2, BeforeOrders DEF Ahead
  <2>2. CASE i \in quotes /\ k \notin quotes
    BY <2>2 DEF Ahead
  <2>3. CASE i \notin quotes
    <3>1. j \notin quotes /\ k \notin quotes /\ i < j /\ j < k
      BY <1>4, <2>3 DEF Ahead
    <3>2. i < k
      BY <1>1, <3>1
    <3> QED
      BY <2>3, <3>1, <3>2 DEF Ahead
  <2> QED
    BY <2>1, <2>2, <2>3
<1> QED
  BY <1>2, <1>3, <1>4

\* Each provider of S has one place, and who is ahead has an earlier one.
LEMMA PlacesOrdered ==
  ASSUME Priced, quotes \subseteq Position, NEW S \in SUBSET Position
  PROVE  /\ \A i \in S : Place(i, S) \in 1..Cardinality(S)
         /\ \A i, j \in S : Ahead(i, j) => Place(i, S) < Place(j, S)
         /\ \A n \in 1..Cardinality(S) : \E i \in S : Place(i, S) = n
<1> DEFINE Early(i) == {j \in S : Ahead(j, i)}
<1>1. IsFiniteSet(S) /\ Cardinality(S) \in Nat
  <2>1. IsFiniteSet(Position)
    BY PlanAssumption, FS_Interval DEF Position
  <2> QED
    BY <2>1, FS_Subset, FS_CardinalityType
<1>2. \A i \in S : Early(i) \in SUBSET S /\ i \notin Early(i) /\ Place(i, S) = Cardinality(Early(i)) + 1
  BY AheadOrders DEF Place
<1>3. ASSUME NEW i \in S, NEW j \in S, Ahead(i, j)
      PROVE  Early(i) \in SUBSET Early(j) /\ i \in Early(j)
  BY <1>3, AheadOrders
<1> HIDE DEF Early
<1>4. ASSUME NEW i \in S
      PROVE  IsFiniteSet(Early(i)) /\ Cardinality(Early(i)) \in Nat /\ Cardinality(Early(i)) < Cardinality(S)
  <2>1. IsFiniteSet(Early(i)) /\ Cardinality(Early(i)) <= Cardinality(S)
        /\ (Cardinality(S) = Cardinality(Early(i)) => S = Early(i))
    BY <1>1, <1>2, FS_Subset
  <2>2. Cardinality(Early(i)) \in Nat
    BY <2>1, FS_CardinalityType
  <2> QED
    BY <1>1, <1>2, <2>1, <2>2
<1>5. \A i \in S : Place(i, S) \in 1..Cardinality(S)
  BY <1>1, <1>2, <1>4
<1>6. ASSUME NEW i \in S, NEW j \in S, Ahead(i, j) PROVE Place(i, S) < Place(j, S)
  <2>1. Cardinality(Early(i)) <= Cardinality(Early(j))
        /\ (Cardinality(Early(j)) = Cardinality(Early(i)) => Early(j) = Early(i))
    BY <1>3, <1>4, <1>6, FS_Subset
  <2>2. Early(j) # Early(i)
    BY <1>2, <1>3, <1>6
  <2> QED
    BY <1>2, <1>4, <2>1, <2>2
<1>7. ASSUME NEW n \in 1..Cardinality(S) PROVE \E i \in S : Place(i, S) = n
  <2> DEFINE f == [i \in S |-> Place(i, S)]
             T == 1..Cardinality(S)
  <2>1. \A i, j \in S : i # j => Place(i, S) # Place(j, S)
    <3> SUFFICES ASSUME NEW i \in S, NEW j \in S, i # j PROVE Place(i, S) # Place(j, S)
      OBVIOUS
    <3>1. Ahead(i, j) \/ Ahead(j, i)
      BY AheadOrders
    <3>2. Place(i, S) \in Int /\ Place(j, S) \in Int
      BY <1>5
    <3> QED
      BY <1>6, <3>1, <3>2
  <2>2. f \in Injection(S, T)
    BY <1>5, <2>1 DEF Injection, IsInjective
  <2>3. IsFiniteSet(T) /\ Cardinality(T) = Cardinality(S)
    <3>1. IsFiniteSet(T) /\ Cardinality(T) = IF 1 > Cardinality(S) THEN 0 ELSE Cardinality(S) - 1 + 1
      BY ONLY <1>1, FS_Interval, SMTT(20)
    <3> QED
      BY <1>1, <3>1, FS_Interval
  <2> HIDE DEF f
  <2>4. f \in Surjection(S, T)
    BY <2>2, <2>3, FS_Injection
  <2>5. PICK i \in S : f[i] = n
    BY <2>4 DEF Surjection
  <2> QED
    BY <2>5 DEF f
<1> QED
  BY <1>5, <1>6, <1>7

LEMMA OrderedPlaces ==
  ASSUME Priced, quotes \subseteq Position, NEW S \in SUBSET Position
  PROVE  /\ DOMAIN Ordered(S) = 1..Cardinality(S)
         /\ \A n \in DOMAIN Ordered(S) : Ordered(S)[n] \in S /\ Place(Ordered(S)[n], S) = n
BY PlacesOrdered DEF Ordered

\* Who is nowhere worse and comes first of equals is ahead.
LEMMA DominantAhead ==
  ASSUME Priced, quotes = Fitting(offers), NEW i \in Position, NEW j \in Position,
         Dominates(i, j), FirstOfEquals(i, j)
  PROVE  Ahead(i, j)
<1> DEFINE a == offers[i]  b == offers[j]
<1>1. a \in Offer /\ b \in Offer /\ a.fits \in BOOLEAN /\ b.fits \in BOOLEAN
  BY DEF Priced, Offer
<1>2. /\ a.failing \in 0..9 /\ a.pressure \in 0..10 /\ a.weight \in 5..15
      /\ b.failing \in 0..9 /\ b.pressure \in 0..10 /\ b.weight \in 5..15
      /\ a.cost \in Nat /\ a.latency \in Nat /\ b.cost \in Nat /\ b.latency \in Nat
      /\ Alpha \in Nat /\ Beta \in Nat
  BY <1>1, PlanAssumption DEF Offer
<1>3. /\ a.cost <= b.cost /\ a.latency <= b.latency /\ a.failing <= b.failing
      /\ a.pressure <= b.pressure /\ b.weight <= a.weight
  BY <1>2 DEF Dominates
<1>4. \/ i \in quotes /\ (j \in quotes => Rank[i] < Rank[j])
      \/ i \notin quotes /\ j \notin quotes /\ i < j
  BY DEF Dominates, Fitting, FirstOfEquals
<1>5. Price(a) <= Price(b) /\ Price(a) \in Nat /\ Price(b) \in Nat
  <2>1. Alpha * a.cost <= Alpha * b.cost /\ Beta * a.latency <= Beta * b.latency
    BY <1>2, <1>3, ProductGrows
  <2>2. Alpha * a.cost \in Nat /\ Alpha * b.cost \in Nat /\ Beta * a.latency \in Nat /\ Beta * b.latency \in Nat
    BY <1>2, ProductNat
  <2> QED
    BY <2>1, <2>2 DEF Price
<1>6. Scored(b) <= Scored(a) /\ Scored(a) \in Nat /\ Scored(b) \in Nat
  <2>1. Gain(b) <= Gain(a)
    <3> DEFINE x == 10 - b.failing  y == 10 - a.failing
               u == 100 - 9 * b.pressure  v == 100 - 9 * a.pressure
    <3>1. x \in Nat /\ y \in Nat /\ u \in Nat /\ v \in Nat /\ x <= y /\ u <= v
      <4> HIDE DEF a, b
      <4>1. x \in Nat /\ y \in Nat
        BY <1>2
      <4>2. u \in Nat /\ v \in Nat
        BY <1>2
      <4>3. x <= y
        BY <1>2, <1>3
      <4>4. u <= v
        BY <1>2, <1>3
      <4> QED
        BY <4>1, <4>2, <4>3, <4>4
    <3> HIDE DEF x, y, u, v
    <3>2. x * u <= y * u /\ y * u <= y * v
      BY <3>1, ProductGrows
    <3>3. x * u \in Nat /\ y * u \in Nat /\ y * v \in Nat
      BY <3>1, ProductNat
    <3>4. x * u <= y * v
      BY <3>2, <3>3
    <3> QED
      BY <3>4 DEF Gain, x, y, u, v
  <2>2. Gain(a) \in Nat /\ Gain(b) \in Nat /\ Scored(a) \in Nat /\ Scored(b) \in Nat
    BY <1>1, OfferNumbers
  <2> HIDE DEF a, b
  <2>3. a.weight \in Nat /\ b.weight \in Nat
    BY <1>2
  <2>4. Gain(b) * b.weight <= Gain(a) * b.weight /\ Gain(a) * b.weight <= Gain(a) * a.weight
    BY <1>3, <2>1, <2>2, <2>3, ProductGrows
  <2>5. Gain(b) * b.weight \in Nat /\ Gain(a) * b.weight \in Nat /\ Gain(a) * a.weight \in Nat
    BY <2>2, <2>3, ProductNat
  <2> QED
    BY <2>2, <2>4, <2>5 DEF Scored
<1>7. ~Above(j, i)
  <2>1. Scored(b) * Price(a) <= Scored(a) * Price(b)
    <3> HIDE DEF a, b
    <3>1. Scored(b) * Price(a) <= Scored(a) * Price(a) /\ Scored(a) * Price(a) <= Scored(a) * Price(b)
      BY <1>5, <1>6, ProductGrows
    <3>2. Scored(b) * Price(a) \in Nat /\ Scored(a) * Price(a) \in Nat /\ Scored(a) * Price(b) \in Nat
      BY <1>5, <1>6, ProductNat
    <3> QED
      BY <3>1, <3>2
  <2>2. Price(b) = 0 => Price(a) = 0
    BY <1>5
  <2> QED
    BY <1>6, <2>1, <2>2, NotBelow
<1> QED
  BY <1>4, <1>7 DEF Ahead, Before

-----------------------------------------------------------------------------
(* The plan. *)

LEMMA PlanInitInv == PlanInit => PlanInv
BY DEF PlanInit, PlanInv, PlanTypeOK

LEMMA PlanStep == PlanInv /\ [PlanNext]_planVars => PlanInv'
<1> SUFFICES ASSUME PlanInv, [PlanNext]_planVars PROVE PlanInv'
  OBVIOUS
<1>1. CASE PriceChain
  <2>1. offers' \in [Position -> Offer] /\ quotes' = Fitting(offers') /\ stage' = "order" /\ plan' = plan
        /\ plan = <<>>
    BY <1>1 DEF PriceChain, PlanInv
  <2> QED
    BY <2>1 DEF PlanInv, PlanTypeOK, Fitting
<1>2. CASE Sentinel
  <2>1. AllTooDear /\ stage' = "blocked" /\ UNCHANGED <<offers, quotes, plan>> /\ stage = "order"
    BY <1>2 DEF Sentinel, AllTooDear
  <2>2. AllTooDear'
    BY <2>1 DEF AllTooDear, OverBudget
  <2> QED
    BY <2>1, <2>2 DEF PlanInv, PlanTypeOK
<1>3. CASE OrderChain
  <2>1. ~AllTooDear /\ stage' = "planned" /\ UNCHANGED <<offers, quotes>> /\ stage = "order"
        /\ plan' = Ordered(Position \ OverBudget)
    BY <1>3 DEF OrderChain, AllTooDear
  <2>2. ~AllTooDear' /\ OverBudget' = OverBudget
    BY <2>1 DEF AllTooDear, OverBudget
  <2>3. Ordered(Position \ OverBudget)' = Ordered(Position \ OverBudget)
    BY <2>1, <2>2 DEF Ordered, Place, Ahead, Before, Above
  <2> QED
    BY <2>1, <2>2, <2>3 DEF PlanInv, PlanTypeOK
<1>4. CASE UNCHANGED planVars
  <2>1. UNCHANGED <<offers, stage, quotes, plan>>
    BY <1>4 DEF planVars
  <2>2. AllTooDear' = AllTooDear /\ OverBudget' = OverBudget
    BY <2>1 DEF AllTooDear, OverBudget
  <2>3. Ordered(Position \ OverBudget)' = Ordered(Position \ OverBudget)
    BY <2>1, <2>2 DEF Ordered, Place, Ahead, Before, Above
  <2> QED
    BY <2>1, <2>2, <2>3 DEF PlanInv, PlanTypeOK
<1> QED
  BY <1>1, <1>2, <1>3, <1>4 DEF PlanNext

LEMMA PlanInvariant == PlanSpec => []PlanInv
BY PlanInitInv, PlanStep, PTL DEF PlanSpec

\* What the plan holds when there is one.
LEMMA PlanHolds ==
  ASSUME PlanInv, plan # <<>>
  PROVE  /\ Priced /\ quotes = Fitting(offers) /\ quotes \subseteq Position
         /\ \A n \in DOMAIN plan : plan[n] \in Position \ OverBudget
                                   /\ Place(plan[n], Position \ OverBudget) = n
<1>1. stage = "planned" /\ plan = Ordered(Position \ OverBudget)
  BY DEF PlanInv
<1>2. Priced /\ quotes = Fitting(offers) /\ quotes \subseteq Position
  BY <1>1 DEF PlanInv, PlanTypeOK, Priced
<1>3. Position \ OverBudget \in SUBSET Position
  OBVIOUS
<1> QED
  BY <1>1, <1>2, <1>3, OrderedPlaces

\* The order of the attempts puts no provider behind one that it beats or equals in everything, but where
\* that one comes first of equals, for any chain, priorities, offers and weights (pricing.rs:363-424,
\* engine.rs:1438-1473).
THEOREM BetterOnesFirst == PlanSpec => []BetterFirst
<1>1. PlanInv => BetterFirst
  <2> SUFFICES ASSUME PlanInv, NEW m \in DOMAIN plan, NEW n \in DOMAIN plan,
                      Dominates(plan[m], plan[n]), FirstOfEquals(plan[m], plan[n])
               PROVE  m < n
    BY DEF BetterFirst
  <2> DEFINE S == Position \ OverBudget
  <2>1. plan # <<>>
    OBVIOUS
  <2>2. /\ Priced /\ quotes = Fitting(offers) /\ quotes \subseteq Position
        /\ plan[m] \in S /\ plan[n] \in S /\ Place(plan[m], S) = m /\ Place(plan[n], S) = n
    BY <2>1, PlanHolds
  <2>3. Ahead(plan[m], plan[n])
    BY <2>2, DominantAhead
  <2>4. S \in SUBSET Position
    OBVIOUS
  <2> HIDE DEF S
  <2>5. Place(plan[m], S) < Place(plan[n], S)
    BY <2>2, <2>3, <2>4, PlacesOrdered
  <2> QED
    BY <2>2, <2>5
<1> QED
  BY <1>1, PlanInvariant, PTL

\* The ceiling holds for what is planned and for what is blocked, whatever the chain and the ceiling
\* (engine.rs:665-712, nativeapp.rs:2424-2498).
THEOREM BudgetKept == PlanSpec => []BudgetHolds
<1>1. PlanInv => BudgetHolds
  <2> SUFFICES ASSUME PlanInv PROVE BudgetHolds
    OBVIOUS
  <2>1. ASSUME MaxCost > 0, NEW n \in DOMAIN plan
        PROVE  offers[plan[n]].cost <= MaxCost \/ ~offers[plan[n]].fits
    <3>1. plan # <<>>
      BY <2>1
    <3>2. Priced /\ quotes = Fitting(offers) /\ plan[n] \in Position /\ plan[n] \notin OverBudget
      BY <3>1, PlanHolds
    <3>3. offers[plan[n]].cost \in Nat /\ MaxCost \in Nat
      BY <3>2, PlanAssumption DEF Priced, Offer
    <3> QED
      BY <2>1, <3>2, <3>3 DEF OverBudget, TooDear, Fitting
  <2>2. ASSUME stage = "planned", BatchBlocked PROVE quotes = {}
    <3>1. ~AllTooDear /\ quotes \subseteq Position
      BY <2>2 DEF PlanInv, PlanTypeOK
    <3>2. ASSUME quotes # {} PROVE FALSE
      <4>1. MaxCost > 0 /\ OverBudget = quotes
        BY <2>2, <3>1, <3>2 DEF BatchBlocked, OverBudget, TooDear
      <4> QED
        BY <3>1, <3>2, <4>1 DEF AllTooDear
    <3> QED
      BY <3>2
  <2>3. ASSUME stage = "blocked", quotes = Position PROVE BatchBlocked
    BY <2>3 DEF PlanInv, AllTooDear, BatchBlocked, OverBudget, TooDear
  <2> QED
    BY <2>1, <2>2, <2>3 DEF BudgetHolds
<1> QED
  BY <1>1, PlanInvariant, PTL

-----------------------------------------------------------------------------
(***************************************************************************)
(* What a profile reports depends on the reply alone: for any number of    *)
(* profiles that read it side by side, chunk by chunk, and any limit.      *)
(***************************************************************************)

Verdicts == [kind : {"", "rateLimited", "auth", "unavailable", "http", "other", "answer"},
             after : Hints \union {NoHint, 0}]
AdapterTypeOK ==
  /\ reply \in Reply /\ profile \in [Profiles -> Profile]
  /\ got \in [Profiles -> 0..Limit]
  /\ told \in [Profiles -> Verdicts]

\* What an adapter reported follows from the reply and from how much of it was read.
Settled(n) ==
  \/ told[n] = Untold
  \/ told[n].kind = "unavailable"
  \/ profile[n].adapter = "mock"
  \/ reply.status # 200 /\ told[n] = Classify(reply.status, reply.header)
  \/ reply.status = 200 /\ got[n] < reply.size /\ told[n] = Other
  \/ reply.status = 200 /\ got[n] = reply.size /\ told[n] = Decoded(Wire(profile[n]), reply.body)

AdapterInv == AdapterTypeOK /\ \A n \in Profiles : Settled(n)

LEMMA VerdictParts ==
  /\ Untold \in Verdicts /\ Untold.kind = ""
  /\ Other \in Verdicts /\ Other.kind = "other"
  /\ \A after \in Hints \union {NoHint, 0} :
       \A kind \in {"", "rateLimited", "auth", "unavailable", "http", "other", "answer"} :
         Told(kind, after) \in Verdicts /\ Told(kind, after).kind = kind
  BY DEF Verdicts, Told, Untold, Other

LEMMA DecodedKinds ==
  ASSUME NEW wire, NEW body \in Bodies
  PROVE  /\ Decoded(wire, body) \in Verdicts
         /\ Decoded(wire, body).kind \in {"answer", "other"}
         /\ Decoded(wire, body).kind = "answer" => body \in {"hollow", "blank", "text"}
<1>1. Told("answer", NoHint) \in Verdicts /\ Told("answer", NoHint).kind = "answer"
  BY VerdictParts
<1>2. Decoded(wire, body) \in {Told("answer", NoHint), Other}
  BY DEF Decoded, Bodies
<1>3. body \in {"garbled", "error", "empty"} => Decoded(wire, body) = Other
  BY DEF Decoded
<1> QED
  BY <1>1, <1>2, <1>3, VerdictParts DEF Bodies

LEMMA ClassifiedKinds ==
  ASSUME NEW status \in Int, NEW header \in Headers
  PROVE  Classify(status, header) \in Verdicts /\ Classify(status, header).kind # "answer"
<1>1. RetryAfter(header) \in Hints \union {NoHint, 0}
  BY DEF RetryAfter, Headers
<1>2. Classify(status, header) \in {Told("rateLimited", RetryAfter(header)), Told("auth", NoHint),
                                    Told("unavailable", NoHint), Told("http", NoHint)}
  BY DEF Classify
<1> QED
  BY <1>1, <1>2, VerdictParts

LEMMA AdapterInitInv == AdapterInit => AdapterInv
<1> SUFFICES ASSUME AdapterInit PROVE AdapterInv
  OBVIOUS
<1>1. AdapterTypeOK
  <2>1. reply \in Reply /\ profile \in [Profiles -> Profile]
    BY DEF AdapterInit
  <2>2. got \in [Profiles -> 0..Limit]
    BY AdapterAssumption DEF AdapterInit
  <2>3. told \in [Profiles -> Verdicts]
    BY VerdictParts DEF AdapterInit
  <2> QED
    BY <2>1, <2>2, <2>3 DEF AdapterTypeOK
<1>2. \A n \in Profiles : told[n] = Untold
  BY DEF AdapterInit
<1> QED
  BY <1>1, <1>2 DEF AdapterInv, Settled

\* An adapter reports once and leaves the others alone.
LEMMA TellsOnce ==
  ASSUME AdapterInv, NEW n \in Profiles, Pending(n), UNCHANGED <<profile, reply>>,
         got' \in [Profiles -> 0..Limit], \A m \in Profiles : m # n => got'[m] = got[m],
         NEW t \in Verdicts,
         told' = [told EXCEPT ![n] = t], Settled(n)'
  PROVE  AdapterInv'
<1>1. AdapterTypeOK'
  BY DEF AdapterInv, AdapterTypeOK
<1>2. ASSUME NEW m \in Profiles, m # n PROVE Settled(m)'
  <2>1. told'[m] = told[m] /\ got'[m] = got[m] /\ Settled(m)
    BY <1>2 DEF AdapterInv, AdapterTypeOK
  <2> QED
    BY <2>1 DEF Settled
<1> QED
  BY <1>1, <1>2 DEF AdapterInv

LEMMA AdapterStep == AdapterInv /\ [AdapterNext]_adapterVars => AdapterInv'
<1>1. ASSUME AdapterInv, UNCHANGED adapterVars PROVE AdapterInv'
  BY <1>1 DEF adapterVars, AdapterInv, AdapterTypeOK, Settled
<1>2. ASSUME AdapterInv, NEW n \in Profiles,
             SendFails(n) \/ StatusFails(n) \/ Chunk(n) \/ ReadFails(n) \/ Decode(n) \/ MockAnswers(n)
      PROVE  AdapterInv'
  <2>1. /\ Pending(n) /\ UNCHANGED <<profile, reply>>
        /\ got \in [Profiles -> 0..Limit] /\ told \in [Profiles -> Verdicts] /\ reply \in Reply
        /\ told[n] = Untold
    BY <1>2 DEF AdapterInv, AdapterTypeOK, SendFails, StatusFails, Chunk, ReadFails, Decode,
                MockAnswers, Reading, Pending
  <2>2. ASSUME NEW t \in Verdicts, told' = [told EXCEPT ![n] = t] PROVE told'[n] = t
    BY <2>1, <2>2
  <2>3. CASE SendFails(n)
    <3> DEFINE t == Told("unavailable", NoHint)
    <3>1. t \in Verdicts /\ told' = [told EXCEPT ![n] = t] /\ got' = got /\ t.kind = "unavailable"
      BY <2>3, VerdictParts DEF SendFails, Tell
    <3> HIDE DEF t
    <3>2. told'[n].kind = "unavailable"
      BY <2>2, <3>1
    <3> QED
      BY <1>2, <2>1, <3>1, <3>2, TellsOnce DEF Settled
  <2>4. CASE StatusFails(n)
    <3> DEFINE t == Classify(reply.status, reply.header)
    <3>1. t \in Verdicts
      <4>1. reply.header \in Headers /\ reply.status \in Int
        BY <2>1 DEF Reply
      <4> QED
        BY <4>1, ClassifiedKinds
    <3>2. told' = [told EXCEPT ![n] = t] /\ got' = got /\ reply.status # 200
      BY <2>4 DEF StatusFails, Tell
    <3> HIDE DEF t
    <3>3. told'[n] = t
      BY <2>2, <3>1, <3>2
    <3>4. Settled(n)'
      BY <2>1, <3>2, <3>3 DEF Settled, t
    <3> QED
      BY <1>2, <2>1, <3>1, <3>2, <3>4, TellsOnce
  <2>5. CASE Chunk(n)
    <3>1. PICK k \in 1..(reply.size - got[n]) :
            IF got[n] + k > Limit
            THEN told' = [told EXCEPT ![n] = Other] /\ got' = got
            ELSE got' = [got EXCEPT ![n] = @ + k] /\ told' = told
      BY <2>5 DEF Chunk, Tell
    <3>2. reply.size \in Nat /\ got[n] \in 0..Limit /\ reply.status = 200
      BY <2>1, <2>5, AdapterAssumption DEF Reply, Chunk, Reading
    <3>3. Other \in Verdicts
      BY VerdictParts
    <3>4. CASE got[n] + k > Limit
      <4>1. told' = [told EXCEPT ![n] = Other] /\ got' = got /\ got[n] < reply.size
        BY <3>1, <3>2, <3>4
      <4>2. Settled(n)'
        BY <2>1, <2>2, <3>2, <3>3, <4>1 DEF Settled
      <4> QED
        BY <1>2, <2>1, <3>3, <4>1, <4>2, TellsOnce
    <3>5. CASE ~(got[n] + k > Limit)
      <4>1. got' = [got EXCEPT ![n] = got[n] + k] /\ told' = told
        BY <3>1, <3>5
      <4>2. got[n] + k \in 0..Limit
        BY <3>2, <3>5, AdapterAssumption
      <4>3. got' \in [Profiles -> 0..Limit] /\ \A m \in Profiles : m # n => got'[m] = got[m]
        BY <2>1, <4>1, <4>2
      <4>4. told' = [told EXCEPT ![n] = told[n]] /\ told[n] \in Verdicts
        BY <2>1, <4>1
      <4>5. Settled(n)'
        BY <2>1, <4>1 DEF Settled
      <4> QED
        BY <1>2, <2>1, <4>3, <4>4, <4>5, TellsOnce
    <3> QED
      BY <3>4, <3>5
  <2>6. CASE ReadFails(n)
    <3>1. /\ Other \in Verdicts /\ told' = [told EXCEPT ![n] = Other] /\ got' = got
          /\ reply.status = 200 /\ got[n] < reply.size
      BY <2>6, VerdictParts DEF ReadFails, Reading, Tell
    <3>2. Settled(n)'
      BY <2>1, <2>2, <3>1 DEF Settled
    <3> QED
      BY <1>2, <2>1, <3>1, <3>2, TellsOnce
  <2>7. CASE Decode(n)
    <3> DEFINE t == Decoded(Wire(profile[n]), reply.body)
    <3>1. reply.body \in Bodies
      BY <2>1 DEF Reply
    <3>2. t \in Verdicts
      BY <3>1, DecodedKinds
    <3>3. told' = [told EXCEPT ![n] = t] /\ got' = got /\ reply.status = 200 /\ got[n] = reply.size
      BY <2>7 DEF Decode, Reading, Tell
    <3> HIDE DEF t
    <3>4. told'[n] = t
      BY <2>2, <3>2, <3>3
    <3>5. Settled(n)'
      BY <2>1, <3>3, <3>4 DEF Settled, t
    <3> QED
      BY <1>2, <2>1, <3>2, <3>3, <3>5, TellsOnce
  <2>8. CASE MockAnswers(n)
    <3> DEFINE t == Told("answer", NoHint)
    <3>1. t \in Verdicts /\ told' = [told EXCEPT ![n] = t] /\ got' = got /\ profile[n].adapter = "mock"
      BY <2>8, VerdictParts DEF MockAnswers, Tell
    <3> HIDE DEF t
    <3>2. Settled(n)'
      BY <2>1, <3>1 DEF Settled
    <3> QED
      BY <1>2, <2>1, <3>1, <3>2, TellsOnce
  <2> QED
    BY <1>2, <2>3, <2>4, <2>5, <2>6, <2>7, <2>8
<1> QED
  BY <1>1, <1>2 DEF AdapterNext

\* Adapters that heard one reply report one verdict, for any profiles, hints and limit, in whatever pieces
\* the body came (provider.rs, classify_status, read_response_limit and the three decoders).
THEOREM OneVerdict == AdapterSpec => []SameVerdict
<1>1. AdapterInv => SameVerdict
  <2> SUFFICES ASSUME AdapterInv PROVE SameVerdict
    OBVIOUS
  <2>1. reply.body \in Bodies /\ reply.size \in Nat
    BY AdapterAssumption DEF AdapterInv, AdapterTypeOK, Reply
  <2>2. ASSUME NEW n \in Profiles, Heard(n)
        PROVE  \/ reply.status # 200 /\ told[n] = Classify(reply.status, reply.header)
               \/ reply.status = 200 /\ told[n] = Decoded(Wire(profile[n]), reply.body)
    <3>1. Settled(n) /\ told[n].kind # "" /\ told[n].kind # "unavailable"
          /\ profile[n].adapter # "mock" /\ (reply.status = 200 => got[n] = reply.size)
      BY <2>2 DEF AdapterInv, Heard
    <3>2. told[n] # Untold
      BY <3>1, VerdictParts
    <3>3. ASSUME reply.status = 200 PROVE ~(got[n] < reply.size)
      <4>1. got[n] = reply.size
        BY <3>1, <3>3
      <4> QED
        BY <2>1, <4>1
    <3> QED
      BY <3>1, <3>2, <3>3 DEF Settled
  <2>3. ASSUME NEW m \in Profiles, NEW n \in Profiles, Heard(m), Heard(n)
        PROVE  \/ told[m] = told[n]
               \/ reply.status = 200 /\ reply.body \in {"hollow", "blank"}
                    /\ {told[m].kind, told[n].kind} \subseteq {"answer", "other"}
    <3>1. CASE reply.status # 200
      BY <2>2, <2>3, <3>1
    <3>2. CASE reply.status = 200
      <4>1. told[m] = Decoded(Wire(profile[m]), reply.body) /\ told[n] = Decoded(Wire(profile[n]), reply.body)
        BY <2>2, <2>3, <3>2
      <4>2. CASE reply.body \in {"garbled", "error", "empty", "text"}
        BY <4>1, <4>2 DEF Decoded
      <4>3. CASE reply.body \in {"hollow", "blank"}
        BY <2>1, <3>2, <4>1, <4>3, DecodedKinds
      <4> QED
        BY <2>1, <4>2, <4>3 DEF Bodies
    <3> QED
      BY <3>1, <3>2
  <2>4. ASSUME NEW n \in Profiles, profile[n].adapter # "mock", told[n].kind = "answer"
        PROVE  reply.status = 200 /\ reply.size <= Limit /\ reply.body \in {"hollow", "blank", "text"}
    <3>1. Settled(n)
      BY DEF AdapterInv
    <3>2. told[n] # Untold /\ told[n] # Other
      BY <2>4, VerdictParts
    <3>3. told[n] # Classify(reply.status, reply.header)
      <4>1. reply.header \in Headers /\ reply.status \in Int
        BY DEF AdapterInv, AdapterTypeOK, Reply
      <4> QED
        BY <2>4, <4>1, ClassifiedKinds
    <3>4. reply.status = 200 /\ got[n] = reply.size /\ told[n] = Decoded(Wire(profile[n]), reply.body)
      BY <2>4, <3>1, <3>2, <3>3 DEF Settled
    <3>5. got[n] <= Limit
      BY AdapterAssumption DEF AdapterInv, AdapterTypeOK
    <3>6. reply.body \in {"hollow", "blank", "text"}
      BY <2>1, <2>4, <3>4, DecodedKinds
    <3> QED
      BY <3>4, <3>5, <3>6
  <2> QED
    BY <2>3, <2>4 DEF SameVerdict
<1> QED
  BY <1>1, AdapterInitInv, AdapterStep, PTL DEF AdapterSpec
=============================================================================
