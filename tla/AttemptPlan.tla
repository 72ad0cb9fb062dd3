---------------------------- MODULE AttemptPlan ----------------------------
(***************************************************************************)
(* From the provider chain of a route to the order in which Engine::run    *)
(* tries it: shadow pricing (Engine::quote, pricing::quote_all), the       *)
(* budget sentinel and the bandit's weights (ordered_providers_banditized);*)
(* beside it, what the batch planner of the desktop application says of    *)
(* the same request (src/src/nativeapp.rs).                                *)
(*                                                                         *)
(* A utility is kept as a fraction; latency, failure rate, quota pressure  *)
(* and mean reward are small integers instead of floating-point averages.  *)
(***************************************************************************)
EXTENDS Integers, Sequences, FiniteSets

CONSTANTS
  Chain,     \* the providers: the rule's, its fallbacks, then the others by priority
  Rank,      \* the place of each of them by priority and name alone
  Costs,     \* estimated cost of the request
  Latencies,
  Failures,  \* failed calls out of 10
  Pressures, \* tenths of the quota used
  Weights,   \* exploitation weight in tenths; 10 for an arm never pulled
  Alpha, Beta,
  MaxCost    \* policy.max_cost_per_task_usd; 0 disables the sentinel

ASSUME PlanAssumption ==
  /\ DOMAIN Chain = 1..Len(Chain) /\ Len(Chain) \in Nat
  /\ Rank \in [DOMAIN Chain -> Nat] /\ \A i, j \in DOMAIN Chain : Rank[i] = Rank[j] => i = j
  /\ Costs \subseteq Nat /\ Latencies \subseteq Nat
  /\ Failures \subseteq 0..9 /\ Pressures \subseteq 0..10 /\ Weights \subseteq 5..15
  /\ Alpha \in Nat /\ Beta \in Nat /\ Alpha + Beta > 0 /\ MaxCost \in Nat

VARIABLES
  offers,  \* what is known of each provider of the chain
  stage,   \* "price", "order", "planned" or "blocked"
  quotes,  \* the providers that are priced
  plan     \* the order of the attempts

planVars == <<offers, stage, quotes, plan>>

Position == DOMAIN Chain
Offer == [cost : Costs, latency : Latencies, failing : Failures, pressure : Pressures,
          weight : Weights, fits : BOOLEAN]

-----------------------------------------------------------------------------
(* quote_all. *)

\* Mutant: a provider under pressure is preferred.
GainPressed(o) == (10 - o.failing) * (100 + 9 * o.pressure)

\* What a provider delivers and what it takes: confidence is the same for all.
Gain(o) == (10 - o.failing) * (100 - 9 * o.pressure)
Price(o) == Alpha * o.cost + Beta * o.latency

\* i has a higher weighted utility than j.  A price of nothing is one of almost
\* nothing (the 1e-9 of the code), for which the products are compared.
Scored(o) == Gain(o) * o.weight
Above(i, j) ==
  LET a == offers[i]  b == offers[j]
  IN IF Price(a) = 0 \/ Price(b) = 0
     THEN IF Price(a) = Price(b) THEN Scored(a) > Scored(b)
          ELSE Price(a) = 0 /\ Scored(a) > 0
     ELSE Scored(a) * Price(b) > Scored(b) * Price(a)

\* Ties go by priority, then by name, wherever the chain has them.
Before(i, j) == Above(i, j) \/ (~Above(j, i) /\ Rank[i] < Rank[j])

-----------------------------------------------------------------------------
PlanInit ==
  /\ offers = <<>> /\ stage = "price"
  /\ quotes = {} /\ plan = <<>>

Fitting(os) == {i \in Position : os[i].fits}

PriceChain ==
  /\ stage = "price"
  /\ offers' \in [Position -> Offer]
  /\ quotes' = Fitting(offers')
  /\ stage' = "order"
  /\ UNCHANGED plan

\* The quoted providers in the order of their weighted utility, then the others in
\* the order of the chain.
Ahead(i, j) ==
  IF i \in quotes /\ j \in quotes THEN Before(i, j) ELSE i \in quotes \/ (j \notin quotes /\ i < j)

\* The place of i among the providers S, and the providers in their places.
Place(i, S) == Cardinality({j \in S : Ahead(j, i)}) + 1
Ordered(S) == [n \in 1..Cardinality(S) |-> CHOOSE i \in S : Place(i, S) = n]

-----------------------------------------------------------------------------
(* The budget. *)

\* Mutant: an estimate of exactly the ceiling is over it.
TooDearAtCeiling(o) == MaxCost > 0 /\ o.cost >= MaxCost

TooDear(o) == MaxCost > 0 /\ o.cost > MaxCost

\* Only a provider with a quote can be over the budget.
OverBudget == {i \in quotes : TooDear(offers[i])}

\* Every quote is: the run ends here and costs nothing.
Sentinel ==
  /\ stage = "order"
  /\ MaxCost > 0 /\ quotes # {} /\ OverBudget = quotes
  /\ stage' = "blocked"
  /\ UNCHANGED <<offers, quotes, plan>>

OrderChain ==
  /\ stage = "order"
  /\ ~(MaxCost > 0 /\ quotes # {} /\ OverBudget = quotes)
  /\ plan' = Ordered(Position \ OverBudget)
  /\ stage' = "planned"
  /\ UNCHANGED <<offers, quotes>>

\* The batch planner prices the whole chain, whether the request fits or not.
BatchBlocked == \A i \in Position : MaxCost > 0 /\ offers[i].cost > MaxCost

PlanNext == PriceChain \/ Sentinel \/ OrderChain
PlanSpec == PlanInit /\ [][PlanNext]_planVars

-----------------------------------------------------------------------------
(* Properties. *)

\* i is nowhere worse than j.
Dominates(i, j) ==
  LET a == offers[i]  b == offers[j]
  IN /\ a.cost <= b.cost /\ a.latency <= b.latency /\ a.failing <= b.failing
     /\ a.pressure <= b.pressure /\ a.weight >= b.weight
     /\ a.fits \/ ~b.fits

\* Between equals: one that is priced before one that is not, two that are by
\* priority and name, two that are not by the chain.
FirstOfEquals(i, j) ==
  IF offers[i].fits THEN offers[j].fits => Rank[i] < Rank[j] ELSE i < j

\* The order of the attempts never puts a provider behind one that it beats or
\* equals in everything, a larger context among it, but where that one comes
\* first of equals: neither pricing, nor the bandit, nor the tail of providers the
\* pricer has dropped, nor the place the routing rule gives a provider in the
\* chain turns a comparison around (pricing.rs:363-424, engine.rs:1438-1473).
BetterFirst ==
  \A m, n \in DOMAIN plan :
    Dominates(plan[m], plan[n]) /\ FirstOfEquals(plan[m], plan[n]) => m < n

\* No call is planned above the ceiling, but to a provider that was never
\* priced; a row that the batch planner marks as blocked is a run that spends
\* nothing, if the request fits any provider, and where it fits them all no
\* other row is (engine.rs:665-712, nativeapp.rs:2424-2498).
BudgetHolds ==
  /\ MaxCost > 0 =>
       \A n \in DOMAIN plan : offers[plan[n]].cost <= MaxCost \/ ~offers[plan[n]].fits
  /\ stage = "planned" /\ BatchBlocked => quotes = {}
  /\ stage = "blocked" /\ quotes = Position => BatchBlocked
=============================================================================
