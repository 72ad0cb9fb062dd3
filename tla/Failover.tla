------------------------------ MODULE Failover ------------------------------
(***************************************************************************)
(* Concurrent runs of one Engine walking their failover ladders            *)
(* (Engine::run, src/src/engine.rs) over the shared health Tracker         *)
(* (src/src/pricing.rs): the per-provider rate-limit breaker with its      *)
(* half-open probe, and the global retry budget.                           *)
(*                                                                         *)
(* Each Tracker method holds its mutex for the whole call, so each one is  *)
(* a single action here; runs interleave between any two of them.  Clock   *)
(* readings are abstracted to what they decide: whether the cooldown of a  *)
(* provider is unset, still running, or over.  Latency and failure         *)
(* averages, which nothing below reads, are left out.                      *)
(***************************************************************************)
EXTENDS Integers, FiniteSets

CONSTANTS
  Runs,           \* the concurrent Engine::run calls on one Arc<Engine>
  Providers,      \* the enabled providers
  Unusable,       \* those whose adapter or model does not resolve
  NoProvider,     \* the run is between two rungs of its ladder
  RetryTokenCap,  \* 100 in the code
  RetryCost,      \* 10 in the code
  ReAskLimit      \* policy.re_ask_limit, shared by all legs of a run

ASSUME FiniteAssumption == IsFiniteSet(Runs) /\ IsFiniteSet(Providers)
ASSUME ProviderAssumption == Unusable \subseteq Providers /\ NoProvider \notin Providers
ASSUME BudgetAssumption ==
  RetryTokenCap \in Nat /\ RetryCost \in Nat \ {0} /\ ReAskLimit \in Nat

VARIABLES
  cooldown,     \* cooldown_until of each provider: "none", "open" or "elapsed"
  streak,       \* consecutive_429s
  halfOpen,     \* half_open_in_flight
  retryTokens,  \* the retry budget all runs share
  pc,           \* where each run stands
  at,           \* the provider a run is dealing with
  todo,         \* the rungs of the ladder a run has not looked at
  reAsks,       \* re_asks_left
  calls         \* provider calls of the run so far (saturates past CallLimit)

tracker == <<cooldown, streak, halfOpen>>
vars == <<cooldown, streak, halfOpen, retryTokens, pc, at, todo, reAsks, calls>>

Answers == {"ok", "limited", "error"}
Ended == {"served", "failed", "aborted"}
\* The breaker let the run pass; it has not yet reported an answer of its call.
Admitted == {"checked", "claimed", "calling"} \union Answers
\* The run went through claim_half_open, so it may be the half-open probe.
Holding == {"claimed", "calling"} \union Answers

CallLimit == Cardinality(Providers) + ReAskLimit

TypeOK ==
  /\ cooldown \in [Providers -> {"none", "open", "elapsed"}]
  /\ streak \in [Providers -> Nat]
  /\ halfOpen \in [Providers -> BOOLEAN]
  /\ retryTokens \in 0..RetryTokenCap
  /\ pc \in [Runs -> {"idle", "scan"} \union Admitted \union Ended]
  /\ at \in [Runs -> Providers \union {NoProvider}]
  /\ todo \in [Runs -> SUBSET Providers]
  /\ reAsks \in [Runs -> 0..ReAskLimit]
  /\ calls \in [Runs -> 0..(CallLimit + 1)]

Init ==
  /\ cooldown = [p \in Providers |-> "none"]
  /\ streak = [p \in Providers |-> 0]
  /\ halfOpen = [p \in Providers |-> FALSE]
  /\ retryTokens = RetryTokenCap
  /\ pc = [r \in Runs |-> "idle"]
  /\ at = [r \in Runs |-> NoProvider]
  /\ todo = [r \in Runs |-> {}]
  /\ reAsks = [r \in Runs |-> 0]
  /\ calls = [r \in Runs |-> 0]

-----------------------------------------------------------------------------
(* The Tracker. *)

InCooldown(p) ==
  \/ cooldown[p] = "open"
  \/ cooldown[p] = "elapsed" /\ streak[p] > 0 /\ halfOpen[p]

\* claim_half_open: what the caller is told, and whether the flag is taken.
NeedsProbe(p) == cooldown[p] = "elapsed" /\ streak[p] > 0
\* Mutant: the flag is set but not tested.
ClaimNeverRefused(p) == FALSE
ClaimRefused(p) == NeedsProbe(p) /\ halfOpen[p]
ClaimHalfOpen(p) ==
  IF NeedsProbe(p) THEN halfOpen' = [halfOpen EXCEPT ![p] = TRUE] ELSE UNCHANGED halfOpen

\* Mutant: the streak survives the end of its window.
OpenCooldownKeepsStreak(p) ==
  /\ halfOpen' = [halfOpen EXCEPT ![p] = FALSE]
  /\ streak' = [streak EXCEPT ![p] = @ + 1]
  /\ \E window \in {"open", "elapsed"} : cooldown' = [cooldown EXCEPT ![p] = window]

\* Mutant: a 429 does not hand the probe flag back.
OpenCooldownKeepsProbe(p) ==
  /\ streak' = [streak EXCEPT ![p] = IF cooldown[p] = "elapsed" THEN 1 ELSE @ + 1]
  /\ \E window \in {"open", "elapsed"} : cooldown' = [cooldown EXCEPT ![p] = window]
  /\ UNCHANGED halfOpen

\* open_cooldown and open_cooldown_with_duration.  A Retry-After of zero
\* leaves a window that is over at once.
OpenCooldown(p) ==
  /\ halfOpen' = [halfOpen EXCEPT ![p] = FALSE]
  /\ streak' = [streak EXCEPT ![p] = IF cooldown[p] = "elapsed" THEN 1 ELSE @ + 1]
  /\ \E window \in {"open", "elapsed"} : cooldown' = [cooldown EXCEPT ![p] = window]

\* Mutant: closing the breaker does not hand the probe flag back.
ClearCooldownKeepsProbe(p) ==
  /\ cooldown' = [cooldown EXCEPT ![p] = "none"]
  /\ streak' = [streak EXCEPT ![p] = 0]
  /\ UNCHANGED halfOpen

ClearCooldown(p) ==
  /\ cooldown' = [cooldown EXCEPT ![p] = "none"]
  /\ streak' = [streak EXCEPT ![p] = 0]
  /\ halfOpen' = [halfOpen EXCEPT ![p] = FALSE]

\* Mutant: the budget is refilled past its cap.
RefillUncapped(answer) ==
  retryTokens' = IF answer = "ok" THEN retryTokens + 1 ELSE retryTokens

\* The part of Tracker::record that anything here reads.
Refill(answer) ==
  retryTokens' = IF answer = "ok" /\ retryTokens < RetryTokenCap
                 THEN retryTokens + 1 ELSE retryTokens

\* The clock passes cooldown_until.
Expire(p) ==
  /\ cooldown[p] = "open"
  /\ cooldown' = [cooldown EXCEPT ![p] = "elapsed"]
  /\ UNCHANGED <<streak, halfOpen, retryTokens, pc, at, todo, reAsks, calls>>

-----------------------------------------------------------------------------
(* A run. *)

GoTo(r, place) == pc' = [pc EXCEPT ![r] = place]

\* Leave the current rung: to the next one, or out of the run.
Leave(r, place) ==
  /\ GoTo(r, place)
  /\ at' = [at EXCEPT ![r] = NoProvider]
  /\ UNCHANGED calls

Dial(r) ==
  /\ GoTo(r, "calling")
  /\ calls' = [calls EXCEPT ![r] = IF @ > CallLimit THEN @ ELSE @ + 1]
  /\ UNCHANGED at

\* A run reaches the ladder with the providers its budget has not pruned;
\* the budget sentinel has returned already when that leaves none.
Begin(r) ==
  /\ pc[r] \in {"idle"} \union Ended
  /\ \E chain \in SUBSET Providers \ {{}} : todo' = [todo EXCEPT ![r] = chain]
  /\ GoTo(r, "scan")
  /\ reAsks' = [reAsks EXCEPT ![r] = ReAskLimit]
  /\ calls' = [calls EXCEPT ![r] = 0]
  /\ UNCHANGED <<tracker, retryTokens, at>>

\* The next rung.  Which one comes next is the bandit's choice.
ConsultBreaker(r, p) ==
  /\ pc[r] = "scan"
  /\ p \in todo[r]
  /\ todo' = [todo EXCEPT ![r] = @ \ {p}]
  /\ \/ InCooldown(p) /\ UNCHANGED <<pc, at>>
     \/ ~InCooldown(p) /\ GoTo(r, "checked") /\ at' = [at EXCEPT ![r] = p]
  /\ UNCHANGED <<tracker, retryTokens, reAsks, calls>>

ClaimProbe(r) ==
  /\ pc[r] = "checked"
  /\ \/ ClaimRefused(at[r]) /\ Leave(r, "scan") /\ UNCHANGED halfOpen
     \/ /\ ~ClaimRefused(at[r])
        /\ ClaimHalfOpen(at[r])
        /\ GoTo(r, "claimed")
        /\ UNCHANGED <<at, calls>>
  /\ UNCHANGED <<cooldown, streak, retryTokens, todo, reAsks>>

\* No adapter or no model for this provider: on to the next rung.
SkipUnusable(r) ==
  /\ pc[r] = "claimed"
  /\ at[r] \in Unusable
  /\ Leave(r, "scan")
  /\ UNCHANGED <<tracker, retryTokens, todo, reAsks>>

\* The first call of a run is free, each later leg pays RetryCost.
FirstCall(r) ==
  /\ pc[r] = "claimed"
  /\ at[r] \notin Unusable
  /\ calls[r] = 0
  /\ Dial(r)
  /\ UNCHANGED <<tracker, retryTokens, todo, reAsks>>

FailoverCall(r) ==
  /\ pc[r] = "claimed"
  /\ at[r] \notin Unusable
  /\ calls[r] > 0
  /\ retryTokens >= RetryCost
  /\ retryTokens' = retryTokens - RetryCost
  /\ Dial(r)
  /\ UNCHANGED <<tracker, todo, reAsks>>

\* RETRY-BUDGET-SENTINEL: the ladder is abandoned, breaker flags stay.
BudgetAbort(r) ==
  /\ pc[r] = "claimed"
  /\ at[r] \notin Unusable
  /\ calls[r] > 0
  /\ retryTokens < RetryCost
  /\ Leave(r, "aborted")
  /\ UNCHANGED <<tracker, retryTokens, todo, reAsks>>

\* The adapter answers or times out, and Tracker::record runs.
Answer(r, answer) ==
  /\ pc[r] = "calling"
  /\ GoTo(r, answer)
  /\ Refill(answer)
  /\ UNCHANGED <<tracker, at, todo, reAsks, calls>>

\* A 429 opens the breaker.
SettleLimited(r) ==
  /\ pc[r] = "limited"
  /\ OpenCooldown(at[r])
  /\ Leave(r, "scan")
  /\ UNCHANGED <<retryTokens, todo, reAsks>>

\* Every other answer, a transport error included, closes it.
SettleError(r) ==
  /\ pc[r] = "error"
  /\ ClearCooldown(at[r])
  /\ Leave(r, "scan")
  /\ UNCHANGED <<retryTokens, todo, reAsks>>

\* Verified output ends the run, or cascades to the next rung on a low score.
SettleVerified(r) ==
  /\ pc[r] = "ok"
  /\ ClearCooldown(at[r])
  /\ \E place \in {"served", "scan"} : Leave(r, place)
  /\ UNCHANGED <<retryTokens, todo, reAsks>>

\* Mutant: a re-ask is not charged to the run.
SettleReAskForFree(r) ==
  /\ pc[r] = "ok"
  /\ reAsks[r] > 0
  /\ ClearCooldown(at[r])
  /\ Dial(r)
  /\ UNCHANGED <<retryTokens, todo, reAsks>>

\* Unverified output is asked again while the run has re-asks left...
SettleReAsk(r) ==
  /\ pc[r] = "ok"
  /\ reAsks[r] > 0
  /\ ClearCooldown(at[r])
  /\ reAsks' = [reAsks EXCEPT ![r] = @ - 1]
  /\ Dial(r)
  /\ UNCHANGED <<retryTokens, todo>>

\* ...and then moves to the next rung, or stops the ladder on a semantic loop.
SettleRejected(r) ==
  /\ pc[r] = "ok"
  /\ reAsks[r] = 0
  /\ ClearCooldown(at[r])
  /\ \E place \in {"scan", "aborted"} : Leave(r, place)
  /\ UNCHANGED <<retryTokens, todo, reAsks>>

EndOfLadder(r) ==
  /\ pc[r] = "scan"
  /\ todo[r] = {}
  /\ GoTo(r, "failed")
  /\ UNCHANGED <<tracker, retryTokens, at, todo, reAsks, calls>>

Step(r) ==
  \/ \E p \in Providers : ConsultBreaker(r, p)
  \/ ClaimProbe(r)
  \/ SkipUnusable(r)
  \/ FirstCall(r)
  \/ FailoverCall(r)
  \/ BudgetAbort(r)
  \/ \E answer \in Answers : Answer(r, answer)
  \/ SettleLimited(r)
  \/ SettleError(r)
  \/ SettleVerified(r)
  \/ SettleReAsk(r)
  \/ SettleRejected(r)
  \/ EndOfLadder(r)

Next ==
  \/ \E r \in Runs : Begin(r) \/ Step(r)
  \/ \E p \in Providers : Expire(p)

Spec == Init /\ [][Next]_vars

\* A run that can move does: every provider call ends by its own timeout.
FairSpec == Spec /\ \A r \in Runs : WF_vars(Step(r))
-----------------------------------------------------------------------------
(* Properties. *)

\* A breaker has a streak exactly while it has a window, and only a window
\* that is over can have its probe flag taken: clear_cooldown and the two
\* open_cooldown methods reset all three fields together (pricing.rs:250-296).
BreakerShape ==
  \A p \in Providers :
    /\ (cooldown[p] = "none") <=> (streak[p] = 0)
    /\ halfOpen[p] => cooldown[p] = "elapsed"

\* A streak only grows by answers to calls that were under way when the window
\* opened, so however long a provider keeps answering 429, the exponent of its
\* backoff (pricing.rs:250-273) never passes the number of concurrent runs:
\* a sequential client always backs off by the base duration.
StreakBound == \A p \in Providers : streak[p] <= Cardinality(Runs)

\* Re-asks are a budget of the run, not of a leg (engine.rs:708, 947-970), and
\* no rung is tried twice: a run calls providers at most once per rung plus
\* once per re-ask.
CallBound == \A r \in Runs : calls[r] <= CallLimit

\* A probe flag nobody will hand back: taken, with no run past the claim.
Orphan(p) == halfOpen[p] /\ ~ \E r \in Runs : at[r] = p /\ pc[r] \in Holding

\* The only way to walk out with the probe flag still taken is the retry-budget
\* abort between claim_half_open and the call (engine.rs:727-755): no skip, no
\* answer and no verdict leaves an orphan behind.
OrphanOnlyByAbort ==
  [][\A p \in Providers : ~Orphan(p) /\ Orphan(p)' =>
       \E r \in Runs : at[r] = p /\ BudgetAbort(r)]_vars

\* An orphaned flag is never recovered: in_cooldown and claim_half_open refuse
\* every later run (pricing.rs:221-236, 299-320), so the provider is out of the
\* ladder for the rest of the process.
OrphanForever == [][\A p \in Providers : Orphan(p) => Orphan(p)']_vars

\* "While open the provider is skipped in failover" (pricing.rs:65-66): no call
\* starts inside a cooldown window.
SkippedWhileOpen ==
  [][\A r \in Runs : pc[r] = "claimed" /\ pc'[r] = "calling" => cooldown[at[r]] # "open"]_vars

\* A taken probe flag belongs to a run that is still working on its probe, as
\* the message "half-open probe in progress" (engine.rs:729) tells the user.
ProbeInProgress == \A p \in Providers : ~Orphan(p)

\* Every run comes to an end, whatever its providers answer and however the
\* other runs interleave with it (the ladder of engine.rs:710-1296).
EveryRunSettles == \A r \in Runs : pc[r] = "scan" ~> pc[r] \in Ended

\* A half-open probe always reports back and hands its flag over, unless its run
\* gives the ladder up before the call (pricing.rs:221-296, engine.rs:748-755).
ProbeResolves ==
  \A p \in Providers :
    halfOpen[p] /\ ~Orphan(p) ~>
      ~halfOpen[p] \/ (Orphan(p) /\ \E r \in Runs : pc[r] = "aborted")
-----------------------------------------------------------------------------
(* Inductive invariants: the properties above with what they rest on. *)

LadderShape ==
  \A r \in Runs :
    /\ pc[r] \in Admitted => at[r] \in Providers
    /\ pc[r] \in {"calling"} \union Answers => at[r] \notin Unusable

\* A provider that is never called never has a window.
UnusableIdle == \A p \in Unusable : cooldown[p] = "none"

Core == TypeOK /\ BreakerShape /\ LadderShape /\ UnusableIdle

\* The runs that can still answer 429 for p without passing its breaker again.
InFlight(p) == {r \in Runs : at[r] = p /\ pc[r] \in Admitted}

\* While a window is open no run joins those in flight, and each of them can
\* lengthen the streak once.
StreakRoom ==
  \A p \in Providers :
    cooldown[p] = "open" => streak[p] + Cardinality(InFlight(p)) <= Cardinality(Runs)

\* The rung in hand, as long as its first call has not been made.
Pending(r) == IF pc[r] \in {"checked", "claimed"} THEN 1 ELSE 0

CallRoom ==
  \A r \in Runs : calls[r] + Cardinality(todo[r]) + Pending(r) + reAsks[r] <= CallLimit

StreakInv == Core /\ StreakBound /\ StreakRoom
CallInv == Core /\ CallRoom
=============================================================================
