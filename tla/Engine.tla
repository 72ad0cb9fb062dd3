------------------------------- MODULE Engine -------------------------------
(***************************************************************************)
(* Engine::run (src/src/engine.rs) against the durable store               *)
(* (src/src/store.rs): concurrent runs of one goal, from the spend guard   *)
(* to the execution row, with process restarts and failing writes.         *)
(*                                                                         *)
(* All runs here ask for the same goal, possibly under different           *)
(* constraints: they share its failure memory and its loop window, and     *)
(* each has the cache key of its constraints.  Every store method holds    *)
(* the connection mutex, so each call is one action; runs interleave       *)
(* between calls.  Which providers are skipped, what they answer and how   *)
(* the answer is verified is up to the environment (Failover models the    *)
(* skipping).  policy.reuse_cache is on.                                   *)
(***************************************************************************)
EXTENDS Integers, Sequences, FiniteSets

CONSTANTS
  Runs,          \* concurrent Engine::run calls
  Keys,          \* cache keys of the goal: one per set of constraints
  Outputs,       \* what a provider can answer
  NoOutput,
  Similar,       \* pairs of outputs within the edit-distance ceiling
  Rungs,         \* most providers in a chain
  Chains,        \* lengths of the chains that a run may find: 0 when its
                 \* configuration enables no provider
  ReAskLimit,    \* policy.re_ask_limit
  CascadeLimit,  \* policy.cascade_max_escalations
  LoopWindow,    \* 5 in the code
  MaxFailures,   \* MAX_FAILURE_MEMORY, 5 in the code
  StoreMayFail   \* whether a write can be refused (disk full, locked)

ASSUME FiniteAssumption == IsFiniteSet(Runs)
ASSUME OutputAssumption ==
  /\ NoOutput \notin Outputs
  /\ Similar \subseteq Outputs \X Outputs
  /\ \A o \in Outputs : <<o, o>> \in Similar
ASSUME LimitAssumption ==
  /\ Rungs \in Nat /\ Chains \subseteq 0..Rungs
  /\ ReAskLimit \in Nat /\ CascadeLimit \in Nat
  /\ LoopWindow \in Nat \ {0} /\ MaxFailures \in Nat \ {0}
  /\ StoreMayFail \in BOOLEAN

VARIABLES
  \* The store.
  status,      \* row of each run's task in tasks; "none" before it is saved
  execution,   \* its row in executions: "none", or the success column
  unbooked,    \* its provider calls less the rows it added to execution_attempts
  failures,    \* rows of the goal in failure_memory
  window,      \* loop_history of the goal, oldest first
  cache,       \* solution_cache
  \* The runs.
  pc, key,
  rungs,       \* providers of the ladder not yet considered
  reAsks, cascades,
  answer,      \* the output in hand
  detector,    \* history of the run's loop detector
  looped,      \* loop_detected on entry, or by the detector later
  outcome       \* how the run is about to end

store == <<status, execution, unbooked, failures, window, cache>>
locals == <<key, rungs, reAsks, cascades, answer, detector, looped, outcome>>
vars == <<store, pc, locals>>

Returned == {"ok", "err"}
Ladder == {"ladder", "calling", "answered", "errored", "rejected", "cascading", "accepted",
           "remember", "reflect", "observe", "looping"}
Success == {"unloop", "forgive", "admit"}
Places == {"idle", "recall", "replay", "route", "lookup", "sentinel", "finish", "evict", "book"}
            \union Ladder \union Success \union Returned
Terminal == {"Blocked", "Escalated", "Done", "Failed"}
Outcomes == {"Asked", "Stopped", "Escalated", "Done", "Failed"}
Statuses == {"none", "Routed", "InProgress"} \union Terminal

\* A row of the loop window: the output, and the constraints it was produced
\* under (the code does not keep the latter; it is here for the properties).
Attempts == [out : Outputs, under : Keys]
Windows == UNION {[1..n -> Attempts] : n \in 0..LoopWindow}

TypeOK ==
  /\ status \in [Runs -> Statuses]
  /\ execution \in [Runs -> {"none", "success", "failure"}]
  /\ unbooked \in [Runs -> -1..(Rungs + ReAskLimit)]
  /\ failures \in 0..MaxFailures
  /\ window \in Windows
  /\ cache \in [Keys -> Outputs \union {NoOutput}]
  /\ pc \in [Runs -> Places]
  /\ key \in [Runs -> Keys]
  /\ rungs \in [Runs -> 0..Rungs]
  /\ reAsks \in [Runs -> 0..ReAskLimit]
  /\ cascades \in [Runs -> 0..CascadeLimit]
  /\ answer \in [Runs -> Outputs \union {NoOutput}]
  /\ detector \in [Runs -> Windows]
  /\ looped \in [Runs -> BOOLEAN]
  /\ outcome \in [Runs -> Outcomes]

Init ==
  /\ status = [r \in Runs |-> "none"]
  /\ execution = [r \in Runs |-> "none"]
  /\ unbooked = [r \in Runs |-> 0]
  /\ failures = 0
  /\ window = <<>>
  /\ cache = [k \in Keys |-> NoOutput]
  /\ pc = [r \in Runs |-> "idle"]
  /\ key \in {[r \in Runs |-> k] : k \in Keys}
  /\ rungs = [r \in Runs |-> 0]
  /\ reAsks = [r \in Runs |-> 0]
  /\ cascades = [r \in Runs |-> 0]
  /\ answer = [r \in Runs |-> NoOutput]
  /\ detector = [r \in Runs |-> <<>>]
  /\ looped = [r \in Runs |-> FALSE]
  /\ outcome = [r \in Runs |-> "Failed"]

-----------------------------------------------------------------------------
(* The loop detector. *)

Alike(a, b) == <<a.out, b.out>> \in Similar

\* Keep the newest LoopWindow attempts: Detector::trim and the pruning
\* statement of record_loop_attempt.
TrimNever(w) == w  \* mutant: the window grows for ever
Trim(w) == IF Len(w) > LoopWindow
           THEN SubSeq(w, Len(w) - LoopWindow + 1, Len(w)) ELSE w
Observed(w, a) == Trim(Append(w, a))

\* Replaying a window through a fresh detector.
Looped(w) == \E i, j \in DOMAIN w : i < j /\ Alike(w[i], w[j])
\* What observe(a) answers on history w.
LoopsWith(w, a) == \E i \in DOMAIN w : Alike(w[i], a)

-----------------------------------------------------------------------------
(* Steps common to several stages. *)

GoTo(r, place) == pc' = [pc EXCEPT ![r] = place]

\* save_task must succeed: when it does not, run returns the error at once.
SaveTask(r, s, place) ==
  \/ status' = [status EXCEPT ![r] = s] /\ GoTo(r, place)
  \/ StoreMayFail /\ GoTo(r, "err") /\ UNCHANGED status

\* The other writes are best effort (warn_persist): go on without them.
RecordAttempt(r) ==
  \/ unbooked' = [unbooked EXCEPT ![r] = @ - 1]
  \/ StoreMayFail /\ UNCHANGED unbooked

StatusOf(o) == IF o \in {"Asked", "Stopped"} THEN "Blocked" ELSE o
Conclude(r, o) == outcome' = [outcome EXCEPT ![r] = o] /\ GoTo(r, "finish")

-----------------------------------------------------------------------------
(* From the request to the route. *)

\* A run starts with a fresh task id.  The spend guard may refuse it.
Begin(r) ==
  /\ pc[r] \in {"idle"} \union Returned
  /\ \E place \in {"recall", "err"} : GoTo(r, place)
  /\ \E k \in Keys : key' = [key EXCEPT ![r] = k]
  /\ status' = [status EXCEPT ![r] = "none"]
  /\ execution' = [execution EXCEPT ![r] = "none"]
  /\ unbooked' = [unbooked EXCEPT ![r] = 0]
  /\ answer' = [answer EXCEPT ![r] = NoOutput]
  /\ looped' = [looped EXCEPT ![r] = FALSE]
  /\ detector' = [detector EXCEPT ![r] = <<>>]
  /\ outcome' = [outcome EXCEPT ![r] = "Failed"]
  /\ rungs' = [rungs EXCEPT ![r] = 0]
  /\ UNCHANGED <<failures, window, cache, reAsks, cascades>>

\* has_goal_failure: its answer only colours the route and the prompt, but
\* its error ends the run.
Recall(r) ==
  /\ pc[r] = "recall"
  /\ \/ GoTo(r, "replay")
     \/ StoreMayFail /\ GoTo(r, "err")
  /\ UNCHANGED <<store, locals>>

\* persisted_loop_detected; an unreadable window counts as empty.
Replay(r) ==
  /\ pc[r] = "replay"
  /\ \/ detector' = [detector EXCEPT ![r] = window]
     \/ StoreMayFail /\ UNCHANGED detector
  /\ looped' = [looped EXCEPT ![r] = Looped(detector'[r])]
  /\ GoTo(r, "route")
  /\ UNCHANGED <<store, key, rungs, reAsks, cascades, answer, outcome>>

\* decide and the save of Routed.
Route(r) ==
  /\ pc[r] = "route"
  /\ SaveTask(r, "Routed", "lookup")
  /\ UNCHANGED <<execution, unbooked, failures, window, cache, locals>>

\* Routes that end locally: a loop always escalates, another signal may
\* escalate or ask.
EscalateLocally(r) ==
  /\ pc[r] = "lookup"
  /\ Conclude(r, "Escalated")
  /\ UNCHANGED <<store, key, rungs, reAsks, cascades, answer, detector, looped>>

AskLocally(r) ==
  /\ pc[r] = "lookup"
  /\ ~looped[r]
  /\ Conclude(r, "Asked")
  /\ UNCHANGED <<store, key, rungs, reAsks, cascades, answer, detector, looped>>

\* A cached answer is served, and nothing is executed.
ServeCached(r) ==
  /\ pc[r] = "lookup"
  /\ ~looped[r]
  /\ cache[key[r]] # NoOutput
  /\ answer' = [answer EXCEPT ![r] = cache[key[r]]]
  /\ Conclude(r, "Done")
  /\ UNCHANGED <<store, key, rungs, reAsks, cascades, detector, looped>>

\* The chain of the route.  Without an enabled provider the run returns an
\* error there: its task stays Routed and has no execution row.
TakeChain(r) ==
  /\ \E n \in Chains : /\ rungs' = [rungs EXCEPT ![r] = n]
                       /\ GoTo(r, IF n = 0 THEN "err" ELSE "sentinel")
  /\ UNCHANGED <<store, key, reAsks, cascades, answer, detector, looped, outcome>>

\* Mutant: a loop does not keep the run from the ladder.
CacheMissLooping(r) ==
  /\ pc[r] = "lookup"
  /\ cache[key[r]] = NoOutput \/ StoreMayFail
  /\ TakeChain(r)

\* Mutant: the cache is not consulted.
CacheMissBlind(r) ==
  /\ pc[r] = "lookup"
  /\ ~looped[r]
  /\ TakeChain(r)

CacheMiss(r) ==
  /\ pc[r] = "lookup"
  /\ ~looped[r]
  /\ cache[key[r]] = NoOutput \/ StoreMayFail
  /\ TakeChain(r)

\* BUDGET-SENTINEL: every provider is priced over the task's budget.
BudgetSentinel(r) ==
  /\ pc[r] = "sentinel"
  /\ Conclude(r, "Stopped")
  /\ UNCHANGED <<store, key, rungs, reAsks, cascades, answer, detector, looped>>

\* Mutant: InProgress is not saved.
ExecuteUnsaved(r) ==
  /\ pc[r] = "sentinel"
  /\ GoTo(r, "ladder")
  /\ reAsks' = [reAsks EXCEPT ![r] = ReAskLimit]
  /\ cascades' = [cascades EXCEPT ![r] = CascadeLimit]
  /\ UNCHANGED <<store, key, rungs, answer, detector, looped, outcome>>

Execute(r) ==
  /\ pc[r] = "sentinel"
  /\ SaveTask(r, "InProgress", "ladder")
  /\ reAsks' = [reAsks EXCEPT ![r] = ReAskLimit]
  /\ cascades' = [cascades EXCEPT ![r] = CascadeLimit]
  /\ UNCHANGED <<execution, unbooked, failures, window, cache, key, rungs, answer, detector,
                 looped, outcome>>

-----------------------------------------------------------------------------
(* The ladder. *)

\* Over budget, cooling down, no adapter, no model.  Running out of retry
\* budget has the effect of skipping all that is left.
SkipRung(r) ==
  /\ pc[r] = "ladder"
  /\ rungs[r] > 0
  /\ rungs' = [rungs EXCEPT ![r] = @ - 1]
  /\ UNCHANGED <<store, pc, key, reAsks, cascades, answer, detector, looped, outcome>>

Dial(r) == GoTo(r, "calling") /\ unbooked' = [unbooked EXCEPT ![r] = @ + 1]

\* Mutant: a provider that failed is called again.
CallProviderAgain(r) ==
  /\ pc[r] = "ladder"
  /\ rungs[r] > 0
  /\ Dial(r)
  /\ UNCHANGED <<status, execution, failures, window, cache, key, rungs, reAsks, cascades, answer,
                 detector, looped, outcome>>

CallProvider(r) ==
  /\ pc[r] = "ladder"
  /\ rungs[r] > 0
  /\ rungs' = [rungs EXCEPT ![r] = @ - 1]
  /\ Dial(r)
  /\ UNCHANGED <<status, execution, failures, window, cache, key, reAsks, cascades, answer,
                 detector, looped, outcome>>

\* The adapter returns an error, or an output to verify.
ProviderAnswers(r) ==
  /\ pc[r] = "calling"
  /\ \/ GoTo(r, "errored") /\ UNCHANGED answer
     \/ \E o \in Outputs : answer' = [answer EXCEPT ![r] = o] /\ GoTo(r, "answered")
  /\ UNCHANGED <<store, key, rungs, reAsks, cascades, detector, looped, outcome>>

\* The verdict: accepted, accepted with a score under the cascade threshold,
\* or rejected.  A rejected output is asked again while re-asks are left.
Accept(r) ==
  /\ pc[r] = "answered"
  /\ GoTo(r, "accepted")
  /\ UNCHANGED <<store, locals>>

Cascade(r) ==
  /\ pc[r] = "answered"
  /\ cascades[r] > 0
  /\ cascades' = [cascades EXCEPT ![r] = @ - 1]
  /\ GoTo(r, "cascading")
  /\ UNCHANGED <<store, key, rungs, reAsks, answer, detector, looped, outcome>>

ReAsk(r) ==
  /\ pc[r] = "answered"
  /\ reAsks[r] > 0
  /\ reAsks' = [reAsks EXCEPT ![r] = @ - 1]
  /\ Dial(r)
  /\ UNCHANGED <<status, execution, failures, window, cache, key, rungs, cascades, answer,
                 detector, looped, outcome>>

Reject(r) ==
  /\ pc[r] = "answered"
  /\ reAsks[r] = 0
  /\ GoTo(r, "rejected")
  /\ UNCHANGED <<store, locals>>

\* A failed leg leaves an attempt row and a failure of the goal...
BookFailedLeg(r) ==
  /\ pc[r] \in {"errored", "rejected", "cascading"}
  /\ RecordAttempt(r)
  /\ GoTo(r, IF pc[r] = "rejected" THEN "reflect" ELSE "remember")
  /\ UNCHANGED <<status, execution, failures, window, cache, locals>>

\* ...of which the newest MaxFailures are kept.
RecordFailure(r) ==
  /\ pc[r] \in {"remember", "reflect"}
  /\ \/ failures' = IF failures < MaxFailures THEN failures + 1 ELSE failures
     \/ StoreMayFail /\ UNCHANGED failures
  /\ GoTo(r, IF pc[r] = "reflect" THEN "observe" ELSE "ladder")
  /\ UNCHANGED <<status, execution, unbooked, window, cache, locals>>

\* Mutant: the rejected output only enters the live detector.
ObserveInMemory(r) ==
  LET attempt == [out |-> answer[r], under |-> key[r]] IN
  /\ pc[r] = "observe"
  /\ detector' = [detector EXCEPT ![r] = Observed(@, attempt)]
  /\ looped' = [looped EXCEPT ![r] = LoopsWith(detector[r], attempt)]
  /\ GoTo(r, IF looped'[r] THEN "looping" ELSE "ladder")
  /\ UNCHANGED <<store, key, rungs, reAsks, cascades, answer, outcome>>

\* Mutant: the ladder is left before the output is recorded.
ObserveThenRecord(r) ==
  LET attempt == [out |-> answer[r], under |-> key[r]] IN
  /\ pc[r] = "observe"
  /\ looped' = [looped EXCEPT ![r] = LoopsWith(detector[r], attempt)]
  /\ window' = IF looped'[r] THEN window ELSE Observed(window, attempt)
  /\ detector' = [detector EXCEPT ![r] = Observed(@, attempt)]
  /\ GoTo(r, IF looped'[r] THEN "looping" ELSE "ladder")
  /\ UNCHANGED <<status, execution, unbooked, failures, cache, key, rungs, reAsks, cascades,
                 answer, outcome>>

\* A rejected output also enters the durable window and the live detector; a
\* loop stops the ladder.
Observe(r) ==
  LET attempt == [out |-> answer[r], under |-> key[r]] IN
  /\ pc[r] = "observe"
  /\ \/ window' = Observed(window, attempt)
     \/ StoreMayFail /\ UNCHANGED window
  /\ detector' = [detector EXCEPT ![r] = Observed(@, attempt)]
  /\ looped' = [looped EXCEPT ![r] = LoopsWith(detector[r], attempt)]
  /\ GoTo(r, IF looped'[r] THEN "looping" ELSE "ladder")
  /\ UNCHANGED <<status, execution, unbooked, failures, cache, key, rungs, reAsks, cascades,
                 answer, outcome>>

\* The loop escalation has an attempt row of its own.
BookLoop(r) ==
  /\ pc[r] = "looping"
  /\ RecordAttempt(r)
  /\ Conclude(r, "Failed")
  /\ UNCHANGED <<status, execution, failures, window, cache, key, rungs, reAsks, cascades,
                 answer, detector, looped>>

LadderExhausted(r) ==
  /\ pc[r] = "ladder"
  /\ rungs[r] = 0
  /\ Conclude(r, "Failed")
  /\ UNCHANGED <<store, key, rungs, reAsks, cascades, answer, detector, looped>>

-----------------------------------------------------------------------------
(* Success, and the end of a run. *)

\* Mutant: only failed legs are booked.
BookSuccessNot(r) ==
  /\ pc[r] = "accepted"
  /\ GoTo(r, "unloop")
  /\ UNCHANGED <<store, locals>>

BookSuccess(r) ==
  /\ pc[r] = "accepted"
  /\ RecordAttempt(r)
  /\ GoTo(r, "unloop")
  /\ UNCHANGED <<status, execution, failures, window, cache, locals>>

ClearLoopHistory(r) ==
  /\ pc[r] = "unloop"
  /\ \/ window' = <<>>
     \/ StoreMayFail /\ UNCHANGED window
  /\ GoTo(r, "forgive")
  /\ UNCHANGED <<status, execution, unbooked, failures, cache, locals>>

\* Mutant: success does not clear the failure memory.
ClearGoalFailuresNot(r) ==
  /\ pc[r] = "forgive"
  /\ GoTo(r, "admit")
  /\ UNCHANGED <<store, locals>>

ClearGoalFailures(r) ==
  /\ pc[r] = "forgive"
  /\ \/ failures' = 0
     \/ StoreMayFail /\ UNCHANGED failures
  /\ GoTo(r, "admit")
  /\ UNCHANGED <<status, execution, unbooked, window, cache, locals>>

\* Rescued output, output with a mask placeholder and mock output are not
\* admitted.
Admit(r) ==
  /\ pc[r] = "admit"
  /\ \/ cache' = [cache EXCEPT ![key[r]] = answer[r]]
     \/ UNCHANGED cache
  /\ Conclude(r, "Done")
  /\ UNCHANGED <<status, execution, unbooked, failures, window, key, rungs, reAsks, cascades,
                 answer, detector, looped>>

SaveOutcome(r) ==
  /\ pc[r] = "finish"
  /\ SaveTask(r, StatusOf(outcome[r]), IF outcome[r] = "Failed" THEN "evict" ELSE "book")
  /\ UNCHANGED <<execution, unbooked, failures, window, cache, locals>>

EvictSolution(r) ==
  /\ pc[r] = "evict"
  /\ \/ cache' = [cache EXCEPT ![key[r]] = NoOutput]
     \/ StoreMayFail /\ UNCHANGED cache
  /\ GoTo(r, "book")
  /\ UNCHANGED <<status, execution, unbooked, failures, window, locals>>

\* The execution row; its success column is false for a failed run and for
\* one the budget sentinel stopped.
RecordExecution(r) ==
  /\ pc[r] = "book"
  /\ \/ execution' = [execution EXCEPT ![r] = IF outcome[r] \in {"Stopped", "Failed"}
                                              THEN "failure" ELSE "success"]
     \/ StoreMayFail /\ UNCHANGED execution
  /\ GoTo(r, IF outcome[r] = "Failed" THEN "err" ELSE "ok")
  /\ rungs' = [rungs EXCEPT ![r] = 0]
  /\ answer' = [answer EXCEPT ![r] = NoOutput]
  /\ detector' = [detector EXCEPT ![r] = <<>>]
  /\ UNCHANGED <<status, unbooked, failures, window, cache, key, reAsks, cascades, looped, outcome>>

-----------------------------------------------------------------------------
(* The process and the passing of time. *)

\* A restart loses every run; Engine::new then prunes what is older than the
\* retention window.
Restart ==
  /\ pc' = [r \in Runs |-> "idle"]
  /\ rungs' = [r \in Runs |-> 0]
  /\ reAsks' = [r \in Runs |-> 0]
  /\ cascades' = [r \in Runs |-> 0]
  /\ answer' = [r \in Runs |-> NoOutput]
  /\ detector' = [r \in Runs |-> <<>>]
  /\ looped' = [r \in Runs |-> FALSE]
  /\ outcome' = [r \in Runs |-> "Failed"]
  /\ \E n \in 0..Len(window) : window' = SubSeq(window, n + 1, Len(window))
  /\ failures' \in 0..failures
  /\ \E old \in SUBSET Keys : cache' = [k \in Keys |-> IF k \in old THEN NoOutput ELSE cache[k]]
  /\ \E old \in SUBSET Runs :
       execution' = [r \in Runs |-> IF r \in old THEN "none" ELSE execution[r]]
  /\ UNCHANGED <<status, unbooked, key>>

\* An entry outlives its TTL, or is the least recently used of too many.
ForgetSolution(k) ==
  /\ cache[k] # NoOutput
  /\ cache' = [cache EXCEPT ![k] = NoOutput]
  /\ UNCHANGED <<status, execution, unbooked, failures, window, pc, locals>>

Step(r) ==
  \/ Recall(r) \/ Replay(r) \/ Route(r)
  \/ EscalateLocally(r) \/ AskLocally(r) \/ ServeCached(r) \/ CacheMiss(r)
  \/ BudgetSentinel(r) \/ Execute(r)
  \/ SkipRung(r) \/ CallProvider(r) \/ ProviderAnswers(r)
  \/ Accept(r) \/ Cascade(r) \/ ReAsk(r) \/ Reject(r)
  \/ BookFailedLeg(r) \/ RecordFailure(r) \/ Observe(r) \/ BookLoop(r) \/ LadderExhausted(r)
  \/ BookSuccess(r) \/ ClearLoopHistory(r) \/ ClearGoalFailures(r) \/ Admit(r)
  \/ SaveOutcome(r) \/ EvictSolution(r) \/ RecordExecution(r)

Next ==
  \/ \E r \in Runs : Begin(r) \/ Step(r)
  \/ Restart
  \/ \E k \in Keys : ForgetSolution(k)

Spec == Init /\ [][Next]_vars

\* A run that can move does: store calls return and provider calls time out.
FairSpec == Spec /\ \A r \in Runs : WF_vars(Step(r))

-----------------------------------------------------------------------------
(* Properties. *)

Phase(r) == IF pc[r] \in {"idle"} \union Returned THEN pc[r] ELSE "running"

Lifecycle == INSTANCE RunLifecycle
  WITH Lossy <- StoreMayFail, Unserved <- 0 \in Chains, phase <- [r \in Runs |-> Phase(r)]

\* Every run moves its task through the documented states and returns only
\* with its outcome saved (engine.rs:544-545, 700-701, 1283-1311), unless its
\* configuration enables no provider: then it returns an error with its task
\* Routed (engine.rs:652-658).
FollowsLifecycle == Lifecycle!Spec

\* When a run returns, its rows in execution_attempts are its provider calls,
\* less the calls that were re-asked, plus the row of a loop escalation
\* (engine.rs:984, 1037, 1090, 1140, 1220).
AttemptLedger ==
  \A r \in Runs : pc[r] \in Returned =>
    unbooked[r] + (IF looped[r] /\ outcome[r] = "Failed" THEN 1 ELSE 0) \in 0..ReAskLimit

\* The run can still add to the loop window or clear it.
MayTouchWindow(r) ==
  ~looped[r] /\ pc[r] \in {"route", "lookup", "sentinel", "unloop"} \union Ladder

\* Once the durable window holds a loop and no run is past reading it, every
\* run of the goal escalates locally, whatever its constraints: only the
\* retention pruning of a restart lets it reach a provider again
\* (engine.rs:430-446, kernel.rs:374-378, store.rs:704-735).
LockedOut == Looped(window) /\ \A r \in Runs : ~MayTouchWindow(r)
LoopLocksGoal == [][LockedOut => LockedOut' \/ Restart]_vars

\* With one run at a time, the live detector of a ladder agrees with the
\* durable window through every failed leg and restart (engine.rs:1070-1075):
\* what it catches is what the next process would see.
DetectorAgrees == \A r \in Runs : pc[r] \in Ladder => detector[r] = window

\* With one run at a time, no provider is asked for what the cache holds
\* (engine.rs:590-641).
NoPaidRepeat ==
  \A r \in Runs : pc[r] \in {"sentinel"} \union Ladder => cache[key[r]] = NoOutput

\* With one run at a time, a verified answer is saved as Done only after the
\* goal's loop window and failure memory are gone (engine.rs:1243-1252): a
\* crash in between never leaves a Done task with a goal still flagged.
SuccessForgives ==
  [][\A r \in Runs : pc[r] = "admit" /\ pc'[r] = "finish" => window = <<>> /\ failures = 0]_vars

\* Of the attempts the live detector holds, a full window, only the oldest is
\* like the answer in hand.
RepeatsOldest(r) ==
  /\ Len(detector[r]) = LoopWindow
  /\ \A i \in 2..LoopWindow : ~Alike(detector[r][i], [out |-> answer[r], under |-> key[r]])

\* With one run at a time, a loop that the live detector finds is one in the
\* durable window too, unless the answer repeats only the oldest output of a
\* full window, which the same write prunes (engine.rs:1070-1083).
LoopAbortKept ==
  [][\A r \in Runs : pc[r] = "observe" /\ pc'[r] = "looping" =>
       Looped(window') \/ RepeatsOldest(r)]_vars

\* Every run returns, or is lost with its process.
EveryRunReturns == \A r \in Runs : pc[r] = "recall" ~> pc[r] \in {"idle"} \union Returned
=============================================================================
