# A TLA+ model of TokenOS

TokenOS is a local router for language-model requests: it decides, without
spending tokens, which kind of work a request is, then executes it on the
cheapest suitable provider with deterministic failover, and keeps everything it
learned in one SQLite file. This directory models its core: the run of a task
and the parts of the program it passes through.

## Inventory

| Part | State it keeps | Operations | What makes it correct |
|---|---|---|---|
| engine (`engine.rs`) | none of its own besides shared handles: store, tracker, bandit, drift watchdog, recorder; each `run` has a local task `State`, a loop detector and ladder counters | `run`, `route_only`, `quote`, startup hydration | every run ends in one terminal task status with one execution row; memory is written as the outcome says; no provider is called when a local answer exists |
| tracker (`pricing.rs`) | per provider: latency and failure averages, cooldown window, 429 streak, half-open flag; a global retry budget | `record`, `in_cooldown`, `claim_half_open`, `claim_retry_token`, `open_cooldown(_with_duration)`, `clear_cooldown` | a cooling provider is skipped, one probe at a time, a probe always reports back, failover is bounded |
| bandit and drift (`pricing.rs`) | atomic pulls, rewards and latencies per arm; drift averages | `record`, `ranked`, `set_state`, `observe` | totals agree with arms under concurrency and restarts |
| shadow pricing (`pricing.rs`) | none | `quote_all` | every candidate that fits is priced and ranked |
| kernel (`kernel.rs`) | none (`State` keeps a bounded failure memory) | `extract_signals`, `decide`, `remember_failure` | one route per signal vector, the documented priority |
| config (`config.rs`) | the loaded file | `validate`, `provider_chain` | the chain lists each enabled provider once |
| store (`store.rs`) | tables tasks, failures, loop_history, solution_cache, executions, attempts, tracker and bandit state, traces | one method per statement or transaction, under one connection mutex | windows stay bounded, the cache serves only live verified answers, spend is what was spent |
| loop detector (`loopdetect.rs`) | last few attempts | `observe` | repetition is recognised, within a run and across processes |
| recorder (`recorder.rs`) | content-addressed blobs, one journal per task | `record`, `put_blob`, `prune_old_traces` | a journal never names a missing or damaged blob |
| mask codec (`maskcodec.rs`) | reverse vault of one prompt | `mask_prompt`, `unmask` | unmasking restores the text; nothing opaque is cached |
| JSON rescue (`jsonrescue.rs`) | none | `rescue`, `parse_lenient` | a truncated value is closed, never altered |
| context index (`contextidx.rs`) | files and symbols tables | `index_workspace`, `minimum_viable_context`, `workspace_hash` | the index agrees with the files it saw |
| provider adapters (`provider.rs`) | HTTP client | `execute` | an answer, a 429 with optional Retry-After, or an error, within a timeout |
| verify, payload, tokenizer | none | pure functions over text | |
| native app (`nativeapp.rs`) | one-run slot, forms | `execute`, `poll_run` | a second run cannot start before the first reported |
| CLI (`main.rs`) | none | one command per process | |


### How the parts interact

`main.rs` and `nativeapp.rs` open one `Store`, build one `Engine` and call
`Engine::run` for a task. A run asks the kernel for a route, then the store for
what it remembers of the goal (failures, the loop window, cached answers), the
pricer and the bandit for the order of the providers, and walks them as a
*ladder*: for each provider it consults the tracker, calls the adapter, verifies
the output, and books the result in the tracker, the bandit and the store. All
shared state is behind a mutex (tracker, SQLite connection) or atomic (bandit,
drift), and each method takes and releases its lock on its own: whatever spans two
calls can interleave with another run, and whatever spans two writes can be cut
in half by a crash. Each write to the store is a statement or a transaction, so a
restart finds the store between two of them and everything else gone.

### What is hard about it

- **Interleaving.** A run checks the breaker, claims the probe, pays for the
  failover and calls the provider under four separate locks.
- **Late answers.** The result of a call made before a window opened is booked
  after it.
- **Crashes between writes.** A run ends with up to six separate writes.
- **Failing writes.** `save_task` ends the run when it fails, every other write is
  best effort and the run goes on.
- **Memory that outlives the run** and changes the next one: the loop window, the
  failure memory, the cache, the breaker.
- **Termination.** A ladder with failover, re-asks and cascades goes round in
  three nested ways, over a budget that all runs share.

The full list, each item at its line with the properties that cover it, is under
`hazards` in `PROJECT.json`.

## Modules

| Module | Models | Composed by | Proofs in |
|---|---|---|---|
| `RunLifecycle` | what a task promises (abstract) | refined by `Engine` | `EngineProofs` |
| `Engine` | a run against the store | | `EngineProofs` |
| `Failover` | tracker and ladder | | `FailoverProofs` |
| `SolutionCache` | admission, expiry, LRU, exact and semantic lookup, eviction | `MCStorage` | `StoreProofs` |
| `Migration` | opening and upgrading the file | `MCStorage` | `StoreProofs` |
| `SpendLedger` | spend guard, execution rows, retention, reports | `MCStorage` | `TallyProofs` |
| `Recorder` | blobs, journals, pruning | `MCStorage` | `DiskProofs` |
| `ContextIndex` | incremental indexing of a workspace that is edited | `MCStorage` | `DiskProofs` |
| `Router` | signals and the decision ladder | `MCCalls` | `CallProofs` |
| `Workbench` | evaluation, sweep and A/B panels, over `Router` (which it extends) | `MCCalls` | `CallProofs` |
| `RunConsole` | the desktop's one-run slot | `MCCalls` | `CallProofs` |
| `ProviderChain` | the chain of a route from the configuration | `MCCalls` | `CallProofs` |
| `AttemptPlan` | pricing, budget sentinel, order of the attempts | `MCCalls` | `CallProofs` |
| `Adapter` | adapters of the three wire formats, proxy and mock | `MCCalls` | `CallProofs` |
| `Bandit` | the atomics of the bandit, its saved sums, restarts | `MCCalls` | `TallyProofs` |
| `PrefixFit` | the budget fit of the context | `MCCalls` | `TextProofs` |
| `SymbolScan` | extraction of symbols from a file | `MCCalls` | `TextProofs` |
| `MaskCodec` | masking and unmasking | `MCCalls` | `TextProofs` |
| `JsonRescue` | the lenient parser of truncated documents | `MCCalls` | |
| `BraceScan`, `Verify` | bracket balance; static checks and commands (extends the former) | `MCCalls` | `TextProofs` |
| `EditDistance` | bit-parallel distance against the two-row table | `MCCalls` | |

`SetProofs` is the library of lemmas about least elements, induction over finite
sets and sums that the proof modules cite.

`MCStorage` and `MCCalls` put components that share no state side by side: a
variable `part` says which of them a behaviour belongs to, the others stutter. So
each component is explored on its own instance, their states add up instead of
multiplying, and nothing is claimed of one that depends on another. Components that
do share state are one module: the store tables a run touches are all in
`Engine`, the breaker and the ladder in `Failover`. Definitions commented *Mutant*
are plausible slips of the code that the property next to them tells from the code;
no specification uses them.

## Failover: the tracker and the ladder

`Failover.tla` models the `Tracker` of `pricing.rs` and the part of `Engine::run`
that walks the ladder (engine.rs:703-1298), for any number of concurrent runs.

| Model | Code |
|---|---|
| `cooldown[p]` | `cooldown_until`: `None`, in the future, or passed |
| `streak[p]`, `halfOpen[p]` | `consecutive_429s`, `half_open_in_flight` |
| `retryTokens` | the retry budget shared by all runs |
| `todo[r]`, `at[r]` | what is left of the iterator over the ladder, and its current provider |
| `reAsks[r]`, `calls[r]` | `re_asks_left`, and the provider calls made (`first_call` is `calls[r] = 0`) |
| `InCooldown`, `ClaimHalfOpen`, `OpenCooldown`, `ClearCooldown`, `Refill` | the tracker's methods, each under its mutex |
| `ConsultBreaker`, `ClaimProbe`, `SkipUnusable`, `FirstCall`, `FailoverCall`, `BudgetAbort` | a rung, lock by lock, up to the call |
| `Answer`, `SettleLimited`, `SettleError`, `SettleVerified`, `SettleReAsk`, `SettleRejected` | the answer and what the engine makes of it |
| `Expire` | the clock passing `cooldown_until` |

A clock reading is abstracted to what it decides. The order of the ladder is the
bandit's choice, and which providers the budget prunes is arbitrary. What an
adapter answers, and whether the output verifies, is up to the environment.
Latency and failure averages are left out, because nothing in the ladder's
control reads them.

Properties: `BreakerShape` (the three fields agree), `StreakBound` (backoff never
grows beyond the number of concurrent runs), `CallBound` (calls of a run),
`OrphanOnlyByAbort` and `OrphanForever` (who can leave a probe flag behind, and
what becomes of it), `EveryRunSettles` and `ProbeResolves` (termination; the
probe reports back).

## Engine: a run against the store

`Engine.tla` models `Engine::run` from the spend guard to the execution row
against the tables it reads and writes, for concurrent runs of one goal.

| Model | Code |
|---|---|
| `status`, `execution`, `failures`, `window`, `cache` | the rows of this goal in `tasks`, `executions`, `failure_memory`, `loop_history`, `solution_cache` |
| `unbooked[r]` | provider calls of the run less its rows in `execution_attempts` |
| `pc[r]` | the next store call, provider call or verdict of the run |
| `detector[r]`, `looped[r]` | the loop detector of the run, and `loop_detected` |
| `outcome[r]` | how the run is about to end |
| `Begin`, `Recall`, `Replay`, `Route` | spend guard, `has_goal_failure`, `persisted_loop_detected`, the first `save_task` |
| `EscalateLocally`, `AskLocally`, `ServeCached`, `CacheMiss`, `BudgetSentinel` | the ways to end without a provider, and past them |
| `Execute`, `SkipRung`, `CallProvider`, `ProviderAnswers`, `Accept`, `Cascade`, `ReAsk`, `Reject` | the ladder |
| `BookFailedLeg`, `RecordFailure`, `Observe`, `BookLoop` | the writes of a failed leg, in order |
| `TakeChain` | what an empty provider chain does: the run returns an error and writes nothing more |
| `BookSuccess`, `ClearLoopHistory`, `ClearGoalFailures`, `Admit` | the writes of a success, in order |
| `SaveOutcome`, `EvictSolution`, `RecordExecution` | the end of a run |
| `Restart`, `ForgetSolution` | a crash or restart with the retention pruning of `Engine::new`; TTL and LRU |

One action is one method of the store: each holds the connection mutex. Abstractions:

- One process. A restart loses all runs at once; retention prunes only then, as
  `Engine::new` does.
- Similarity of outputs is any reflexive relation, `Similar`, a constant: the
  edit distance is not computed. TLC instantiates it with equality.
- Which providers are skipped is arbitrary here; `Failover` models it.
- A verdict is arbitrary; the optional model-graded check is part of it.
- The insert and the pruning of `record_failure` and of `record_loop_attempt` are
  taken as one step. The bandit, drift, tracker and recorder writes are left out.
- The chain of a run is as long as some member of `Chains` says, 0 included: the
  defaults that stand in for a missing file enable no provider and are not
  validated (config.rs:375). `ProviderChain` models what is in it.
- `policy.reuse_cache` is on. Goals do not interact except by LRU eviction, which
  may take any entry at any time here.

`RunLifecycle.tla` is the abstract specification: what a caller, or a reader of
the database, may rely on. A task goes from Routed, through InProgress when
providers are involved, to one terminal status it never leaves; a run returns
only then, with its execution row, and with an error exactly if the task Failed.
One other end is in the code, and so in the specification: where no provider is enabled,
a run returns an error and leaves its task Routed, with no execution row
(`Unserve`, engine.rs:653-658). `Engine` implements it under the mapping `phase <- Phase` (what the run has
returned, or that it is running), with the task and execution rows as they are
(`FollowsLifecycle`). Two constants say where it may fall short: `Lossy`, a store that
refuses writes, and `Unserved`, a configuration that enables no provider.

## What outlives a run

### SolutionCache

`rows` is the table `solution_cache`, with output, `created_at` and
`COALESCE(last_hit_at, created_at)`; `place[r]` is the next store call of a run.
`PeekExact` and `PeekAlike` are the two peeks for the router, `LookupExact` and
`LookupAlike` the two lookups that serve, `DropPlaceholder` the eviction of an
answer that still holds a placeholder. `Verify` is the verdict that accepts an
answer, `Admit` its admission with the LRU trim, any number of steps of other runs later;
`NotAdmitted` and `Abandon` are the ends without one. `Fail` and `Evict` are the end
of a failed run, `EvictionLost` the same end where the store refuses the save or the
eviction, `Prune` the retention at startup. Reads are taken not to fail here. A goal
is its set of words, so Jaccard similarity is computed as the code does. `trusted`
and `outlived` are history variables: what may be under a key since it last failed,
and the keys whose failed run has yet to evict, or could not.

`HoldsTrusted` says how far a failure reaches: every row was verified since its key's last
failed run, or was in the hands of a run, verified and not yet admitted, when that
run failed. The second case is real: nothing holds verification and admission
together, so an answer in hand is admitted over the eviction, which the comment at
engine.rs:1299-1300 does not foresee. `ServedBest` says that an answer is served from a live row
than which none is more alike. Re-admission keeps `created_at`, so a refreshed answer
expires with the first one; the property takes that clock. In `cache_evict` a
failed run leaves the answers under other constraints.

### SpendLedger

`executions` maps the ids of the rows that are kept to the rows, `booked` those of
all that were ever written; a sum is over a set of ids. `stage[r]` is the
progress of a run past the daily and the monthly guard to its execution row, `bill[r]` what it will book. A failed run
books cost 0 and no provider, whatever its legs cost. `SpendGuardHolds`: the
guard is read once, before the run, so booked spend may pass the limit, but by
no more than one accepted answer for each concurrent run; and pruning never
takes a row that a guard sums, as long as retention covers a month.
`ReportsAgree`: summary, routes, providers and days tell one story.

### Migration

The statements of `Store::open` in their order, with the version checks that skip
blocks of them. A statement is what it adds; `IF NOT EXISTS` leaves what is there.
Several processes execute them one by one and may die, meet a lock, or ignore the
one error that is ignored (version 3). `LayoutIsHonest`: whoever returns a store
has the current layout, and the version never promises more than the file holds.
In `migration_oldest` a file from before `goal_hash` is refused for ever.

### Recorder

A blob is named by its payload instead of a digest. Every file operation is a step:
the existence check, the create, the fill, the append, the pruner's stat and its
unlink. `JournalBacked` says what a journal may name although it is not whole:
a blob that is being written, that is older than the retention, or one of two
named accidents, a writer that died over it or an unlink that acted on a stat
taken before a rewrite. Those two are real and the code does not guard against them.

### ContextIndex

`disk` changes under the indexer at any time; `stamps` is `file_cache`, `symbols`
the text whose symbols are stored, since the symbols are a function of it. The
cache is read before the transaction, files are stat-ed one by one and read one
by one, and the commit is atomic. `IndexIsSound`: a file the next run would skip is
indexed as it is, with one exception that whole-second timestamps make
unavoidable, a file edited again in the second it was read.

## What a call passes through

### Router and Workbench

A task is what the patterns of `extract_signals` find in it, word and token
counts are bands cut at the code's thresholds, confidence is in percent (the one
sum that floating point pushes below its decimal value is carried as such).
`Learn` resubmits the task after the store's view of its goal has changed.
`BadNewsIsFree`: a task that resolves without a provider still does after another
failure, a loop or the loss of its cached answer. `Workbench` evaluates datasets
over the same `Decide`, on the desktop, on the command line and in the sweep, and
compares policies. `PanelsAgree` relates the panels to one another. The front ends
read constraints differently: the desktop trims them and drops blank ones, the command line
hashes them as they are, so it may miss a cached answer the desktop reuses. The property
lets the two reports differ on such datasets, and only on those. Costs are whole
numbers; averages round down, latencies, treated like costs, are left out.
Learned routing appears in previews only: `Engine::run` never takes it.

### ProviderChain and AttemptPlan

`ProviderChain` walks the rules of any valid configuration, cyclic and
self-referring ones included. `ChainIsComplete`: each enabled provider once.
`WalkEnds`: each step of the walk sees a new provider. `AttemptPlan` orders the
chain by utility and bandit weight, as fractions, after the sentinel has dropped
what is over the budget; a stable sort is stated by rank, the number of rows that
go ahead of one. `BetterFirst`: no comparison is turned around anywhere
between pricing and the plan; of two equals the one with the lower priority number, then
the smaller name, goes first (`Rank`), as both sorts have it, wherever the chain
put them. `BudgetHolds`: nothing that was priced is called
above the ceiling, and the batch planner's verdict is that of a run. A provider the
pricer filtered out has no quote, is never pruned by the sentinel and stays at
the end of the plan; the property says so.

### Bandit

Every atomic operation is a step, the compare-exchange loop included, and so are
the two reads of `arm_sums`, the save and the attempt rows. Rows and recorded
outcomes do not match one to one: a rejected answer that loops writes two rows, an
answer below the cascade threshold writes one and is not recorded, and a failing save
leaves neither. A success is worth 1. `EvidenceHolds`: in memory no outcome is lost nor counted
twice; across restarts an arm never knows a success that was not recorded, and no
pull beyond the recorded calls but for those surplus rows (`borrowed`), once a
process has started from rows instead of saved sums. It may know less: sums overtaken by
later ones are saved over them, and one saved arm keeps all others from
being hydrated from their attempt rows.

### Adapter

One reply is read by all adapters, in pieces, up to the limit. `SameVerdict`: they
agree on its kind, which is what failover reacts to, except for an answer
without text, which is an error to Anthropic and may be an empty answer to the
others; a body over the limit is an answer to none.

### MaskCodec, JsonRescue, BraceScan and Verify

Texts are sequences of the tokens the code tells apart. `MaskCodec` applies four
rules that stand for the seventeen by how they match (whole, captured value,
enclosing span, with exceptions), and unmasks an echo as often as there are
placeholders. `HiddenAndRestorable`: no secret is left, and repeated passes
restore the prompt, unless it held the text of a placeholder to begin with. One
pass need not (`mask_nested`). `JsonRescue` is the
parser, byte by byte, over documents cut anywhere; their encoder belongs to the
environment. `ClosesWhatWasOpened`: every proper prefix is rescued to the document cut
short, less the characters that are escaped as a surrogate pair, since the lenient
parser decodes each half alone and drops it (jsonrescue.rs:206-219); a longer prefix gives back
no less, and the whole document is read strictly, with its pairs. `rescue_escape` is its broken
safety comment. `BraceScan` is the scan with its literal and comment modes, one
branch an action, over outputs made of characters of code and of literals and
comments that are whole by the grammar of the language (`ScanAssumption`); `Verify` adds the static checks, over facts about the text, and the
command of the route. `CountsCodeOnly`: an output is rejected as truncated for
the brackets of its code only.

### EditDistance, PrefixFit, SymbolScan

`EditDistance` runs the block algorithm in words of `Width` bits, with wrapping
addition, shifts and the carry between blocks; `WordsAgreeWithTable` compares it
with the two-row table after every character. `PrefixFit` is the binary search over
any monotone count; `FindsLargest` is its postcondition. `SymbolScan` follows
braces or indentation within a window; `DeclarationsCovered` says which symbol holds
a declaration and how symbols overlap.

### RunConsole

The form, the preview, the spawned task, its channel and the telemetry of the
desktop application. `OneRunAtATime`: the flag is set exactly while a run is
under way, waits to be shown, or was lost to a panic, after which it stays set until
the application is restarted.

## Runs

| Run | Instance | What it shows |
|---|---|---|
| `failover` | 2 runs; 2 usable providers and 1 not; budget for 1 failover and a refill; 1 re-ask | the breaker's invariants, who orphans a probe, that nothing recovers it |
| `failover_live` | 2 runs, 2 providers, fair | every run ends; a probe reports back unless its run aborts |
| `engine` | 2 runs, 1 key, 2 outputs, 2 rungs, window of 2 | types, the loop lock-out, the lifecycle, with restarts |
| `engine_one_run` | 1 run, 2 keys, 4 outputs, 3 rungs, 1 re-ask, 1 cascade, window of 3 | the attempt ledger; what sequential clients get from the memory of earlier runs |
| `engine_faults` | 1 run, 2 outputs, 2 rungs, window of 2, any read or write may fail, fair | every run returns |
| `storage` | two actors in each of the five storage components | `StorageTypeOK`, `HoldsTrusted`, `ServedBest`, `SpendGuardHolds`, `ReportsAgree`, `LayoutIsHonest`, `JournalBacked`, `IndexIsSound` |
| `calls` | each of the thirteen call components on its own instance | the properties of the section above |
| `failover_leak`, `cache_evict`, `migration_oldest`, `mask_nested`, `rescue_escape` | the smallest instance that shows it | five statements of comments that do not hold (below) |

**Bounds, and why they are enough.** Two runs give every pairwise race on one
breaker, one window, one cache entry, one file or one blob; no step relates more
than two. Three providers give a ladder with a rung before, at and after the one in
question. `RetryTokenCap` and `RetryCost` (100 and 10 in the code) become 3 and 2:
enough for one failover, with a remainder a success can refill, so both the paid
failover and the abort are reached. `LoopWindow` and `MaxFailures` (5 in the code)
become 2 or 3: the window fills, overflows and prunes within one ladder, and
holds repetitions that are adjacent and ones that are not. `Rungs`, `ReAskLimit`
and `CascadeLimit` are 0 to 3, so each way to go round the ladder is taken and
exhausted; some runs find an empty chain. `calls` saturates one above its bound, so passing it would show.

In `storage`, three nested goals make the most alike row differ from the others that
are alike enough, and two rows fit, so the LRU evicts; time ends at 1 with a time to
live of 0, so every row can expire, and retention of 1 prunes nothing that is live,
as 30 days do not for a time to live of 7. The spend limits of 1 and 2 can be met and
overshot by two runs at a price of 1 within three time units, longer than both the
month and the retention. Three old layouts fall before each
version. One file with two readable texts of one size and a binary one, or one
payload, is what a stamp or a digest can confuse; two writers or indexers race on it.

In `calls`, three providers with costs below, at and above a ceiling of 2 and
utilities that tie or cross give every comparison. Two rules over three names
close cycles and self-loops. Two arms, two callers and one restart
reach each overlap of two updates with a save. Four tokens nest masking rules; three
pieces of source put a literal or comment between two brackets. Words of 2 bits
under patterns of 5 give three blocks, with carries across each boundary. `Window` (400)
is 3 and `Lookahead` (3) is 1 over files of four lines, so blocks end within,
at and beyond the window. `MaxDepth` (of the JSON parser) is 2, with documents below,
at and above it. Identifiers are symmetric where the runs say so, never under liveness.
The bounds of what is proved are constants of the theorems.

**Fairness.** `FairSpec` asks weak fairness of each run's own steps, nothing of
`Begin`, `Restart`, `Expire` or `ForgetSolution`. A step of a run is a lock that is
held for a few statements, a store call (SQLite waits at most its 5 s busy
timeout and then returns an error) or a provider call, which ends by its own timeout
(provider.rs:381, 473, 615). Verification by an external command is taken to return.
Runs are threads or tasks of their own, so one cannot starve another for ever.

**Deadlock** is checked but in `storage`, `calls`, `mask_nested` and
`rescue_escape`, whose scans and searches end, and whose clocks are bounded.

## Theorems

Proved for all values of the constants, under the assumptions the modules name:
finite sets of runs, names, writers, rows and the like; budgets, limits, windows
and prices that are natural numbers; a reflexive `Similar`; an order of names that
lists each once; layouts of old files whose version promises no more than they
hold (`MigrationAssumption`); measures of a provider in whole units, with failures,
pressures and weights in the ranges the code clamps them to (`PlanAssumption`);
lines that declare something are not blank (`SymbolAssumption`); placeholders that
are distinct, enough for the prompt, and not of the form of a secret, as the counter
in them makes them (`MaskAssumption`); literals that are whole, that is quoted,
raw, or comments, each up to its first end, and code that starts none
(`ScanAssumption`). TLC evaluates each
of them in the runs.

`FailoverProofs`:

| Theorem | Says | Rests on |
|---|---|---|
| `TypeCorrect`, `BreakerShapeHolds` | types; the fields of a breaker agree | `Core`: the two together with `LadderShape` (a run past the breaker stands at a provider) and `UnusableIdle`, without which an arbitrary state could settle an answer of no provider |
| `StreakBounded` | a streak never passes the number of runs | `StreakRoom`: while a window is open, streak plus calls in flight is at most the number of runs. The bound alone is not inductive: a run in flight could push a full streak over it. A window admits nobody, so each run in flight pays for the one increment it can make |
| `CallsBounded` | at most one call per rung and per re-ask | `CallRoom`: calls made, rungs left, the rung in hand and re-asks left add up to at most the limit |
| `OnlyAbortsOrphan`, `OrphansStay` | the budget abort is the only way to leave a probe flag behind, and it stays for the life of the process | `Core` |
| `SoloSkipsWhileOpen` | with one run at a time no call starts in a cooldown window | `WindowShut`: what the run saw at the breaker still holds at the call. With two runs it does not: check and claim take the lock separately |

`EngineProofs`:

| Theorem | Says | Rests on |
|---|---|---|
| `ImplementsLifecycle` | `Engine` implements `RunLifecycle`, whether or not writes may fail and chains be empty | `LifeInv`: each place in the code fixes the status of the task (`Stage`), and with it the next status and the outcome that may be saved. Every step is then a `Start`, `Move`, `Return`, `GiveUp`, `Unserve`, `Crash` or a stutter |
| `LedgerBalanced` | if no write fails, rows equal calls less re-asks plus the loop row when a run returns | `LedgerInv`: between calls the difference is within the re-asks spent, one more while a call is due (`Balanced`), and the loop row is written only after a loop (`LoopInv`) |
| `LoopLocks` | if no read or write fails, a loop in the window keeps the goal from the providers until retention | `LoopInv`: a run that saw a loop is never on a path to a provider (`Clear`) |
| `TypeCorrect` | types: window, failure memory and counters within their caps | `TypeInv`: rungs and re-asks spent bound the ledger, and a run that is about to store an output holds one (`Bounded`); lemmas on what appending and trimming a window returns |

| `DetectorSeesWindow`, `CachedIsFree`, `LoopKept`, `DoneIsForgiven` | what a client that runs one task at a time gets from the memory of earlier runs: `DetectorAgrees`, `NoPaidRepeat`, `LoopAbortKept`, `SuccessForgives` | `SoloInv`: from the read on, the detector is the window and the cache had no row (`Solo`); a success has emptied window and failure memory before it admits; a loop that ends the ladder is in the window or repeats only the row it has pushed out of a full one (`CaughtWindow`) |

Ledger and lock-out assume `~StoreMayFail`: with lost writes they are false, and the
code does not promise otherwise. The four of the last row assume besides that there
is one run (`\A q, r \in Runs : q = r`): two concurrent runs do break them, since each
then acts on what it read before the other's write.

`StoreProofs` (the tables) and `DiskProofs` (files and index):

| Theorem | Says | Rests on |
|---|---|---|
| `CacheHoldsTrusted` | but for keys whose failed run has yet to evict or could not, every row was verified under its key since the key's last failed run, was in a run's hands then, or is a legacy row | `CacheInv`: the property with the types of rows and keys (`TableOK`), and that what waits for admission is trusted: verification puts it there, and a failure leaves the key exactly what is waiting. Expiry, hits and the LRU bound only drop rows or touch their times |
| `BestIsServed` | an answer comes from a live row than which none is more alike, and from the row of the run's own key without a semantic cache | `CacheInv` with `AlikeOnly`: the similar rows are searched only if there is a threshold. The winner of the search exists since similarities are numbers in a finite table |
| `LayoutKept` | a store that opened has the current layout, and the version never promises more than the file holds | `MigrationInv`: an opener before statement `n` has seen all earlier ones take effect, by itself or by another, and so has the file of a version for the statements before the one that sets it (`TookTo`). Statements only add, so it stays (`TookStays`), although openers interleave and die anywhere. The bandit's table is exempt up to version 2, where old files lack it |
| `JournalsBacked` | what a journal names is stored, up to the stated exceptions | `RecorderInv`: a partial blob is being written or its writer died (`PartsOK`), a blob gone under its writer was pruned (`GoneOK`), what is about to be appended is backed already (`AppendOK`), and what the pruner is about to unlink was old when it looked (`PrunerOK`) |
| `IndexSound` | a file the next indexing skips is indexed as it is, but for an edit in the second it was read | `IndexInv`: stamps are never later than the reading behind them nor than the clock (`StampsPast`), one indexer reads at a time (`OneReads`, the write lock), and what a transaction holds of a file is its text unless it was edited in that second or later (`StagedSound`). Without the last, the stamp found before the transaction could be newer than the text read in it |
| `StorageTyped` | the five storage components keep what their types say | `StorageInv`: their invariants above side by side, with the types of what is peeked at (`PeeksTyped`). A step of `MCStorage` is a step of one component and a stutter of the others |

`TallyProofs` (sums):

| Theorem | Says | Rests on |
|---|---|---|
| `EvidenceKept` | the bandit never has evidence that no call gave, and within one process has all of it when nobody is in between; a start from rows adds at most the surplus rows | `BanditInv`: each counter plus what the callers under way have still to add (`Over`) is at most what was called, and equal to it before the first restart (`Bounded`, `Exact`); saved sums and attempt rows are behind the calls and the surplus rows (`SumsBehind`, `RowsBehind`). A step moves one caller, so each sum changes by the share of that one (`CallerMoves`) |
| `GuardKept` | the booked spend of a day stays below the limit plus one answer per concurrent run; pruning takes no row a guard sums | `SpendInv`: every run past the guard holds back one `MaxPrice` (`Reserved`), and a row that is not kept is past its retention (`KeptRows`) |
| `ReportsTellOneStory` | routes add up to the headline, providers to headline and mock, no sum of days exceeds it | the types alone; the work is in `GroupedReport`: a sum over rows is the sum over any grouping of them |

`CallProofs` (what a call passes through):

| Theorem | Says | Rests on |
|---|---|---|
| `BadNewsBuysNothing` | a task that resolves without a call still does after more bad news | `RouterInv`: the route on display is the decision of the task and what is known of it. The rest compares two runs of the ladder, rung by rung |
| `PanelsTellOneStory` | sweep, reports and comparison agree; desktop and command line where trimming changes nothing | `BenchInv`: each panel holds what its loop computes from the dataset, the sweep in the order of its thresholds (`SweepOK`). Then sums of costs are compared task by task: raising the threshold turns a call into a question and nothing else |
| `OneRun` | the one-run slot, for any requests and any bound on runs, with panics or without | `ConsoleInv`: the property with the types that a channel of at most one message needs, and that a result on screen is one that was recorded |
| `ChainComplete` | the chain offers every enabled provider exactly once | `ChainInv`: along the walk the chain lists the enabled providers among those visited, without repetition (`ListsSeen`), so that appending the sorted rest completes it |
| `WalkSeesMore` | every step of the walk visits one provider more | `ChainInv`: validation makes every fallback a configured name (`ConfigOK`), and the walk stops at one it has visited |
| `BetterOnesFirst` | no provider is attempted before one that dominates it and is first of equals by priority and name | `PlanInv`: what pricing and plan list is a rank of the offers. Utility, then weighted utility, is monotone in each measure, so who is dominated has no fewer ahead of it. Products of fractions are compared crosswise |
| `BudgetKept` | what was priced is called within the ceiling; a row blocked in the batch planner is a run that calls nobody, and the converse where the request fits every provider | `PlanInv` |
| `OneVerdict` | two adapters that heard one reply report the same kind | `AdapterInv`: what an adapter has read is a part of the reply within the limit, and its stage says what it has told |

`TextProofs` (texts):

| Theorem | Says | Rests on |
|---|---|---|
| `FitsAndLargest` | the postcondition of the search, for every number of symbols, every budget and every monotone count | `FitInv`: all prefixes up to the best fit, none above `high` does, and the best is the one before `low`. Termination is not claimed |
| `EveryDeclaration` | every declaration the scan has passed is in a symbol, and symbols nest or are apart | `SymbolScanInv`: up to the line the scan stands at, each declaration has its symbol, none ends beyond the window, and a block by braces ends before the scan goes on |
| `SecretsHidden` | no secret is on the wire, one placeholder for each, and as many passes as placeholders restore the prompt | `MaskInv`: the prefix the current rule has passed, and all of the text for the rules before it, hold nothing they would mask (`HiddenSoFar`); each placeholder stands for one secret (`OneSecretEach`), and there are enough of them, since what may still be masked is at most what is left of them (`MaskTypes`); and the text expands to the prompt through a vault completed with what the placeholders stand for in the end (`NothingLost`), which each pass of unmask keeps while the placeholders still to expand decrease by one (`Restores`). The last is what nested rules need: an earlier placeholder inside a later secret has a smaller number than the one that hides it |
| `CodeCounted` | an output is turned down as truncated for the brackets of its code alone | `ScanInv`: the scan stands between two pieces, in code mode with the balance of the code so far (`Between`), or within a literal at a place from which it can only reach the end of that literal in the mode that belongs to it (`Within`); `VerdictInv`: the verdict is that of the balance the scan ended with |

**Induction.** A theorem of the library that takes an operator cannot be
instantiated, so induction is made from what can: a set of natural numbers
that is not empty has a least member (`LeastOf`), hence a set that holds 0 and every
successor is all of them (`NatSetInduction`), and likewise for finite sets
(`FiniteSetInduction`). The sets are written down where they are used. This carries
the sums of `TallyProofs` and `PanelsTellOneStory`, and, over the length of a
sequence, what `FlattenSeq` concatenates (`Flattens`) and what repeated
unmasking leaves.

**Only model-checked.**

- `EveryRunSettles`, `ProbeResolves` and `EveryRunReturns`: liveness under fairness.
- `ClosesWhatWasOpened` and `WordsAgreeWithTable`: `JsonRescue` is a recursive
  parser and `EditDistance` works on the bits of words, with operators that the
  provers do not support.
- The stated violations are counterexamples and have nothing to prove.

## Where code and documentation disagree

Shown by runs:

1. **A probe can be lost** (`failover_leak`). The retry-budget abort leaves the
   ladder between claiming the half-open probe and the call. No probe is in
   progress, yet every later run skips the provider as if one were, for the life
   of the process (`OrphansStay`).
2. **A failed goal can serve a stale answer** (`cache_evict`): eviction takes
   the row of the failed run's own constraints only.
3. **The oldest files do not open** (`migration_oldest`): the schema indexes a
   column before the migration that adds it.
4. **Masking is not lossless** (`mask_nested`): a key that is assigned to a name is
   masked as a key, and its placeholder is masked again as the assigned value;
   unmasking is one pass and gives back the inner placeholder. The module says
   "lossless: unmask(mask(x)) == x for every detected span" (maskcodec.rs:15).
5. **The JSON cursor can leave a character boundary** (`rescue_escape`), although
   the safety comment rules it out: an escape consumes one byte.

Seen while modelling, and stated in the models but not by runs of their own:

- The 429 of a probe arrives after its window has passed, which resets the streak
  (pricing.rs:259): for a sequential client backoff never doubles.
- The live loop detector compares before it trims, the replay after, so the oldest
  output of a full window counts for one and not for the other. The window is keyed
  by the task alone, so changed constraints do not help a looping goal.
- A re-asked call has no attempt row.
- Retention shorter than a month makes the monthly guard undercount.
  `get_daily_spend` shows the oldest days, not the latest. A failed run books cost
  zero although rejected legs were paid for.
- The schema version becomes 3 even if its one column could not be added.
- The CLI evaluates items without an expected route, which the desktop refuses.
- A verification command may report `NaN` as its score, which clamping keeps.
- `running` stays set if the task of a run panics.
- A prompt that itself holds the text of a placeholder is not restored: unmask
  replaces it by the secret of the same number.
- A run for which no provider is enabled leaves its task Routed for ever, without an
  execution row (engine.rs:653-658).
- An answer that is verified before another run of its request fails is admitted after
  that run's eviction.
- The CLI hashes blank constraints that the desktop drops, so their cache keys differ.
- A truncated document loses the characters escaped as surrogate pairs.
- A rejected answer that loops counts twice where the bandit starts from attempt rows.

## Not modelled

- **payload, tokenizer**: formatting and counting, without state or decisions.
- **config** other than rules and chain, and provider request bodies: reading files,
  defaults and formatting.
- **nativeapp** beyond the console, the panels and the batch verdict: immediate-mode
  rendering of store queries; the console leaves out that reading the telemetry may fail
  (nativeapp.rs:417-420), which changes what is displayed. **cli** beyond evaluation: each command prints what
  one call returns.
- In **provider**, the decoders of the three wire formats are mapped to the
  OpenAI one; they differ in the names of fields, and in the answers without text that
  `SameVerdict` excepts.
- In the **bandit**, hydration from the final executions where an arm has no attempt row.
- In **pricing**, the moving averages and `DriftWatchdog`: arithmetic over
  floating-point numbers whose values reach the models as small integers.
- In **store**, chained audit rows and request statistics; in **contextidx**, the
  ranking of the full-text query, which is external.
- In **engine**, the model-graded verifier is part of an arbitrary verdict (its own
  provider call, engine.rs:900, is not counted in `CallBound`), the second cache
  lookup is that of a run whose cache no other run fills in between (`CachedIsFree`
  is for one run at a time), and the composition of cache, bandit and tracker into one state space with `Engine`: each
  abstracts the others by nondeterminism.

## What is left

Every invariant and every action property that a passing run checks is proved for
all values of the constants, with two exceptions: `ClosesWhatWasOpened` and
`WordsAgreeWithTable`, for which the provers lack the recursion and the bit
operations. Liveness is checked on small instances only. Two hazards have no
property, since nothing in the code would make one true: breaker windows are saved
but never loaded (store.rs:1375), and a failed run books cost zero (engine.rs:1305).
