------------------------------- MODULE Router -------------------------------
(***************************************************************************)
(* The zero-token router (src/src/kernel.rs): signals are extracted from   *)
(* the wording of a task and from what the engine knows of its goal, and   *)
(* the first rung of a ladder that applies decides the route.              *)
(*                                                                         *)
(* A task is what the patterns find in it; what the engine knows changes   *)
(* while the same task is submitted again and again.  Confidence is in     *)
(* percent, word and token counts are bands cut at the code's thresholds.  *)
(***************************************************************************)
EXTENDS Integers

CONSTANTS
  Policy,            \* cfg.policy, a RouterPolicy
  TokenBands,        \* the token estimates considered
  NoTask

\* ask: ask_threshold, in percent; direct: direct_max_tokens; delegation:
\* delegation_penalty * delegation_min_scale; learned: opt_in_learned_routing.
RouterPolicy == [ask : 0..100, direct : Nat, delegation : Nat, learned : BOOLEAN]

VARIABLES
  task,    \* the wording of the task, or NoTask
  tokens,  \* estimated_tokens
  known,   \* what the engine knows of the goal
  route

routerVars == <<task, tokens, known, route>>

\* Words: below 3, up to 40, up to 200, and more.
WordBands == {"few", "some", "many", "unbounded"}

Task == [vague : 0..3, words : WordBands, trivial : BOOLEAN, localized : BOOLEAN,
         repetitive : BOOLEAN, external : BOOLEAN, conflict : BOOLEAN, safety : BOOLEAN,
         unspecified : BOOLEAN]
Known == [solved : BOOLEAN, failed : BOOLEAN, looping : BOOLEAN]
Routes == {"DIRECT", "REUSE", "PATCH", "IMPLEMENT", "PARTIAL", "DELEGATE", "ASK",
           "ESCALATE-CONFLICT", "ESCALATE-SAFETY", "ESCALATE-EXTERNAL"}

ASSUME RouterAssumption ==
  Policy \in RouterPolicy /\ TokenBands \subseteq Nat /\ NoTask \notin Task

-----------------------------------------------------------------------------
(* Route. *)

Terminal == {"ASK", "ESCALATE-CONFLICT", "ESCALATE-SAFETY", "ESCALATE-EXTERNAL"}

\* In hundredths of a cent.
Cost(r) == CASE r \in Terminal -> 5
             [] r = "DIRECT" -> 10
             [] r \in {"REUSE", "PATCH"} -> 50
             [] r \in {"IMPLEMENT", "PARTIAL", "DELEGATE"} -> 200

-----------------------------------------------------------------------------
(* extract_signals. *)

Less(cond, n) == IF cond THEN 0 - n ELSE 0

Confidence(t, k) ==
  LET conf == 90 + Less(t.vague > 0, 35 + 25 * (t.vague - 1)) + Less(t.words = "few", 40)
                 + Less(k.failed, 20) + Less(t.unspecified, 50)
                 + Less(k.failed /\ t.unspecified, 1)  \* 0.9 - 0.2 - 0.5 < 0.2, in f64
  IN IF conf < 0 THEN 0 ELSE conf

Trivial(t) == t.trivial /\ t.words \in {"few", "some"}
Bounded(t) == t.words # "unbounded"

-----------------------------------------------------------------------------
(* decide: the ladder. *)

\* Mutant: a task is asked about only before it has failed.
BlockedOnce(p, t, k) == t.unspecified \/ (~k.failed /\ Confidence(t, k) < p.ask)

Blocked(p, t, k) == t.unspecified \/ Confidence(t, k) < p.ask

\* The rungs below the information block.
Productive(p, t, n, k) ==
  IF Trivial(t) /\ n <= p.direct THEN "DIRECT"
  ELSE IF k.solved THEN "REUSE"
  ELSE IF t.localized /\ ~k.failed THEN "PATCH"
  ELSE IF t.external THEN "PARTIAL"
  ELSE IF t.repetitive /\ Bounded(t) /\ n > p.delegation THEN "DELEGATE"
  ELSE "IMPLEMENT"

Decide(p, t, n, k) ==
  IF t.safety THEN "ESCALATE-SAFETY"
  ELSE IF t.conflict THEN "ESCALATE-CONFLICT"
  ELSE IF k.looping \/ (t.external /\ ~Bounded(t)) THEN "ESCALATE-EXTERNAL"
  ELSE IF Blocked(p, t, k) THEN "ASK"
  ELSE Productive(p, t, n, k)

\* What every panel shows (route_only_with_policy_constraints): where the policy
\* asks for it and confidence is low but not lowest, the route of the most
\* similar task that succeeded, if there is one.  A run never takes it.
NoRoute == "none"
Preview(p, t, n, k, past) ==
  IF p.learned /\ Confidence(t, k) \in 20..49 /\ past # NoRoute
  THEN past ELSE Decide(p, t, n, k)

-----------------------------------------------------------------------------
Unknown == [solved |-> FALSE, failed |-> FALSE, looping |-> FALSE]

RouterInit == task = NoTask /\ tokens = 0 /\ known = Unknown /\ route = NoRoute

\* The first submission of a task.
Submit ==
  /\ task = NoTask
  /\ task' \in Task /\ tokens' \in TokenBands /\ known' \in Known
  /\ route' = Decide(Policy, task', tokens', known')

\* The same task again, after what the engine knows of its goal has changed: a
\* failure or a loop was recorded, or they were cleared when a run succeeded and
\* its answer was cached; the answer expired or was evicted.
Learn(what) ==
  /\ task # NoTask /\ known # what
  /\ known' = what
  /\ route' = Decide(Policy, task, tokens, what)
  /\ UNCHANGED <<task, tokens>>

GoalFails == Learn([known EXCEPT !.failed = TRUE])
GoalLoops == Learn([known EXCEPT !.failed = TRUE, !.looping = TRUE])
GoalSolved == Learn([solved |-> TRUE, failed |-> FALSE, looping |-> FALSE])
AnswerLost == Learn([known EXCEPT !.solved = FALSE])

RouterNext == Submit \/ GoalFails \/ GoalLoops \/ GoalSolved \/ AnswerLost

RouterSpec == RouterInit /\ [][RouterNext]_routerVars

-----------------------------------------------------------------------------
(* Properties. *)

\* A step that only adds to what stands against the goal.
Worse == /\ task # NoTask
         /\ known.failed => known'.failed
         /\ known.looping => known'.looping
         /\ known'.solved => known.solved

\* Bad news never buys a call: whatever a task says, if it resolves locally it
\* still does after its goal has failed or looped again, or its cached answer is
\* lost: no lower rung of the ladder opens when a higher one closes, and none of
\* the penalties on its confidence is ever undone (kernel.rs:363-433, 472-531).
BadNewsIsFree ==
  [][Worse /\ route \in Terminal => route' \in Terminal]_routerVars
=============================================================================
