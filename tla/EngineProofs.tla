---------------------------- MODULE EngineProofs ----------------------------
(***************************************************************************)
(* Theorems about Engine for every number of runs, keys, outputs, rungs,   *)
(* every limit and every similarity of outputs.                            *)
(***************************************************************************)
EXTENDS Engine, SequenceTheorems, TLAPS

-----------------------------------------------------------------------------
(* The run's place in the code fixes the status of its task. *)

LifeTypes ==
  /\ pc \in [Runs -> Places]
  /\ status \in [Runs -> Statuses]
  /\ execution \in [Runs -> {"none", "success", "failure"}]
  /\ outcome \in [Runs -> Outcomes]

Stage(r) ==
  /\ pc[r] \in {"recall", "replay", "route"} => status[r] = "none"
  /\ pc[r] \in {"lookup", "sentinel"} => status[r] = "Routed"
  /\ pc[r] \in Ladder \union Success => status[r] = "InProgress"
  /\ pc[r] = "finish" =>
       \/ status[r] = "Routed" /\ outcome[r] \in Outcomes \ {"Failed"}
       \/ status[r] = "InProgress" /\ outcome[r] \in {"Done", "Failed"}
  /\ pc[r] = "evict" => outcome[r] = "Failed"
  /\ pc[r] \in {"evict", "book"} => status[r] = StatusOf(outcome[r])

LifeInv == LifeTypes /\ \A r \in Runs : Stage(r)

LEMMA LifeInit == Init => LifeInv
  BY DEF Init, LifeInv, LifeTypes, Stage, Places, Statuses, Outcomes, Ladder, Success, Returned

-----------------------------------------------------------------------------
(* Every step keeps the invariant and is a step of the lifecycle. *)

Running == Places \ ({"idle"} \union Returned)

\* What the lifecycle allows a running task.
Allowed(r) ==
  \/ Lifecycle!Move(r) \/ Lifecycle!Return(r) \/ Lifecycle!GiveUp(r) \/ Lifecycle!Unserve(r)
  \/ UNCHANGED Lifecycle!vars

LEMMA LifeBegin ==
  ASSUME LifeInv, NEW r \in Runs, Begin(r)
  PROVE  LifeInv' /\ Lifecycle!Start(r)
<1> USE DEF LifeInv, LifeTypes, Begin, GoTo, Returned
<1>1. PICK p \in {"recall", "err"} : pc' = [pc EXCEPT ![r] = p]
  OBVIOUS
<1>2. LifeTypes'
  BY <1>1 DEF Places, Statuses, Outcomes
<1>3. \A q \in Runs : Stage(q)'
  BY <1>1 DEF Stage, Ladder, Success, StatusOf, Outcomes
<1>4. Lifecycle!Start(r)
  <2>1. Phase(r) # "running"
    BY DEF Phase
  <2>2. PICK ph \in {"running", "err"} :
          [q \in Runs |-> Phase(q)]' = [[q \in Runs |-> Phase(q)] EXCEPT ![r] = ph]
    BY <1>1 DEF Phase
  <2> QED
    BY <2>1, <2>2 DEF Lifecycle!Start
<1> QED
  BY <1>2, <1>3, <1>4

\* A step inside the run, invisible from outside.
LEMMA LifeInside ==
  ASSUME LifeInv, NEW r \in Runs, NEW place \in Running, pc[r] \in Running, GoTo(r, place),
         UNCHANGED <<status, execution>>, outcome' \in [Runs -> Outcomes],
         \A q \in Runs \ {r} : outcome'[q] = outcome[q], Stage(r)'
  PROVE  LifeInv' /\ UNCHANGED Lifecycle!vars
<1> USE DEF LifeInv, LifeTypes, GoTo
<1>1. LifeTypes'
  BY DEF Running
<1>2. ASSUME NEW q \in Runs PROVE Stage(q)'
  <2>1. CASE q = r
    BY <2>1
  <2>2. CASE q # r
    <3>1. pc'[q] = pc[q] /\ status'[q] = status[q] /\ outcome'[q] = outcome[q]
      BY <2>2
    <3> QED
      BY <3>1 DEF Stage
  <2> QED
    BY <2>1, <2>2
<1>3. [q \in Runs |-> Phase(q)]' = [q \in Runs |-> Phase(q)]
  BY DEF Phase, Running
<1> QED
  BY <1>1, <1>2, <1>3 DEF Lifecycle!vars

\* Saving a status the lifecycle allows, or giving the run up.
LEMMA LifeSave ==
  ASSUME LifeInv, NEW r \in Runs, NEW s \in Statuses, NEW place \in Running, pc[r] \in Running,
         SaveTask(r, s, place), <<status[r], s>> \in Lifecycle!Follows,
         UNCHANGED <<execution, outcome>>,
         status'[r] = s /\ pc'[r] = place => Stage(r)'
  PROVE  LifeInv' /\ Allowed(r)
<1> USE DEF LifeInv, LifeTypes, GoTo
<1>1. CASE status' = [status EXCEPT ![r] = s] /\ GoTo(r, place)
  <2>1. LifeTypes'
    BY <1>1 DEF Running
  <2>2. ASSUME NEW q \in Runs PROVE Stage(q)'
    <3>1. CASE q = r
      BY <1>1, <3>1 DEF Running
    <3>2. CASE q # r
      <4>1. pc'[q] = pc[q] /\ status'[q] = status[q] /\ outcome'[q] = outcome[q]
        BY <1>1, <3>2
      <4> QED
        BY <4>1 DEF Stage
    <3> QED
      BY <3>1, <3>2
  <2>3. [q \in Runs |-> Phase(q)]' = [q \in Runs |-> Phase(q)]
    BY <1>1 DEF Phase, Running
  <2>4. Lifecycle!Move(r)
    BY <1>1, <2>3 DEF Lifecycle!Move, Phase, Running
  <2> QED
    BY <2>1, <2>2, <2>4 DEF Allowed
<1>2. CASE StoreMayFail /\ GoTo(r, "err") /\ UNCHANGED status
  <2>1. LifeTypes'
    BY <1>2 DEF Places, Returned
  <2>2. ASSUME NEW q \in Runs PROVE Stage(q)'
    BY <1>2 DEF Stage, Ladder, Success
  <2>3. [q \in Runs |-> Phase(q)]' = [[q \in Runs |-> Phase(q)] EXCEPT ![r] = "err"]
    BY <1>2 DEF Phase, Returned
  <2>4. Lifecycle!GiveUp(r)
    BY <1>2, <2>3 DEF Lifecycle!GiveUp, Phase, Running
  <2> QED
    BY <2>1, <2>2, <2>4 DEF Allowed
<1> QED
  BY <1>1, <1>2 DEF SaveTask

\* From one place of the ladder, or of what follows success, to another.
LEMMA LifeLadder ==
  ASSUME LifeInv, NEW r \in Runs, pc[r] \in Ladder \union Success,
         NEW place \in Ladder \union Success, pc' = [pc EXCEPT ![r] = place],
         UNCHANGED <<status, execution, outcome>>
  PROVE  LifeInv' /\ Allowed(r)
<1>1. Stage(r)'
  BY DEF LifeInv, LifeTypes, Stage, Places, Ladder, Success, Returned
<1>2. GoTo(r, place) /\ pc[r] \in Running /\ place \in Running
  BY DEF GoTo, Running, Places, Ladder, Success, Returned
<1>3. outcome' \in [Runs -> Outcomes] /\ \A q \in Runs \ {r} : outcome'[q] = outcome[q]
  BY DEF LifeInv, LifeTypes
<1> QED
  BY <1>1, <1>2, <1>3, LifeInside DEF Allowed

LEMMA LifeStep ==
  ASSUME LifeInv, NEW r \in Runs, Step(r)
  PROVE  LifeInv' /\ Allowed(r)
<1> USE DEF Running, Places, Ladder, Success, Returned
<1> DEFINE Types == /\ pc[r] \in Places /\ outcome \in [Runs -> Outcomes]
                    /\ pc \in [Runs -> Places]
<1>0. Types /\ Stage(r)
  BY DEF LifeInv, LifeTypes
<1>1. CASE Recall(r)
  <2>1. CASE GoTo(r, "replay")
    <3>1. Stage(r)'
      BY <1>0, <1>1, <2>1 DEF Recall, GoTo, Stage, store, locals
    <3> QED
      BY <1>0, <1>1, <2>1, <3>1, LifeInside DEF Recall, store, locals, Allowed
  <2>2. CASE StoreMayFail /\ GoTo(r, "err")
    <3>1. LifeInv'
      BY <1>1, <2>2 DEF LifeInv, LifeTypes, Recall, GoTo, Stage, store, locals
    <3>2. [q \in Runs |-> Phase(q)]' = [[q \in Runs |-> Phase(q)] EXCEPT ![r] = "err"]
      BY <1>0, <2>2 DEF GoTo, Phase
    <3>3. Lifecycle!GiveUp(r)
      BY <1>1, <2>2, <3>2 DEF Recall, Lifecycle!GiveUp, Phase, store
    <3> QED
      BY <3>1, <3>3 DEF Allowed
  <2> QED
    BY <1>1, <2>1, <2>2 DEF Recall
<1>2. CASE Replay(r)
  <2>1. Stage(r)'
    BY <1>0, <1>2 DEF Replay, GoTo, Stage, store
  <2> QED
    BY <1>0, <1>2, <2>1, LifeInside DEF Replay, store, Allowed
<1>3. CASE Route(r)
  <2>1. <<status[r], "Routed">> \in Lifecycle!Follows
    BY <1>0, <1>3 DEF Route, Stage, Lifecycle!Follows
  <2>2. status'[r] = "Routed" /\ pc'[r] = "lookup" => Stage(r)'
    BY DEF Stage
  <2> QED
    BY <1>0, <1>3, <2>1, <2>2, LifeSave DEF Route, locals, Statuses
<1>4. CASE \/ EscalateLocally(r) \/ AskLocally(r) \/ ServeCached(r) \/ BudgetSentinel(r)
  <2>1. PICK o \in Outcomes \ {"Failed"} : Conclude(r, o)
    BY <1>4 DEF EscalateLocally, AskLocally, ServeCached, BudgetSentinel, Outcomes
  <2>2. UNCHANGED <<status, execution>> /\ pc[r] \in {"lookup", "sentinel"}
    BY <1>4 DEF EscalateLocally, AskLocally, ServeCached, BudgetSentinel, store
  <2>3. Stage(r)'
    BY <1>0, <2>1, <2>2 DEF Conclude, GoTo, Stage
  <2>4. outcome' \in [Runs -> Outcomes] /\ \A q \in Runs \ {r} : outcome'[q] = outcome[q]
    BY <1>0, <2>1 DEF Conclude
  <2> QED
    BY <1>0, <2>1, <2>2, <2>3, <2>4, LifeInside DEF Conclude, Allowed
<1>5. CASE CacheMiss(r)
  <2>1. PICK n \in Chains : GoTo(r, IF n = 0 THEN "err" ELSE "sentinel")
    BY <1>5 DEF CacheMiss, TakeChain
  <2>2. UNCHANGED <<status, execution, outcome>> /\ pc[r] = "lookup"
    BY <1>5 DEF CacheMiss, TakeChain, store
  <2>3. CASE n = 0
    <3>1. LifeInv'
      BY <2>1, <2>2, <2>3 DEF LifeInv, LifeTypes, GoTo, Stage
    <3>2. [q \in Runs |-> Phase(q)]' = [[q \in Runs |-> Phase(q)] EXCEPT ![r] = "err"]
      BY <1>0, <2>1, <2>3 DEF GoTo, Phase
    <3>3. Phase(r) = "running" /\ status[r] = "Routed"
      BY <1>0, <2>2 DEF Phase, Stage
    <3>4. Lifecycle!Unserve(r)
      BY <2>1, <2>2, <2>3, <3>2, <3>3 DEF Lifecycle!Unserve
    <3> QED
      BY <3>1, <3>4 DEF Allowed
  <2>4. CASE n # 0
    <3>1. Stage(r)'
      BY <1>0, <2>1, <2>2, <2>4 DEF GoTo, Stage
    <3> QED
      BY <1>0, <2>1, <2>2, <2>4, <3>1, LifeInside DEF Allowed
  <2> QED
    BY <2>3, <2>4
<1>6. CASE Execute(r)
  <2>1. <<status[r], "InProgress">> \in Lifecycle!Follows
    BY <1>0, <1>6 DEF Execute, Stage, Lifecycle!Follows
  <2>2. status'[r] = "InProgress" /\ pc'[r] = "ladder" => Stage(r)'
    BY DEF Stage
  <2> QED
    BY <1>0, <1>6, <2>1, <2>2, LifeSave DEF Execute, Statuses
<1>8. CASE SkipRung(r) \/ CallProvider(r) \/ ProviderAnswers(r)
  <2>1. PICK place \in Ladder \union Success : pc' = [pc EXCEPT ![r] = place]
    BY <1>0, <1>8 DEF SkipRung, CallProvider, ProviderAnswers, Dial, GoTo
  <2> QED
    BY <1>8, <2>1, LifeLadder DEF SkipRung, CallProvider, ProviderAnswers, Dial, store, locals
<1>9. CASE Accept(r) \/ Cascade(r) \/ ReAsk(r) \/ Reject(r)
  <2>1. PICK place \in Ladder \union Success : pc' = [pc EXCEPT ![r] = place]
    BY <1>0, <1>9 DEF Accept, Cascade, ReAsk, Reject, Dial, GoTo
  <2> QED
    BY <1>9, <2>1, LifeLadder DEF Accept, Cascade, ReAsk, Reject, Dial, store, locals
<1>10. CASE BookFailedLeg(r) \/ RecordFailure(r)
  <2>1. PICK place \in Ladder \union Success : pc' = [pc EXCEPT ![r] = place]
    BY <1>0, <1>10 DEF BookFailedLeg, RecordFailure, GoTo
  <2> QED
    BY <1>10, <2>1, LifeLadder DEF BookFailedLeg, RecordFailure, locals
<1>11. CASE Observe(r)
  <2>1. PICK place \in Ladder \union Success : pc' = [pc EXCEPT ![r] = place]
    BY <1>0, <1>11 DEF Observe, GoTo
  <2> QED
    BY <1>11, <2>1, LifeLadder DEF Observe
<1>12. CASE BookSuccess(r) \/ ClearLoopHistory(r) \/ ClearGoalFailures(r)
  <2>1. PICK place \in Ladder \union Success : pc' = [pc EXCEPT ![r] = place]
    BY <1>0, <1>12 DEF BookSuccess, ClearLoopHistory, ClearGoalFailures, GoTo
  <2> QED
    BY <1>12, <2>1, LifeLadder DEF BookSuccess, ClearLoopHistory, ClearGoalFailures, store, locals
\* The ends of the ladder.
<1>13. CASE BookLoop(r) \/ LadderExhausted(r) \/ Admit(r)
  <2>1. PICK o \in {"Done", "Failed"} : Conclude(r, o)
    BY <1>13 DEF BookLoop, LadderExhausted, Admit
  <2>2. UNCHANGED <<status, execution>> /\ pc[r] \in Ladder \union Success
    BY <1>13 DEF BookLoop, LadderExhausted, Admit, store
  <2>3. Stage(r)'
    BY <1>0, <2>1, <2>2 DEF Conclude, GoTo, Stage
  <2>4. outcome' \in [Runs -> Outcomes] /\ \A q \in Runs \ {r} : outcome'[q] = outcome[q]
    BY <1>0, <2>1 DEF Conclude, Outcomes
  <2> QED
    BY <1>0, <2>1, <2>2, <2>3, <2>4, LifeInside DEF Conclude, Allowed
<1>14. CASE SaveOutcome(r)
  <2> DEFINE s == StatusOf(outcome[r])
             place == IF outcome[r] = "Failed" THEN "evict" ELSE "book"
  <2>1. <<status[r], s>> \in Lifecycle!Follows /\ s \in Statuses
    BY <1>0, <1>14 DEF SaveOutcome, Stage, Lifecycle!Follows, StatusOf, Outcomes, Statuses, Terminal
  <2>2. status'[r] = s /\ pc'[r] = place => Stage(r)'
    BY <1>0, <1>14 DEF SaveOutcome, Stage, locals
  <2>3. SaveTask(r, s, place) /\ UNCHANGED <<execution, outcome>>
    BY <1>14 DEF SaveOutcome, locals
  <2>4. pc[r] \in Running /\ place \in Running
    BY <1>14 DEF SaveOutcome
  <2> HIDE DEF s, place
  <2> QED
    BY <2>1, <2>2, <2>3, <2>4, LifeSave
<1>15. CASE EvictSolution(r)
  <2>1. Stage(r)'
    BY <1>0, <1>15 DEF EvictSolution, GoTo, Stage, locals
  <2> QED
    BY <1>0, <1>15, <2>1, LifeInside DEF EvictSolution, locals, Allowed
<1>16. CASE RecordExecution(r)
  <2>1. LifeInv'
    BY <1>0, <1>16 DEF LifeInv, LifeTypes, RecordExecution, GoTo, Stage
  <2>2. status[r] = StatusOf(outcome[r]) /\ outcome[r] \in Outcomes
    BY <1>0, <1>16 DEF RecordExecution, Stage
  <2>3. [q \in Runs |-> Phase(q)]' =
          [[q \in Runs |-> Phase(q)] EXCEPT ![r] = IF status[r] = "Failed" THEN "err" ELSE "ok"]
    BY <1>0, <1>16, <2>2 DEF RecordExecution, GoTo, Phase, StatusOf, Outcomes
  <2>4. <<status[r], IF outcome[r] \in {"Stopped", "Failed"} THEN "failure" ELSE "success">>
           \in Lifecycle!Rows
    BY <2>2 DEF StatusOf, Outcomes, Lifecycle!Rows
  <2>5. Lifecycle!Return(r)
    BY <1>16, <2>3, <2>4 DEF RecordExecution, Lifecycle!Return, Phase
  <2> QED
    BY <2>1, <2>5 DEF Allowed
<1> QED
  BY <1>1, <1>2, <1>3, <1>4, <1>5, <1>6, <1>8, <1>9, <1>10, <1>11, <1>12, <1>13, <1>14, <1>15,
     <1>16 DEF Step

LEMMA LifeRestart ==
  ASSUME LifeInv, Restart
  PROVE  LifeInv' /\ Lifecycle!Crash
<1> USE DEF LifeInv, LifeTypes, Restart
<1>1. PICK old \in SUBSET Runs :
        execution' = [r \in Runs |-> IF r \in old THEN "none" ELSE execution[r]]
  OBVIOUS
<1>2. LifeTypes'
  BY <1>1 DEF Places, Outcomes
<1>3. \A q \in Runs : Stage(q)'
  BY DEF Stage, Ladder, Success
<1>4. [q \in Runs |-> Phase(q)]' = [q \in Runs |-> "idle"]
  BY DEF Phase
<1> QED
  BY <1>1, <1>2, <1>3, <1>4 DEF Lifecycle!Crash

LEMMA LifeNext == LifeInv /\ [Next]_vars => LifeInv' /\ [Lifecycle!Next]_(Lifecycle!vars)
<1> SUFFICES ASSUME LifeInv, [Next]_vars
             PROVE  LifeInv' /\ [Lifecycle!Next]_(Lifecycle!vars)
  OBVIOUS
<1>1. CASE \E r \in Runs : Begin(r)
  BY <1>1, LifeBegin DEF Lifecycle!Next
<1>2. CASE \E r \in Runs : Step(r)
  BY <1>2, LifeStep DEF Lifecycle!Next, Allowed
<1>3. CASE Restart
  BY <1>3, LifeRestart DEF Lifecycle!Next
<1>4. CASE \/ \E k \in Keys : ForgetSolution(k)
           \/ UNCHANGED vars
  <2>1. UNCHANGED <<pc, status, execution, outcome>>
    BY <1>4 DEF ForgetSolution, vars, store, locals
  <2>2. LifeInv'
    BY <2>1 DEF LifeInv, LifeTypes, Stage
  <2>3. UNCHANGED Lifecycle!vars
    BY <2>1 DEF Lifecycle!vars, Phase
  <2> QED
    BY <2>2, <2>3
<1> QED
  BY <1>1, <1>2, <1>3, <1>4 DEF Next

\* Every run moves its task through the documented statuses, returns an error
\* exactly when the task Failed, and returns at all only with its outcome
\* saved (engine.rs:544-545, 700-701, 1283-1311), unless no provider is enabled
\* (engine.rs:652-658): Engine implements RunLifecycle, with or without failing
\* writes.
THEOREM ImplementsLifecycle == Spec => FollowsLifecycle
<1>1. Init => Lifecycle!Init
  BY DEF Init, Lifecycle!Init, Phase
<1>2. QED
  BY <1>1, LifeInit, LifeNext, PTL DEF Spec, FollowsLifecycle, Lifecycle!Spec

-----------------------------------------------------------------------------
(* A run that saw a loop is out of reach of the providers. *)

Clear == {"recall", "replay", "sentinel"} \union (Ladder \ {"looping"}) \union Success

LoopInv ==
  /\ pc \in [Runs -> Places]
  /\ looped \in [Runs -> BOOLEAN]
  /\ DOMAIN detector = Runs
  /\ \A r \in Runs : /\ pc[r] \in Clear => ~looped[r]
                     /\ pc[r] = "looping" => looped[r]

LEMMA LoopInit == Init => LoopInv
  BY DEF Init, LoopInv, Places, Clear, Ladder, Success

\* A step that moves one run within the invariant.
LEMMA LoopStay ==
  ASSUME LoopInv, NEW r \in Runs, UNCHANGED looped, DOMAIN detector' = Runs,
         \E place \in Places : /\ pc' = [pc EXCEPT ![r] = place]
                               /\ place \in Clear => ~looped[r]
                               /\ place # "looping"
  PROVE  LoopInv'
  BY DEF LoopInv, Clear, Ladder, Success

\* All steps but the two that consult the detector are such steps.
LEMMA LoopMove ==
  ASSUME LoopInv, NEW r \in Runs, Step(r), ~Replay(r), ~Observe(r)
  PROVE  UNCHANGED looped /\ DOMAIN detector' = Runs
<1>1. CASE Recall(r) \/ Route(r) \/ EscalateLocally(r) \/ AskLocally(r) \/ ServeCached(r)
           \/ CacheMiss(r) \/ BudgetSentinel(r) \/ Execute(r)
  BY <1>1 DEF LoopInv, Recall, Route, EscalateLocally, AskLocally, ServeCached, CacheMiss,
              TakeChain, BudgetSentinel, Execute, locals
<1>2. CASE SkipRung(r) \/ CallProvider(r) \/ ProviderAnswers(r) \/ Accept(r) \/ Cascade(r)
           \/ ReAsk(r) \/ Reject(r) \/ BookFailedLeg(r) \/ RecordFailure(r) \/ BookLoop(r)
           \/ LadderExhausted(r)
  BY <1>2 DEF LoopInv, SkipRung, CallProvider, ProviderAnswers, Accept, Cascade, ReAsk, Reject,
              BookFailedLeg, RecordFailure, BookLoop, LadderExhausted, locals
<1>3. CASE BookSuccess(r) \/ ClearLoopHistory(r) \/ ClearGoalFailures(r) \/ Admit(r)
           \/ SaveOutcome(r) \/ EvictSolution(r) \/ RecordExecution(r)
  BY <1>3 DEF LoopInv, BookSuccess, ClearLoopHistory, ClearGoalFailures, Admit, SaveOutcome,
              EvictSolution, RecordExecution, locals
<1> QED
  BY <1>1, <1>2, <1>3 DEF Step

LEMMA LoopPlace ==
  ASSUME LoopInv, NEW r \in Runs, Step(r), ~Replay(r), ~Observe(r)
  PROVE  \E place \in Places : /\ pc' = [pc EXCEPT ![r] = place]
                               /\ place \in Clear => ~looped[r]
                               /\ place # "looping"
<1> USE DEF Places, Clear, Ladder, Success, Returned
<1>1. CASE Recall(r) \/ Route(r) \/ EscalateLocally(r) \/ AskLocally(r) \/ ServeCached(r)
           \/ CacheMiss(r) \/ BudgetSentinel(r) \/ Execute(r)
  BY <1>1 DEF LoopInv, Recall, Route, EscalateLocally, AskLocally, ServeCached, CacheMiss,
              TakeChain, BudgetSentinel, Execute, SaveTask, Conclude, GoTo
<1>2. CASE SkipRung(r) \/ CallProvider(r) \/ ProviderAnswers(r) \/ Accept(r) \/ Cascade(r)
           \/ ReAsk(r) \/ Reject(r) \/ BookFailedLeg(r) \/ RecordFailure(r) \/ BookLoop(r)
           \/ LadderExhausted(r)
  BY <1>2 DEF LoopInv, SkipRung, CallProvider, ProviderAnswers, Accept, Cascade, ReAsk, Reject,
              BookFailedLeg, RecordFailure, BookLoop, LadderExhausted, Dial, Conclude, GoTo
<1>3. CASE BookSuccess(r) \/ ClearLoopHistory(r) \/ ClearGoalFailures(r) \/ Admit(r)
           \/ SaveOutcome(r) \/ EvictSolution(r) \/ RecordExecution(r)
  BY <1>3 DEF LoopInv, BookSuccess, ClearLoopHistory, ClearGoalFailures, Admit, SaveOutcome,
              EvictSolution, RecordExecution, SaveTask, Conclude, GoTo
<1> QED
  BY <1>1, <1>2, <1>3 DEF Step

LEMMA LoopStep ==
  ASSUME LoopInv, NEW r \in Runs, Begin(r) \/ Step(r)
  PROVE  LoopInv'
<1>1. CASE Begin(r)
  BY <1>1 DEF LoopInv, Begin, GoTo, Places, Clear, Ladder, Success, Returned
<1>2. CASE Replay(r)
  <2>1. /\ looped' \in [Runs -> BOOLEAN] /\ DOMAIN detector' = Runs
        /\ \A q \in Runs \ {r} : looped'[q] = looped[q]
    BY <1>2 DEF LoopInv, Replay, Looped
  <2> QED
    BY <1>2, <2>1 DEF LoopInv, Replay, GoTo, Places, Clear, Ladder, Success
<1>3. CASE Observe(r)
  <2> DEFINE attempt == [out |-> answer[r], under |-> key[r]]
  <2>1. looped' = [looped EXCEPT ![r] = LoopsWith(detector[r], attempt)]
    BY <1>3 DEF Observe
  <2>2. LoopsWith(detector[r], attempt) \in BOOLEAN
    BY DEF LoopsWith
  <2>3. /\ looped' \in [Runs -> BOOLEAN] /\ DOMAIN detector' = Runs
        /\ \A q \in Runs \ {r} : looped'[q] = looped[q]
    BY <1>3, <2>1, <2>2 DEF LoopInv, Observe
  <2>4. pc' = [pc EXCEPT ![r] = IF looped'[r] THEN "looping" ELSE "ladder"]
    BY <1>3 DEF Observe, GoTo
  <2> QED
    BY <2>3, <2>4 DEF LoopInv, Places, Clear, Ladder, Success
<1>4. CASE Step(r) /\ ~Replay(r) /\ ~Observe(r)
  BY <1>4, LoopMove, LoopPlace, LoopStay
<1> QED
  BY <1>1, <1>2, <1>3, <1>4 DEF Step

LEMMA LoopNext == LoopInv /\ [Next]_vars => LoopInv'
<1> SUFFICES ASSUME LoopInv, [Next]_vars PROVE LoopInv'
  OBVIOUS
<1>1. CASE \E r \in Runs : Begin(r) \/ Step(r)
  BY <1>1, LoopStep
<1>2. CASE Restart
  BY <1>2 DEF Restart, LoopInv, Places, Clear, Ladder, Success
<1>3. CASE (\E k \in Keys : ForgetSolution(k)) \/ UNCHANGED vars
  BY <1>3 DEF ForgetSolution, vars, locals, LoopInv
<1> QED
  BY <1>1, <1>2, <1>3 DEF Next
\* A step of one run under the lock leaves the window, and does not come back
\* to where it could touch it.
LEMMA LockedStep ==
  ASSUME ~StoreMayFail, LoopInv, LockedOut, NEW r \in Runs, Begin(r) \/ Step(r)
  PROVE  LockedOut'
<1> USE DEF Places, Clear, Ladder, Success, Returned, MayTouchWindow
<1>1. LoopInv /\ ~MayTouchWindow(r)
  BY DEF LockedOut
<1>2. /\ window' = window /\ ~MayTouchWindow(r)'
      /\ \A q \in Runs \ {r} : pc'[q] = pc[q] /\ looped'[q] = looped[q]
  <2>1. CASE Begin(r)
    BY <1>1, <2>1 DEF LoopInv, Begin, GoTo
  <2>2. CASE Recall(r) \/ Route(r) \/ EscalateLocally(r) \/ AskLocally(r) \/ ServeCached(r)
             \/ CacheMiss(r) \/ BudgetSentinel(r) \/ Execute(r)
    BY <1>1, <2>2 DEF LoopInv, Recall, Route, EscalateLocally, AskLocally, ServeCached, CacheMiss,
                      TakeChain, BudgetSentinel, Execute, SaveTask, Conclude, GoTo, store, locals
  <2>3. CASE Replay(r)
    <3>1. detector'[r] = window
      BY <1>1, <2>3 DEF LoopInv, Replay
    <3>2. Looped(detector'[r])
      BY <3>1 DEF LockedOut
    <3>3. looped' = [looped EXCEPT ![r] = TRUE]
      BY <2>3, <3>2, Zenon DEF Replay
    <3> QED
      BY <1>1, <2>3, <3>3 DEF LoopInv, Replay, GoTo, store
  <2>4. CASE BookLoop(r)
    BY <1>1, <2>4 DEF LoopInv, BookLoop, Conclude, GoTo
  <2>5. CASE Admit(r) \/ SaveOutcome(r) \/ EvictSolution(r) \/ RecordExecution(r)
             \/ ClearGoalFailures(r)
    BY <1>1, <2>5 DEF LoopInv, Admit, SaveOutcome, EvictSolution, RecordExecution,
                      ClearGoalFailures, SaveTask, Conclude, GoTo, locals
  <2>6. CASE pc[r] \in (Ladder \ {"looping"}) \union {"unloop"}
    BY <1>1, <2>6 DEF LoopInv
  <2>7. SkipRung(r) \/ CallProvider(r) \/ ProviderAnswers(r) \/ Accept(r) \/ Cascade(r)
          \/ ReAsk(r) \/ Reject(r) \/ BookFailedLeg(r) \/ RecordFailure(r) \/ Observe(r)
          \/ LadderExhausted(r) \/ BookSuccess(r) \/ ClearLoopHistory(r)
        => pc[r] \in (Ladder \ {"looping"}) \union {"unloop"}
    BY DEF SkipRung, CallProvider, ProviderAnswers, Accept, Cascade, ReAsk, Reject, BookFailedLeg,
           RecordFailure, Observe, LadderExhausted, BookSuccess, ClearLoopHistory
  <2> QED
    BY <2>1, <2>2, <2>3, <2>4, <2>5, <2>6, <2>7 DEF Step
<1>3. Looped(window)'
  BY <1>2 DEF LockedOut, Looped
<1>4. ASSUME NEW q \in Runs PROVE ~MayTouchWindow(q)'
  BY <1>2 DEF LockedOut
<1> QED
  BY <1>3, <1>4 DEF LockedOut

\* Once a loop is in the durable window and every run has read it, no run of
\* the goal calls a provider, whatever its constraints, until retention
\* pruning removes rows (engine.rs:430-446, kernel.rs:374-378,
\* store.rs:704-735).  A window that cannot be read counts as empty, hence
\* the assumption.
THEOREM LoopLocks == ASSUME ~StoreMayFail PROVE Spec => LoopLocksGoal
<1>1. LoopInv /\ [Next]_vars => [LockedOut => LockedOut' \/ Restart]_vars
  <2> SUFFICES ASSUME LoopInv, Next, LockedOut, ~Restart PROVE LockedOut'
    OBVIOUS
  <2>1. CASE \E r \in Runs : Begin(r) \/ Step(r)
    BY <2>1, LockedStep
  <2>2. CASE \E k \in Keys : ForgetSolution(k)
    BY <2>2 DEF ForgetSolution, locals, LockedOut, MayTouchWindow, Looped
  <2> QED
    BY <2>1, <2>2 DEF Next
<1>2. QED
  BY <1>1, LoopInit, LoopNext, PTL DEF Spec, LoopLocksGoal
-----------------------------------------------------------------------------
(* The attempt ledger. *)

Early == {"recall", "replay", "route", "lookup", "sentinel"}
\* A call has been made that has no row yet.
Due == {"calling", "answered", "errored", "rejected", "cascading", "accepted"}
Ending == {"finish", "evict", "book"} \union Returned

Balanced(r) ==
  /\ pc[r] \in Early => unbooked[r] = 0
  /\ pc[r] \in Due => unbooked[r] \in 1..(ReAskLimit - reAsks[r] + 1)
  /\ pc[r] \in Ladder \ Due => unbooked[r] \in 0..(ReAskLimit - reAsks[r])
  /\ pc[r] \in Success => unbooked[r] \in 0..ReAskLimit
  /\ pc[r] \in Ending =>
       unbooked[r] + (IF looped[r] /\ outcome[r] = "Failed" THEN 1 ELSE 0) \in 0..ReAskLimit

LedgerTypes ==
  /\ pc \in [Runs -> Places]
  /\ unbooked \in [Runs -> Int]
  /\ reAsks \in [Runs -> 0..ReAskLimit]
  /\ outcome \in [Runs -> Outcomes]

LedgerInv == LoopInv /\ LedgerTypes /\ \A r \in Runs : Balanced(r)

LEMMA LedgerInit == Init => LedgerInv
  BY LoopInit, LimitAssumption
     DEF Init, LedgerInv, LedgerTypes, Balanced, Places, Outcomes, Early, Due, Ending, Ladder,
         Success, Returned

\* What a step of r does not touch.
LEMMA LedgerFrame ==
  ASSUME LedgerInv, NEW r \in Runs, Begin(r) \/ Step(r), NEW q \in Runs, q # r
  PROVE  /\ pc'[q] = pc[q] /\ unbooked'[q] = unbooked[q] /\ reAsks'[q] = reAsks[q]
         /\ looped'[q] = looped[q] /\ outcome'[q] = outcome[q]
<1> USE DEF LedgerInv, LedgerTypes, LoopInv
<1>1. CASE Begin(r)
  BY <1>1 DEF Begin, GoTo, Returned
<1>2. CASE Recall(r) \/ Replay(r) \/ Route(r) \/ CacheMiss(r) \/ Execute(r)
  BY <1>2 DEF Recall, Replay, Route, CacheMiss, TakeChain, Execute, SaveTask, GoTo, store, locals
<1>3. CASE EscalateLocally(r) \/ AskLocally(r) \/ ServeCached(r) \/ BudgetSentinel(r)
  BY <1>3 DEF EscalateLocally, AskLocally, ServeCached, BudgetSentinel, Conclude, GoTo, store
<1>4. CASE SkipRung(r) \/ CallProvider(r) \/ ProviderAnswers(r)
  BY <1>4 DEF SkipRung, CallProvider, ProviderAnswers, Dial, GoTo, store, locals
<1>5. CASE Accept(r) \/ Cascade(r) \/ ReAsk(r) \/ Reject(r)
  BY <1>5 DEF Accept, Cascade, ReAsk, Reject, Dial, GoTo, store, locals
<1>6. CASE BookFailedLeg(r) \/ RecordFailure(r) \/ Observe(r)
  BY <1>6 DEF BookFailedLeg, RecordFailure, Observe, RecordAttempt, GoTo, locals
<1>7. CASE BookLoop(r) \/ LadderExhausted(r)
  BY <1>7 DEF BookLoop, LadderExhausted, RecordAttempt, Conclude, GoTo, store
<1>8. CASE BookSuccess(r) \/ ClearLoopHistory(r) \/ ClearGoalFailures(r) \/ Admit(r)
  BY <1>8 DEF BookSuccess, ClearLoopHistory, ClearGoalFailures, Admit, RecordAttempt, Conclude,
    GoTo, store, locals
<1>9. CASE SaveOutcome(r) \/ EvictSolution(r) \/ RecordExecution(r)
  BY <1>9 DEF SaveOutcome, EvictSolution, RecordExecution, SaveTask, GoTo, locals
<1> QED
  BY <1>1, <1>2, <1>3, <1>4, <1>5, <1>6, <1>7, <1>8, <1>9 DEF Step

LEMMA LedgerKeepsTypes ==
  ASSUME LedgerInv, NEW r \in Runs, Begin(r) \/ Step(r)
  PROVE  LedgerTypes'
<1> USE LimitAssumption DEF LedgerInv, LedgerTypes, Places, Outcomes, Ladder, Success, Returned
<1>1. CASE Begin(r)
  BY <1>1 DEF Begin, GoTo, Returned
<1>2. CASE Recall(r) \/ Replay(r) \/ Route(r) \/ CacheMiss(r) \/ Execute(r)
  BY <1>2 DEF Recall, Replay, Route, CacheMiss, TakeChain, Execute, SaveTask, GoTo, store, locals
<1>3. CASE EscalateLocally(r) \/ AskLocally(r) \/ ServeCached(r) \/ BudgetSentinel(r)
  BY <1>3 DEF EscalateLocally, AskLocally, ServeCached, BudgetSentinel, Conclude, GoTo, store
<1>4. CASE SkipRung(r) \/ CallProvider(r) \/ ProviderAnswers(r)
  BY <1>4 DEF SkipRung, CallProvider, ProviderAnswers, Dial, GoTo, store, locals
<1>5. CASE Accept(r) \/ Cascade(r) \/ ReAsk(r) \/ Reject(r)
  BY <1>5 DEF Accept, Cascade, ReAsk, Reject, Dial, GoTo, store, locals
<1>6. CASE BookFailedLeg(r) \/ RecordFailure(r) \/ Observe(r)
  BY <1>6 DEF BookFailedLeg, RecordFailure, Observe, RecordAttempt, GoTo, locals
<1>7. CASE BookLoop(r) \/ LadderExhausted(r)
  BY <1>7 DEF BookLoop, LadderExhausted, RecordAttempt, Conclude, GoTo, store
<1>8. CASE BookSuccess(r)
  BY <1>8 DEF BookSuccess, RecordAttempt, GoTo, locals
<1>10. CASE ClearLoopHistory(r) \/ ClearGoalFailures(r) \/ Admit(r)
  BY <1>10 DEF ClearLoopHistory, ClearGoalFailures, Admit, Conclude, GoTo, locals
<1>9. CASE SaveOutcome(r) \/ EvictSolution(r) \/ RecordExecution(r)
  BY <1>9 DEF SaveOutcome, EvictSolution, RecordExecution, SaveTask, GoTo, locals
<1> QED
  BY <1>1, <1>2, <1>3, <1>4, <1>5, <1>6, <1>7, <1>8, <1>9, <1>10 DEF Step

LEMMA LedgerBalances ==
  ASSUME ~StoreMayFail, LedgerInv, NEW r \in Runs, Begin(r) \/ Step(r)
  PROVE  Balanced(r)'
<1> USE LimitAssumption DEF LedgerInv, LedgerTypes, LoopInv, Balanced, Early, Due, Ending, Clear,
        Ladder, Success, Returned
<1>1. CASE Begin(r)
  BY <1>1 DEF Begin, GoTo, Returned
<1>2. CASE Recall(r) \/ Replay(r) \/ Route(r) \/ CacheMiss(r) \/ Execute(r)
  BY <1>2 DEF Recall, Replay, Route, CacheMiss, TakeChain, Execute, SaveTask, GoTo, store, locals
<1>3. CASE EscalateLocally(r) \/ AskLocally(r) \/ ServeCached(r) \/ BudgetSentinel(r)
  BY <1>3 DEF EscalateLocally, AskLocally, ServeCached, BudgetSentinel, Conclude, GoTo, store
<1>4. CASE SkipRung(r) \/ CallProvider(r) \/ ProviderAnswers(r)
  BY <1>4 DEF SkipRung, CallProvider, ProviderAnswers, Dial, GoTo, store, locals
<1>5. CASE Accept(r) \/ Cascade(r) \/ ReAsk(r) \/ Reject(r)
  BY <1>5 DEF Accept, Cascade, ReAsk, Reject, Dial, GoTo, store, locals
<1>6. CASE BookFailedLeg(r) \/ RecordFailure(r) \/ Observe(r)
  BY <1>6 DEF BookFailedLeg, RecordFailure, Observe, RecordAttempt, GoTo, locals
<1>7. CASE BookLoop(r) \/ LadderExhausted(r)
  BY <1>7 DEF BookLoop, LadderExhausted, RecordAttempt, Conclude, GoTo, store
<1>8. CASE BookSuccess(r) \/ ClearLoopHistory(r) \/ ClearGoalFailures(r) \/ Admit(r)
  BY <1>8 DEF BookSuccess, ClearLoopHistory, ClearGoalFailures, Admit, RecordAttempt, Conclude,
    GoTo, store, locals
<1>9. CASE SaveOutcome(r) \/ EvictSolution(r) \/ RecordExecution(r)
  BY <1>9 DEF SaveOutcome, EvictSolution, RecordExecution, SaveTask, GoTo, locals
<1> QED
  BY <1>1, <1>2, <1>3, <1>4, <1>5, <1>6, <1>7, <1>8, <1>9 DEF Step

LEMMA LedgerNext == ~StoreMayFail /\ LedgerInv /\ [Next]_vars => LedgerInv'
<1> SUFFICES ASSUME ~StoreMayFail, LedgerInv, [Next]_vars PROVE LedgerInv'
  OBVIOUS
<1>1. LoopInv'
  BY LoopNext DEF LedgerInv
<1>2. CASE \E r \in Runs : Begin(r) \/ Step(r)
  <2>1. PICK r \in Runs : Begin(r) \/ Step(r)
    BY <1>2
  <2>2. ASSUME NEW q \in Runs PROVE Balanced(q)'
    <3>1. CASE q = r
      BY <2>1, <3>1, LedgerBalances
    <3>2. CASE q # r
      <4>1. /\ pc'[q] = pc[q] /\ unbooked'[q] = unbooked[q] /\ reAsks'[q] = reAsks[q]
            /\ looped'[q] = looped[q] /\ outcome'[q] = outcome[q]
        BY <2>1, <3>2, LedgerFrame
      <4> QED
        BY <4>1 DEF LedgerInv, Balanced
    <3> QED
      BY <3>1, <3>2
  <2> QED
    BY <1>1, <2>1, <2>2, LedgerKeepsTypes DEF LedgerInv
<1>3. CASE Restart
  BY <1>1, <1>3, LimitAssumption
     DEF Restart, LedgerInv, LedgerTypes, Balanced, Places, Outcomes, Early, Due, Ending, Ladder,
         Success, Returned
<1>4. CASE (\E k \in Keys : ForgetSolution(k)) \/ UNCHANGED vars
  BY <1>1, <1>4 DEF ForgetSolution, vars, store, locals, LedgerInv, LedgerTypes, Balanced
<1> QED
  BY <1>2, <1>3, <1>4 DEF Next

\* When a run returns, its rows in execution_attempts are its provider calls,
\* less the re-asked ones, plus the row of a loop escalation (engine.rs:984,
\* 1037, 1090, 1140, 1220), provided no write of a row is refused.
THEOREM LedgerBalanced == ASSUME ~StoreMayFail PROVE Spec => []AttemptLedger
<1>1. LedgerInv => AttemptLedger
  BY DEF LedgerInv, Balanced, Ending, AttemptLedger
<1> QED
  BY <1>1, LedgerInit, LedgerNext, PTL DEF Spec
-----------------------------------------------------------------------------
(* Types. *)

LEMMA WindowsAreSequences ==
  \A w : w \in Windows <=> w \in Seq(Attempts) /\ Len(w) <= LoopWindow
<1>1. ASSUME NEW w \in Windows PROVE w \in Seq(Attempts) /\ Len(w) <= LoopWindow
  <2>1. PICK n \in 0..LoopWindow : w \in [1..n -> Attempts]
    BY DEF Windows
  <2>2. w \in Seq(Attempts) /\ Len(w) = n
    BY <2>1, LimitAssumption, IsASeq
  <2> QED
    BY <2>1, <2>2, LimitAssumption
<1>2. ASSUME NEW w \in Seq(Attempts), Len(w) <= LoopWindow PROVE w \in Windows
  <2>1. Len(w) \in 0..LoopWindow /\ w \in [1..Len(w) -> Attempts]
    BY <1>2, LenProperties, LimitAssumption
  <2> QED
    BY <2>1 DEF Windows
<1> QED
  BY <1>1, <1>2

LEMMA NoAttempts == <<>> \in Windows
<1> DEFINE none == <<>>
<1>1. none \in Seq(Attempts) /\ Len(none) = 0
  BY EmptySeq
<1> HIDE DEF none
<1>2. Len(none) <= LoopWindow
  BY <1>1, LimitAssumption
<1>3. none \in Windows
  BY <1>1, <1>2, WindowsAreSequences
<1> QED
  BY <1>3 DEF none

\* A new attempt keeps the window within its bound.
LEMMA ObservedWindow ==
  ASSUME NEW w \in Windows, NEW a \in Attempts
  PROVE  Observed(w, a) \in Windows
<1> DEFINE v == Append(w, a)
<1>1. w \in Seq(Attempts) /\ Len(w) <= LoopWindow
  BY WindowsAreSequences
<1>2. v \in Seq(Attempts) /\ Len(v) = Len(w) + 1 /\ Len(v) \in Nat
  BY <1>1, AppendProperties, LenProperties
<1>3. \A i \in 1..Len(v) : v[i] \in Attempts
  BY <1>2
<1> HIDE DEF v
<1>4. Trim(v) \in Seq(Attempts) /\ Len(Trim(v)) <= LoopWindow
  <2>1. CASE Len(v) > LoopWindow
    <3> DEFINE first == Len(v) - LoopWindow + 1
    <3>1. first \in Int /\ Len(v) \in Int /\ (\A i \in first..Len(v) : v[i] \in Attempts)
      BY <1>2, <1>3, <2>1, LimitAssumption
    <3>2. /\ SubSeq(v, first, Len(v)) \in Seq(Attempts)
          /\ Len(SubSeq(v, first, Len(v))) = IF first <= Len(v) THEN Len(v) - first + 1 ELSE 0
      <4> HIDE DEF first
      <4> QED
        BY <3>1, SubSeqProperties
    <3> QED
      BY <1>2, <2>1, <3>2, LimitAssumption DEF Trim
  <2>2. CASE ~(Len(v) > LoopWindow)
    BY <1>2, <2>2, LimitAssumption DEF Trim
  <2> QED
    BY <2>1, <2>2
<1> QED
  BY <1>4, WindowsAreSequences DEF Observed, v

\* So does retention pruning.
LEMMA PrunedWindow ==
  ASSUME NEW w \in Windows, NEW n \in 0..Len(w)
  PROVE  SubSeq(w, n + 1, Len(w)) \in Windows
<1>1. w \in Seq(Attempts) /\ Len(w) <= LoopWindow /\ Len(w) \in Nat
  BY WindowsAreSequences, LenProperties
<1>2. n + 1 \in Int /\ Len(w) \in Int /\ (\A i \in n + 1..Len(w) : w[i] \in Attempts)
  BY <1>1
<1>3. /\ SubSeq(w, n + 1, Len(w)) \in Seq(Attempts)
      /\ Len(SubSeq(w, n + 1, Len(w))) = IF n + 1 <= Len(w) THEN Len(w) - (n + 1) + 1 ELSE 0
  <2> DEFINE first == n + 1
  <2>1. first \in Int /\ (\A i \in first..Len(w) : w[i] \in Attempts)
    BY <1>2
  <2> HIDE DEF first
  <2>2. /\ SubSeq(w, first, Len(w)) \in Seq(Attempts)
        /\ Len(SubSeq(w, first, Len(w))) = IF first <= Len(w) THEN Len(w) - first + 1 ELSE 0
    BY <1>2, <2>1, SubSeqProperties
  <2> QED
    BY <2>2 DEF first
<1> DEFINE rest == SubSeq(w, n + 1, Len(w))
<1>4. rest \in Seq(Attempts) /\ Len(rest) <= LoopWindow
  BY <1>1, <1>3, LimitAssumption
<1> HIDE DEF rest
<1>5. rest \in Windows
  BY <1>4, WindowsAreSequences
<1> QED
  BY <1>5 DEF rest

Holding == {"answered", "rejected", "reflect", "observe", "cascading", "accepted"} \union Success

\* What bounds the ledger, and the output a run holds when it needs one.
Bounded(r) ==
  /\ pc[r] \in Early => unbooked[r] = 0
  /\ pc[r] \in Due => unbooked[r] >= 1
  /\ pc[r] \in Ladder => unbooked[r] \in 0..(Rungs - rungs[r] + ReAskLimit - reAsks[r])
  /\ pc[r] \in Holding => answer[r] \in Outputs

TypeInv == TypeOK /\ \A r \in Runs : Bounded(r)
LEMMA TypeInit == Init => TypeInv
<1> SUFFICES ASSUME Init PROVE TypeInv
  OBVIOUS
<1> QED
  BY NoAttempts, LimitAssumption
     DEF Init, TypeInv, TypeOK, Bounded, Places, Statuses, Outcomes, Early, Due, Holding, Ladder,
         Success, Returned

\* The bounds of the run that moves.
LEMMA TypeBounds ==
  ASSUME TypeInv, NEW r \in Runs, Begin(r) \/ Step(r)
  PROVE  Bounded(r)'
<1> USE LimitAssumption DEF TypeInv, TypeOK, Bounded, Early, Due, Holding, Ladder, Success, Returned
<1>1. CASE Begin(r)
  BY <1>1 DEF Begin, GoTo
<1>2. CASE Recall(r) \/ Replay(r) \/ Route(r)
  BY <1>2 DEF Recall, Replay, Route, SaveTask, GoTo, store, locals
<1>3. CASE CacheMiss(r) \/ Execute(r)
  BY <1>3 DEF CacheMiss, TakeChain, Execute, SaveTask, GoTo, store, locals
<1>4. CASE EscalateLocally(r) \/ AskLocally(r) \/ ServeCached(r) \/ BudgetSentinel(r)
  BY <1>4 DEF EscalateLocally, AskLocally, ServeCached, BudgetSentinel, Conclude, GoTo, store
<1>5. CASE SkipRung(r) \/ CallProvider(r) \/ ProviderAnswers(r)
  BY <1>5 DEF SkipRung, CallProvider, ProviderAnswers, Dial, GoTo, store, locals
<1>6. CASE Accept(r) \/ Cascade(r) \/ ReAsk(r) \/ Reject(r)
  BY <1>6 DEF Accept, Cascade, ReAsk, Reject, Dial, GoTo, store, locals
<1>7. CASE BookFailedLeg(r) \/ RecordFailure(r)
  BY <1>7 DEF BookFailedLeg, RecordFailure, RecordAttempt, GoTo, locals
<1>8. CASE BookLoop(r) \/ LadderExhausted(r)
  BY <1>8 DEF BookLoop, LadderExhausted, RecordAttempt, Conclude, GoTo, store
<1>9. CASE BookSuccess(r)
  BY <1>9 DEF BookSuccess, RecordAttempt, GoTo, locals
<1>10. CASE ClearLoopHistory(r) \/ ClearGoalFailures(r) \/ Admit(r)
  BY <1>10 DEF ClearLoopHistory, ClearGoalFailures, Admit, Conclude, GoTo, locals
<1>11. CASE SaveOutcome(r) \/ EvictSolution(r) \/ RecordExecution(r)
  <2>1. CASE SaveOutcome(r)
    BY <2>1 DEF SaveOutcome, SaveTask, GoTo, locals
  <2>2. CASE EvictSolution(r)
    BY <2>2 DEF EvictSolution, GoTo, locals
  <2>3. CASE RecordExecution(r)
    BY <2>3 DEF RecordExecution, GoTo
  <2> QED
    BY <1>11, <2>1, <2>2, <2>3
<1>12. CASE Observe(r)
  BY <1>12 DEF Observe, GoTo
<1> HIDE DEF TypeInv, TypeOK, Bounded, Early, Due, Holding, Ladder, Success, Returned
<1> QED
  BY <1>1, <1>2, <1>3, <1>4, <1>5, <1>6, <1>7, <1>8, <1>9, <1>10, <1>11, <1>12 DEF Step

LEMMA TypeFrame ==
  ASSUME TypeInv, NEW r \in Runs, Begin(r) \/ Step(r), NEW q \in Runs, q # r
  PROVE  /\ pc'[q] = pc[q] /\ unbooked'[q] = unbooked[q] /\ rungs'[q] = rungs[q]
         /\ reAsks'[q] = reAsks[q] /\ answer'[q] = answer[q]
<1> USE DEF TypeInv, TypeOK
<1>1. CASE Begin(r)
  BY <1>1 DEF Begin, GoTo
<1>2. CASE Recall(r) \/ Replay(r) \/ Route(r)
  BY <1>2 DEF Recall, Replay, Route, SaveTask, GoTo, store, locals
<1>3. CASE CacheMiss(r) \/ Execute(r)
  BY <1>3 DEF CacheMiss, TakeChain, Execute, SaveTask, GoTo, store, locals
<1>4. CASE EscalateLocally(r) \/ AskLocally(r) \/ ServeCached(r) \/ BudgetSentinel(r)
  BY <1>4 DEF EscalateLocally, AskLocally, ServeCached, BudgetSentinel, Conclude, GoTo, store
<1>5. CASE SkipRung(r) \/ CallProvider(r) \/ ProviderAnswers(r)
  BY <1>5 DEF SkipRung, CallProvider, ProviderAnswers, Dial, GoTo, store, locals
<1>6. CASE Accept(r) \/ Cascade(r) \/ ReAsk(r) \/ Reject(r)
  BY <1>6 DEF Accept, Cascade, ReAsk, Reject, Dial, GoTo, store, locals
<1>7. CASE BookFailedLeg(r) \/ RecordFailure(r)
  BY <1>7 DEF BookFailedLeg, RecordFailure, RecordAttempt, GoTo, locals
<1>8. CASE BookLoop(r) \/ LadderExhausted(r)
  BY <1>8 DEF BookLoop, LadderExhausted, RecordAttempt, Conclude, GoTo, store
<1>9. CASE BookSuccess(r)
  BY <1>9 DEF BookSuccess, RecordAttempt, GoTo, locals
<1>10. CASE ClearLoopHistory(r) \/ ClearGoalFailures(r) \/ Admit(r)
  BY <1>10 DEF ClearLoopHistory, ClearGoalFailures, Admit, Conclude, GoTo, locals
<1>11. CASE SaveOutcome(r) \/ EvictSolution(r) \/ RecordExecution(r)
  BY <1>11 DEF SaveOutcome, EvictSolution, RecordExecution, SaveTask, StatusOf, Terminal, GoTo,
    locals
<1>12. CASE Observe(r)
  BY <1>12 DEF Observe, GoTo
<1> QED
  BY <1>1, <1>2, <1>3, <1>4, <1>5, <1>6, <1>7, <1>8, <1>9, <1>10, <1>11, <1>12 DEF Step

\* The types, but for the loop window and what is read from it.
PlainTypes ==
  /\ status \in [Runs -> Statuses]
  /\ execution \in [Runs -> {"none", "success", "failure"}]
  /\ unbooked \in [Runs -> -1..(Rungs + ReAskLimit)]
  /\ failures \in 0..MaxFailures
  /\ cache \in [Keys -> Outputs \union {NoOutput}]
  /\ pc \in [Runs -> Places]
  /\ key \in [Runs -> Keys]
  /\ rungs \in [Runs -> 0..Rungs]
  /\ reAsks \in [Runs -> 0..ReAskLimit]
  /\ cascades \in [Runs -> 0..CascadeLimit]
  /\ answer \in [Runs -> Outputs \union {NoOutput}]
  /\ outcome \in [Runs -> Outcomes]

LEMMA PlainTypesStep ==
  ASSUME TypeInv, NEW r \in Runs, Begin(r) \/ Step(r)
  PROVE  PlainTypes'
<1> USE LimitAssumption DEF TypeOK, PlainTypes, Places, Statuses, Outcomes, Ladder, Success, Returned
<1>0. TypeOK
  BY DEF TypeInv
<1>a. Bounded(r)
  BY DEF TypeInv
<1>1. CASE Begin(r)
  BY <1>0, <1>1 DEF Begin, GoTo
<1>2. CASE Recall(r) \/ Replay(r) \/ Route(r)
  BY <1>0, <1>2 DEF Recall, Replay, Route, SaveTask, GoTo, store, locals
<1>3. CASE CacheMiss(r) \/ Execute(r)
  BY <1>0, <1>3 DEF CacheMiss, TakeChain, Execute, SaveTask, GoTo, store, locals
<1>4. CASE EscalateLocally(r) \/ AskLocally(r) \/ ServeCached(r) \/ BudgetSentinel(r)
  BY <1>0, <1>4 DEF EscalateLocally, AskLocally, ServeCached, BudgetSentinel, Conclude, GoTo, store
<1>5. CASE SkipRung(r) \/ CallProvider(r) \/ ProviderAnswers(r)
  BY <1>0, <1>a, <1>5 DEF SkipRung, CallProvider, ProviderAnswers, Dial, GoTo, store, locals,
    Bounded, Early, Due, Holding
<1>6. CASE Accept(r) \/ Cascade(r) \/ ReAsk(r) \/ Reject(r)
  BY <1>0, <1>a, <1>6 DEF Accept, Cascade, ReAsk, Reject, Dial, GoTo, store, locals,
    Bounded, Early, Due, Holding
<1>7. CASE BookFailedLeg(r) \/ RecordFailure(r)
  BY <1>0, <1>a, <1>7 DEF BookFailedLeg, RecordFailure, RecordAttempt, GoTo, locals,
    Bounded, Early, Due, Holding
<1>8. CASE BookLoop(r) \/ LadderExhausted(r)
  BY <1>0, <1>a, <1>8 DEF BookLoop, LadderExhausted, RecordAttempt, Conclude, GoTo, store,
    Bounded, Early, Due, Holding
<1>9. CASE BookSuccess(r)
  BY <1>0, <1>a, <1>9 DEF BookSuccess, RecordAttempt, GoTo, locals,
    Bounded, Early, Due, Holding
<1>10. CASE ClearLoopHistory(r) \/ ClearGoalFailures(r)
  <2>1. failures' \in 0..MaxFailures
    BY <1>0, <1>10 DEF ClearLoopHistory, ClearGoalFailures
  <2>2. pc' \in [Runs -> Places]
    <3>1. pc \in [Runs -> Places]
      BY <1>0
    <3>2. pc' = [pc EXCEPT ![r] = "forgive"] \/ pc' = [pc EXCEPT ![r] = "admit"]
      BY <1>10 DEF ClearLoopHistory, ClearGoalFailures, GoTo
    <3>3. "forgive" \in Places /\ "admit" \in Places
      OBVIOUS
    <3> QED
      BY ONLY <3>1, <3>2, <3>3, SMTT(20)
  <2>3. UNCHANGED <<status, execution, unbooked, cache>> /\ UNCHANGED locals
    BY <1>10 DEF ClearLoopHistory, ClearGoalFailures
  <2> QED
    BY <1>0, <2>1, <2>2, <2>3 DEF locals
<1>11. CASE Admit(r)
  <2>1. /\ cache' \in [Keys -> Outputs \union {NoOutput}]
        /\ pc' \in [Runs -> Places] /\ outcome' \in [Runs -> Outcomes]
    BY <1>0, <1>a, <1>11 DEF Admit, Conclude, GoTo, Bounded, Holding
  <2> QED
    BY <1>0, <1>11, <2>1 DEF Admit
<1>12. CASE SaveOutcome(r)
  <2>1. StatusOf(outcome[r]) \in Statuses
    BY <1>0 DEF StatusOf, Terminal
  <2>2. status' \in [Runs -> Statuses] /\ pc' \in [Runs -> Places]
    BY <1>0, <1>12, <2>1 DEF SaveOutcome, SaveTask, GoTo
  <2> QED
    BY <1>0, <1>12, <2>2 DEF SaveOutcome, locals
<1>13. CASE EvictSolution(r)
  BY <1>0, <1>13 DEF EvictSolution, GoTo, locals
<1>14. CASE RecordExecution(r)
  <2>1. execution' \in [Runs -> {"none", "success", "failure"}]
    BY <1>0, <1>14 DEF RecordExecution
  <2>2. pc' \in [Runs -> Places]
    BY <1>0, <1>14 DEF RecordExecution, GoTo
  <2>3. rungs' \in [Runs -> 0..Rungs] /\ answer' \in [Runs -> Outputs \union {NoOutput}]
    BY <1>0, <1>14 DEF RecordExecution
  <2> QED
    BY <1>0, <1>14, <2>1, <2>2, <2>3 DEF RecordExecution
<1>15. CASE Observe(r)
  BY <1>0, <1>15 DEF Observe, GoTo
<1> QED
  BY <1>1, <1>2, <1>3, <1>4, <1>5, <1>6, <1>7, <1>8, <1>9, <1>10, <1>11, <1>12, <1>13, <1>14, <1>15
     DEF Step

LEMMA WindowTypesStep ==
  ASSUME TypeInv, NEW r \in Runs, Begin(r) \/ Step(r)
  PROVE  /\ window' \in Windows
         /\ detector' \in [Runs -> Windows]
         /\ looped' \in [Runs -> BOOLEAN]
<1> USE DEF TypeInv, TypeOK
<1>1. CASE Begin(r) \/ RecordExecution(r)
  <2>1. /\ window' = window
        /\ detector' = [detector EXCEPT ![r] = <<>>]
        /\ looped' = looped \/ looped' = [looped EXCEPT ![r] = FALSE]
    BY <1>1 DEF Begin, RecordExecution
  <2> QED
    BY <2>1, NoAttempts
<1>2. CASE Replay(r)
  <2>1. looped' = [looped EXCEPT ![r] = Looped(detector'[r])] /\ window' = window
    BY <1>2 DEF Replay, store
  <2>2. Looped(detector'[r]) \in BOOLEAN
    BY DEF Looped
  <2> QED
    BY <1>2, <2>1, <2>2 DEF Replay
<1>3. CASE Observe(r)
  <2> DEFINE attempt == [out |-> answer[r], under |-> key[r]]
  <2>1. attempt \in Attempts
    BY <1>3 DEF Observe, Bounded, Holding, Attempts
  <2>2. LoopsWith(detector[r], attempt) \in BOOLEAN
    BY DEF LoopsWith
  <2>3. Observed(window, attempt) \in Windows /\ Observed(detector[r], attempt) \in Windows
    BY <2>1, ObservedWindow
  <2>4. /\ window' = Observed(window, attempt) \/ window' = window
        /\ detector' = [detector EXCEPT ![r] = Observed(detector[r], attempt)]
        /\ looped' = [looped EXCEPT ![r] = LoopsWith(detector[r], attempt)]
    BY <1>3 DEF Observe
  <2> HIDE DEF attempt
  <2> QED
    BY <2>2, <2>3, <2>4
<1>4. CASE ClearLoopHistory(r)
  BY <1>4, NoAttempts DEF ClearLoopHistory, locals
<1>5. CASE UNCHANGED <<window, detector, looped>>
  BY <1>5
<1>6. Recall(r) \/ Route(r) \/ EscalateLocally(r) \/ AskLocally(r) \/ ServeCached(r)
      \/ CacheMiss(r) \/ BudgetSentinel(r) \/ Execute(r) \/ SkipRung(r) \/ CallProvider(r)
      \/ ProviderAnswers(r)
        => UNCHANGED <<window, detector, looped>>
  BY DEF Recall, Route, EscalateLocally, AskLocally, ServeCached, CacheMiss, TakeChain, BudgetSentinel,
         Execute,
         SkipRung, CallProvider, ProviderAnswers, store, locals
<1>7. Accept(r) \/ Cascade(r) \/ ReAsk(r) \/ Reject(r) \/ BookFailedLeg(r) \/ RecordFailure(r)
      \/ BookLoop(r) \/ LadderExhausted(r) \/ BookSuccess(r) \/ ClearGoalFailures(r) \/ Admit(r)
      \/ SaveOutcome(r) \/ EvictSolution(r)
        => UNCHANGED <<window, detector, looped>>
  BY DEF Accept, Cascade, ReAsk, Reject, BookFailedLeg, RecordFailure, BookLoop, LadderExhausted,
         BookSuccess, ClearGoalFailures, Admit, SaveOutcome, EvictSolution, store, locals
<1> QED
  BY <1>1, <1>2, <1>3, <1>4, <1>5, <1>6, <1>7 DEF Step

LEMMA TypeRestart ==
  ASSUME TypeInv, Restart
  PROVE  TypeInv'
<1> USE LimitAssumption DEF TypeInv, TypeOK, Restart
<1>1. window' \in Windows /\ detector' \in [Runs -> Windows]
  <2>1. PICK n \in 0..Len(window) : window' = SubSeq(window, n + 1, Len(window))
    OBVIOUS
  <2> QED
    BY <2>1, NoAttempts, PrunedWindow
<1>2. cache' \in [Keys -> Outputs \union {NoOutput}]
  OBVIOUS
<1>3. execution' \in [Runs -> {"none", "success", "failure"}]
  OBVIOUS
<1>4. failures' \in 0..MaxFailures
  OBVIOUS
<1>5. /\ pc' \in [Runs -> Places] /\ rungs' \in [Runs -> 0..Rungs]
      /\ reAsks' \in [Runs -> 0..ReAskLimit] /\ cascades' \in [Runs -> 0..CascadeLimit]
      /\ answer' \in [Runs -> Outputs \union {NoOutput}] /\ looped' \in [Runs -> BOOLEAN]
      /\ outcome' \in [Runs -> Outcomes]
  BY DEF Places, Outcomes
<1>6. \A r \in Runs : Bounded(r)'
  BY DEF Bounded, Early, Due, Holding, Ladder, Success
<1> QED
  BY <1>1, <1>2, <1>3, <1>4, <1>5, <1>6

LEMMA TypeNext == TypeInv /\ [Next]_vars => TypeInv'
<1> SUFFICES ASSUME TypeInv, [Next]_vars PROVE TypeInv'
  OBVIOUS
<1>1. CASE \E r \in Runs : Begin(r) \/ Step(r)
  <2>1. PICK r \in Runs : Begin(r) \/ Step(r)
    BY <1>1
  <2>2. TypeOK'
    BY <2>1, PlainTypesStep, WindowTypesStep DEF TypeOK, PlainTypes
  <2>3. ASSUME NEW q \in Runs PROVE Bounded(q)'
    <3>1. CASE q = r
      BY <2>1, <3>1, TypeBounds
    <3>2. CASE q # r
      <4>1. /\ pc'[q] = pc[q] /\ unbooked'[q] = unbooked[q] /\ rungs'[q] = rungs[q]
            /\ reAsks'[q] = reAsks[q] /\ answer'[q] = answer[q]
        BY <2>1, <3>2, TypeFrame
      <4> QED
        BY <4>1 DEF TypeInv, Bounded
    <3> QED
      BY <3>1, <3>2
  <2> QED
    BY <2>2, <2>3 DEF TypeInv
<1>2. CASE Restart
  BY <1>2, TypeRestart
<1>3. CASE \E k \in Keys : ForgetSolution(k)
  BY <1>3 DEF ForgetSolution, locals, TypeInv, TypeOK, Bounded
<1>4. CASE UNCHANGED vars
  BY <1>4 DEF vars, store, locals, TypeInv, TypeOK, Bounded
<1> QED
  BY <1>1, <1>2, <1>3, <1>4 DEF Next

\* Every variable keeps its type: the loop window and the failure memory stay
\* within their caps (store.rs:583-588, 710-715), and the counters of a run
\* within its limits, with or without failing writes.
THEOREM TypeCorrect == Spec => []TypeOK
<1>1. TypeInv => TypeOK
  BY DEF TypeInv
<1> QED
  BY <1>1, TypeInit, TypeNext, PTL DEF Spec
-----------------------------------------------------------------------------
(* One run at a time: what it read of the store is what the store holds. *)

Solo(r) ==
  /\ pc[r] \in {"route", "lookup", "sentinel"} \union Ladder => detector[r] = window
  /\ pc[r] \in {"sentinel"} \union Ladder => cache[key[r]] = NoOutput
  /\ pc[r] \in {"forgive", "admit"} => window = <<>>
  /\ pc[r] = "admit" => failures = 0

SoloInv == TypeInv /\ \A r \in Runs : Solo(r)

LEMMA SoloInit == Init => SoloInv
<1>1. Init => \A r \in Runs : Solo(r)
  BY DEF Init, Solo, Ladder
<1> QED
  BY <1>1, TypeInit DEF SoloInv

\* What the live detector catches is in the window, unless it is like the
\* oldest row of a full one and like no other.
LEMMA CaughtWindow ==
  ASSUME NEW w \in Windows, NEW a \in Attempts, LoopsWith(w, a)
  PROVE  \/ Looped(Observed(w, a))
         \/ Len(w) = LoopWindow /\ \A i \in 2..LoopWindow : ~Alike(w[i], a)
<1> DEFINE v == Append(w, a)
<1>1. w \in Seq(Attempts) /\ Len(w) <= LoopWindow /\ Len(w) \in Nat /\ DOMAIN w = 1..Len(w)
  BY WindowsAreSequences, LenProperties
<1>2. /\ v \in Seq(Attempts) /\ Len(v) = Len(w) + 1
      /\ \A i \in 1..Len(w) : v[i] = w[i]
      /\ v[Len(w) + 1] = a
  BY <1>1, AppendProperties
<1>3. DOMAIN v = 1..(Len(w) + 1)
  BY <1>2, LenProperties
<1> HIDE DEF v
<1>4. CASE Len(v) > LoopWindow
  <2>1. Len(w) = LoopWindow /\ Len(v) = LoopWindow + 1
    <3> DEFINE n == Len(w)
    <3>1. n \in Nat /\ n <= LoopWindow /\ n + 1 > LoopWindow /\ LoopWindow \in Nat
      BY <1>1, <1>2, <1>4, LimitAssumption
    <3> HIDE DEF n
    <3>2. n = LoopWindow
      BY <3>1
    <3> QED
      BY <1>2, <3>2 DEF n
  <2>2. SUFFICES ASSUME NEW i \in 2..LoopWindow, Alike(w[i], a)
                 PROVE  Looped(Observed(w, a))
    BY <2>1
  <2> DEFINE u == SubSeq(v, 2, LoopWindow + 1)
  <2>3. Observed(w, a) = u
    BY <2>1, <1>4, LimitAssumption DEF Observed, Trim, v
  <2>4. \A k \in 2..(LoopWindow + 1) : v[k] \in Attempts
    BY <1>2, <2>1, <1>3, ElementOfSeq
  <2>5. /\ u \in Seq(Attempts) /\ Len(u) = LoopWindow
        /\ \A k \in 1..LoopWindow : u[k] = v[k + 1]
    BY <2>4, LimitAssumption, SubSeqProperties
  <2> HIDE DEF u
  <2>6. DOMAIN u = 1..LoopWindow
    BY <2>5, LenProperties
  <2>7. u[i - 1] = w[i] /\ u[LoopWindow] = a
    BY <1>2, <2>1, <2>5, LimitAssumption
  <2>8. i - 1 \in DOMAIN u /\ LoopWindow \in DOMAIN u /\ i - 1 < LoopWindow
    BY <2>6, LimitAssumption
  <2> QED
    BY <2>2, <2>3, <2>7, <2>8 DEF Looped
<1>5. CASE ~(Len(v) > LoopWindow)
  <2>1. PICK i \in 1..Len(w) : Alike(w[i], a)
    BY <1>1 DEF LoopsWith
  <2>2. i \in DOMAIN v /\ Len(w) + 1 \in DOMAIN v /\ i < Len(w) + 1
    BY <1>1, <1>3
  <2>3. Alike(v[i], v[Len(w) + 1])
    BY <1>2, <2>1
  <2>4. Looped(v)
    BY <2>2, <2>3 DEF Looped
  <2> QED
    BY <1>5, <2>4 DEF Observed, Trim, v
<1> QED
  BY <1>4, <1>5

\* The run that moves, and there is no other.
LEMMA SoloStep ==
  ASSUME ~StoreMayFail, SoloInv, NEW r \in Runs, Begin(r) \/ Step(r)
  PROVE  Solo(r)'
<1> USE DEF Solo, Ladder, Success, Returned
<1>1. /\ pc \in [Runs -> Places] /\ key \in [Runs -> Keys]
      /\ detector \in [Runs -> Windows] /\ window \in Windows
      /\ cache \in [Keys -> Outputs \union {NoOutput}] /\ Solo(r)
  BY DEF SoloInv, TypeInv, TypeOK
<1>2. CASE Begin(r)
  BY <1>1, <1>2 DEF Begin, GoTo
<1>3. CASE Recall(r) \/ Route(r) \/ EscalateLocally(r) \/ AskLocally(r) \/ ServeCached(r)
           \/ CacheMiss(r) \/ BudgetSentinel(r) \/ Execute(r)
  BY <1>1, <1>3 DEF Recall, Route, EscalateLocally, AskLocally, ServeCached, CacheMiss,
                    TakeChain, BudgetSentinel, Execute, SaveTask, Conclude, GoTo, store, locals
<1>4. CASE Replay(r)
  BY <1>1, <1>4 DEF Replay, GoTo, store
<1>5. CASE SkipRung(r) \/ CallProvider(r) \/ ProviderAnswers(r) \/ Accept(r) \/ Cascade(r)
           \/ ReAsk(r) \/ Reject(r)
  BY <1>1, <1>5 DEF SkipRung, CallProvider, ProviderAnswers, Accept, Cascade, ReAsk, Reject, Dial,
                    GoTo, store, locals
<1>6. CASE BookFailedLeg(r) \/ RecordFailure(r) \/ BookLoop(r) \/ LadderExhausted(r)
  BY <1>1, <1>6 DEF BookFailedLeg, RecordFailure, BookLoop, LadderExhausted, Conclude, GoTo,
                    store, locals
<1>7. CASE Observe(r)
  <2> DEFINE attempt == [out |-> answer[r], under |-> key[r]]
  <2>1. /\ window' = Observed(window, attempt)
        /\ detector' = [detector EXCEPT ![r] = Observed(@, attempt)]
        /\ pc' = [pc EXCEPT ![r] = IF looped'[r] THEN "looping" ELSE "ladder"]
        /\ UNCHANGED <<failures, cache, key>> /\ pc[r] = "observe"
    BY <1>7 DEF Observe, GoTo
  <2>2. detector[r] = window /\ cache'[key'[r]] = NoOutput
    BY <1>1, <2>1
  <2>3. detector'[r] = window'
    BY <1>1, <2>1, <2>2
  <2>4. pc'[r] \in {"looping", "ladder"}
    BY <1>1, <2>1
  <2> HIDE DEF attempt
  <2> QED
    BY <2>2, <2>3, <2>4
<1>8. CASE BookSuccess(r) \/ ClearLoopHistory(r) \/ ClearGoalFailures(r)
  BY <1>1, <1>8 DEF BookSuccess, ClearLoopHistory, ClearGoalFailures, GoTo, store, locals
<1>9. CASE Admit(r) \/ SaveOutcome(r) \/ EvictSolution(r) \/ RecordExecution(r)
  BY <1>1, <1>9 DEF Admit, SaveOutcome, EvictSolution, RecordExecution, SaveTask, Conclude, GoTo,
                    locals
<1> QED
  BY <1>2, <1>3, <1>4, <1>5, <1>6, <1>7, <1>8, <1>9 DEF Step

LEMMA SoloNext ==
  ASSUME ~StoreMayFail, \A q, r \in Runs : q = r, SoloInv, [Next]_vars
  PROVE  SoloInv'
<1>1. TypeInv'
  BY TypeNext DEF SoloInv
<1>2. ASSUME NEW q \in Runs PROVE Solo(q)'
  <2>1. CASE \E r \in Runs : Begin(r) \/ Step(r)
    BY <2>1, SoloStep
  <2>2. CASE Restart
    BY <2>2 DEF Restart, Solo, Ladder
  <2>3. CASE \E k \in Keys : ForgetSolution(k)
    BY <2>3 DEF ForgetSolution, locals, SoloInv, TypeInv, TypeOK, Solo, Looped
  <2>4. CASE UNCHANGED vars
    BY <2>4 DEF vars, store, locals, SoloInv, Solo, Looped
  <2> QED
    BY <2>1, <2>2, <2>3, <2>4 DEF Next
<1> QED
  BY <1>1, <1>2 DEF SoloInv

\* With one run at a time and no failing store, the live detector of a ladder
\* agrees with the durable window through every failed leg and restart
\* (engine.rs:1070-1075): what it catches is what the next process would see.
THEOREM DetectorSeesWindow ==
  ASSUME ~StoreMayFail, \A q, r \in Runs : q = r PROVE Spec => []DetectorAgrees
<1>1. SoloInv => DetectorAgrees
  BY DEF SoloInv, Solo, DetectorAgrees
<1>2. SoloInv /\ [Next]_vars => SoloInv'
  BY SoloNext
<1> QED
  BY <1>1, <1>2, SoloInit, PTL DEF Spec

\* With one run at a time and no failing store, no provider is asked for what
\* the cache holds (engine.rs:590-641).
THEOREM CachedIsFree ==
  ASSUME ~StoreMayFail, \A q, r \in Runs : q = r PROVE Spec => []NoPaidRepeat
<1>1. SoloInv => NoPaidRepeat
  BY DEF SoloInv, Solo, NoPaidRepeat
<1>2. SoloInv /\ [Next]_vars => SoloInv'
  BY SoloNext
<1> QED
  BY <1>1, <1>2, SoloInit, PTL DEF Spec

\* One run's step to the loop escalation.
LEMMA LoopIsSaved ==
  ASSUME ~StoreMayFail, SoloInv, NEW r \in Runs, Observe(r), pc'[r] = "looping"
  PROVE  Looped(window') \/ RepeatsOldest(r)
<1> DEFINE attempt == [out |-> answer[r], under |-> key[r]]
<1>1. /\ window' = Observed(window, attempt)
      /\ looped' = [looped EXCEPT ![r] = LoopsWith(detector[r], attempt)]
      /\ pc' = [pc EXCEPT ![r] = IF looped'[r] THEN "looping" ELSE "ladder"]
      /\ pc[r] = "observe"
  BY DEF Observe, GoTo
<1>2. /\ pc \in [Runs -> Places] /\ looped \in [Runs -> BOOLEAN] /\ window \in Windows
      /\ key \in [Runs -> Keys] /\ Solo(r) /\ Bounded(r)
  BY DEF SoloInv, TypeInv, TypeOK
<1>3. looped'[r]
  BY <1>1, <1>2
<1>4. detector[r] = window
  BY <1>1, <1>2 DEF Solo, Ladder
<1>5. LoopsWith(window, attempt)
  BY <1>1, <1>2, <1>3, <1>4
<1>6. attempt \in Attempts
  BY <1>1, <1>2 DEF Bounded, Holding, Attempts
<1>7. \/ Looped(Observed(window, attempt))
      \/ Len(window) = LoopWindow /\ \A i \in 2..LoopWindow : ~Alike(window[i], attempt)
  BY <1>2, <1>5, <1>6, CaughtWindow
<1> QED
  BY <1>1, <1>4, <1>7 DEF RepeatsOldest

\* No other step leaves "observe" for "looping".
LEMMA OnlyObserve ==
  ASSUME TypeInv, [Next]_vars, NEW r \in Runs, pc[r] = "observe", pc'[r] = "looping"
  PROVE  Observe(r)
<1>1. CASE Restart
  BY <1>1 DEF Restart
<1>2. CASE (\E k \in Keys : ForgetSolution(k)) \/ UNCHANGED vars
  BY <1>2 DEF ForgetSolution, vars
<1>3. CASE \E q \in Runs : Begin(q) \/ Step(q)
  <2>1. PICK q \in Runs : Begin(q) \/ Step(q)
    BY <1>3
  <2>2. q = r
    BY <2>1, TypeFrame
  <2>3. ~Begin(r)
    BY DEF Begin, Returned
  <2>4. Step(r)
    BY <2>1, <2>2, <2>3
  <2> QED
    BY <2>4 DEF Step, Recall, Replay, Route, EscalateLocally, AskLocally, ServeCached, CacheMiss,
                BudgetSentinel, Execute, SkipRung, CallProvider, ProviderAnswers, Accept, Cascade,
                ReAsk, Reject, BookFailedLeg, RecordFailure, BookLoop, LadderExhausted, BookSuccess,
                ClearLoopHistory, ClearGoalFailures, Admit, SaveOutcome, EvictSolution,
                RecordExecution
<1> QED
  BY <1>1, <1>2, <1>3 DEF Next

\* With one run at a time and no failing store, a loop that the live detector
\* finds is one in the durable window too, unless the answer repeats only the
\* oldest output of a full window (engine.rs:1070-1083).
THEOREM LoopKept ==
  ASSUME ~StoreMayFail, \A q, r \in Runs : q = r PROVE Spec => LoopAbortKept
<1>1. SoloInv /\ [Next]_vars =>
        [\A r \in Runs : pc[r] = "observe" /\ pc'[r] = "looping" =>
           Looped(window') \/ RepeatsOldest(r)]_vars
  BY OnlyObserve, LoopIsSaved DEF SoloInv
<1>2. SoloInv /\ [Next]_vars => SoloInv'
  BY SoloNext
<1> QED
  BY <1>1, <1>2, SoloInit, PTL DEF Spec, LoopAbortKept

\* With one run at a time and no failing store, a verified answer is saved as
\* Done only after the goal's loop window and failure memory are gone
\* (engine.rs:1243-1252).
THEOREM DoneIsForgiven ==
  ASSUME ~StoreMayFail, \A q, r \in Runs : q = r PROVE Spec => SuccessForgives
<1>1. SoloInv /\ [Next]_vars =>
        [\A r \in Runs : pc[r] = "admit" /\ pc'[r] = "finish" => window = <<>> /\ failures = 0]_vars
  BY DEF SoloInv, Solo
<1>2. SoloInv /\ [Next]_vars => SoloInv'
  BY SoloNext
<1> QED
  BY <1>1, <1>2, SoloInit, PTL DEF Spec, SuccessForgives
=============================================================================
