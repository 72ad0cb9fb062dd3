--------------------------- MODULE FailoverProofs ---------------------------
(***************************************************************************)
(* Theorems about Failover, for every number of runs and providers and     *)
(* every size of the two budgets.                                          *)
(***************************************************************************)
EXTENDS Failover, FiniteSetTheorems, TLAPS

\* The sets of places a run can be in, for the proofs that look inside them.
LEMMA Places ==
  /\ Answers = {"ok", "limited", "error"}
  /\ Ended = {"served", "failed", "aborted"}
  /\ Admitted = {"checked", "claimed", "calling", "ok", "limited", "error"}
  /\ Holding = {"claimed", "calling", "ok", "limited", "error"}
BY DEF Answers, Ended, Admitted, Holding

\* The bound on calls is a natural number.
LEMMA CallLimitType == CallLimit \in Nat
BY FS_CardinalityType, FiniteAssumption, BudgetAssumption DEF CallLimit

\* The breaker's fields keep their shape, runs that have left the scan are at
\* a provider, and unusable providers are never called: inductive.
LEMMA CoreInit == Init => Core
BY CallLimitType, BudgetAssumption, ProviderAssumption, Places
   DEF Init, Core, TypeOK, BreakerShape, LadderShape, UnusableIdle

LEMMA CoreStep == Core /\ [Next]_vars => Core'
<1> SUFFICES ASSUME Core, [Next]_vars PROVE Core'
  OBVIOUS
<1> USE CallLimitType, BudgetAssumption, ProviderAssumption, Places
        DEF Core, TypeOK, BreakerShape, LadderShape, UnusableIdle
<1>1. ASSUME NEW r \in Runs, Begin(r) PROVE Core'
  BY <1>1 DEF Begin, GoTo, tracker
<1>2. ASSUME NEW r \in Runs, NEW p \in Providers, ConsultBreaker(r, p) PROVE Core'
  BY <1>2 DEF ConsultBreaker, GoTo, tracker
<1>3. ASSUME NEW r \in Runs, ClaimProbe(r) PROVE Core'
  <2>1. CASE pc'[r] = "scan"
    BY <1>3, <2>1 DEF ClaimProbe, Leave, GoTo
  <2>2. CASE pc'[r] # "scan"
    <3>1. /\ pc' = [pc EXCEPT ![r] = "claimed"]
          /\ UNCHANGED <<cooldown, streak, retryTokens, at, todo, reAsks, calls>>
      BY <1>3, <2>2 DEF ClaimProbe, Leave, GoTo
    <3>2. /\ halfOpen' \in [Providers -> BOOLEAN]
          /\ \A p \in Providers : halfOpen'[p] => halfOpen[p] \/ cooldown[p] = "elapsed"
      BY <1>3, <2>2 DEF ClaimProbe, ClaimHalfOpen, NeedsProbe, Leave, GoTo
    <3>3. TypeOK' /\ BreakerShape' /\ UnusableIdle'
      BY <3>1, <3>2
    <3>4. LadderShape'
      BY <1>3, <3>1 DEF ClaimProbe
    <3> QED
      BY <3>3, <3>4
  <2> QED
    BY <2>1, <2>2
<1>4. ASSUME NEW r \in Runs, SkipUnusable(r) PROVE Core'
  BY <1>4 DEF SkipUnusable, Leave, GoTo, tracker
<1>5. ASSUME NEW r \in Runs, FirstCall(r) PROVE Core'
  BY <1>5 DEF FirstCall, Dial, GoTo, tracker
<1>6. ASSUME NEW r \in Runs, FailoverCall(r) PROVE Core'
  BY <1>6 DEF FailoverCall, Dial, GoTo, tracker
<1>7. ASSUME NEW r \in Runs, BudgetAbort(r) PROVE Core'
  BY <1>7 DEF BudgetAbort, Leave, GoTo, tracker
<1>8. ASSUME NEW r \in Runs, NEW answer \in Answers, Answer(r, answer) PROVE Core'
  BY <1>8 DEF Answer, Refill, GoTo, tracker
<1>9. ASSUME NEW r \in Runs, SettleLimited(r) PROVE Core'
  BY <1>9 DEF SettleLimited, OpenCooldown, Leave, GoTo
<1>10. ASSUME NEW r \in Runs, SettleError(r) PROVE Core'
  BY <1>10 DEF SettleError, ClearCooldown, Leave, GoTo
<1>11. ASSUME NEW r \in Runs, SettleVerified(r) PROVE Core'
  BY <1>11 DEF SettleVerified, ClearCooldown, Leave, GoTo
<1>12. ASSUME NEW r \in Runs, SettleReAsk(r) PROVE Core'
  BY <1>12 DEF SettleReAsk, ClearCooldown, Dial, GoTo
<1>13. ASSUME NEW r \in Runs, SettleRejected(r) PROVE Core'
  BY <1>13 DEF SettleRejected, ClearCooldown, Leave, GoTo
<1>14. ASSUME NEW r \in Runs, EndOfLadder(r) PROVE Core'
  BY <1>14 DEF EndOfLadder, GoTo, tracker
<1>15. ASSUME NEW p \in Providers, Expire(p) PROVE Core'
  BY <1>15 DEF Expire
<1>16. CASE UNCHANGED vars
  BY <1>16 DEF vars
<1> QED
  BY <1>1, <1>2, <1>3, <1>4, <1>5, <1>6, <1>7, <1>8, <1>9, <1>10, <1>11,
     <1>12, <1>13, <1>14, <1>15, <1>16 DEF Next, Step

\* Type correctness of the tracker and of the runs' local state.
THEOREM TypeCorrect == Spec => []TypeOK
<1>1. Core => TypeOK
  BY DEF Core
<1> QED
  BY CoreInit, CoreStep, <1>1, PTL DEF Spec

\* The three breaker fields agree in every reachable state.
THEOREM BreakerShapeHolds == Spec => []BreakerShape
<1>1. Core => BreakerShape
  BY DEF Core
<1> QED
  BY CoreInit, CoreStep, <1>1, PTL DEF Spec

-----------------------------------------------------------------------------
(* The streak of a provider is bounded by the number of concurrent runs. *)

LEMMA InFlightFinite ==
  ASSUME NEW p
  PROVE  /\ IsFiniteSet(InFlight(p))
         /\ Cardinality(InFlight(p)) \in Nat
         /\ Cardinality(InFlight(p)) <= Cardinality(Runs)
         /\ Cardinality(Runs) \in Nat
<1>1. InFlight(p) \in SUBSET Runs
  BY DEF InFlight
<1> QED
  BY <1>1, FS_Subset, FS_CardinalityType, FiniteAssumption

\* A step that adds no run to those in flight keeps the room of their window.
LEMMA FewerInFlight ==
  ASSUME NEW p, InFlight(p)' \subseteq InFlight(p)
  PROVE  /\ Cardinality(InFlight(p)') \in Nat
         /\ Cardinality(InFlight(p)') <= Cardinality(InFlight(p))
<1>1. InFlight(p)' \in SUBSET InFlight(p)
  OBVIOUS
<1> QED
  BY <1>1, InFlightFinite, FS_Subset, FS_CardinalityType

\* A run that leaves makes room for the 429 it reports.
LEMMA OneFewerInFlight ==
  ASSUME NEW p, NEW r \in InFlight(p), InFlight(p)' \subseteq InFlight(p) \ {r}
  PROVE  /\ Cardinality(InFlight(p)') \in Nat
         /\ Cardinality(InFlight(p)') + 1 <= Cardinality(InFlight(p))
<1>1. /\ IsFiniteSet(InFlight(p) \ {r})
      /\ Cardinality(InFlight(p) \ {r}) = Cardinality(InFlight(p)) - 1
  BY InFlightFinite, FS_RemoveElement
<1>2. InFlight(p)' \in SUBSET (InFlight(p) \ {r})
  OBVIOUS
<1> QED
  BY <1>1, <1>2, InFlightFinite, FS_Subset, FS_CardinalityType

LEMMA StreakInit == Init => StreakInv
<1> SUFFICES ASSUME Init PROVE StreakBound /\ StreakRoom
  BY CoreInit DEF StreakInv
<1>1. Cardinality(Runs) \in Nat
  BY FS_CardinalityType, FiniteAssumption
<1> QED
  BY <1>1 DEF Init, StreakBound, StreakRoom

\* The step leaves the streak of p alone or zeroes it, and lets no run in while
\* its window is open.
Quiet(p) ==
  \/ streak'[p] = 0 /\ cooldown'[p] # "open"
  \/ /\ streak'[p] = streak[p]
     /\ cooldown'[p] = "open" => cooldown[p] = "open" /\ InFlight(p)' \subseteq InFlight(p)

\* A step that is quiet everywhere keeps every streak within its bound.
LEMMA StreakQuiet ==
  ASSUME Core, StreakBound, StreakRoom, \A p \in Providers : Quiet(p)
  PROVE  StreakBound' /\ StreakRoom'
<1> USE DEF Quiet
<1>1. \A p \in Providers : streak[p] \in Nat
  BY DEF Core, TypeOK
<1>2. Cardinality(Runs) \in Nat
  BY FS_CardinalityType, FiniteAssumption
<1>3. StreakBound'
  BY <1>1, <1>2 DEF StreakBound
<1>4. ASSUME NEW p \in Providers, cooldown'[p] = "open"
      PROVE  streak'[p] + Cardinality(InFlight(p)') <= Cardinality(Runs)
  <2>1. streak'[p] = streak[p] /\ cooldown[p] = "open" /\ InFlight(p)' \subseteq InFlight(p)
    BY <1>4
  <2>2. streak[p] + Cardinality(InFlight(p)) <= Cardinality(Runs)
    BY <2>1 DEF StreakRoom
  <2> QED
    BY <2>1, <2>2, <1>1, <1>2, FewerInFlight, InFlightFinite
<1> QED
  BY <1>3, <1>4 DEF StreakRoom

LEMMA StreakLimited ==
  ASSUME Core, Core', StreakBound, StreakRoom, NEW r \in Runs, SettleLimited(r)
  PROVE  StreakBound' /\ StreakRoom'
<1>0. PICK p \in Providers : p = at[r]
  BY Places DEF Core, LadderShape, SettleLimited
<1>1. p \in Providers /\ r \in InFlight(p)
  BY <1>0, Places DEF SettleLimited, InFlight
<1>2. InFlight(p)' \subseteq InFlight(p) \ {r}
  BY <1>0, ProviderAssumption, Places DEF Core, TypeOK, SettleLimited, Leave, GoTo, InFlight
<1>3. /\ streak[p] \in Nat
      /\ streak'[p] = IF cooldown[p] = "elapsed" THEN 1 ELSE streak[p] + 1
  BY <1>0 DEF Core, TypeOK, SettleLimited, OpenCooldown
<1>4. /\ Cardinality(InFlight(p)) \in Nat
      /\ Cardinality(InFlight(p)) <= Cardinality(Runs)
      /\ Cardinality(Runs) \in Nat
      /\ Cardinality(InFlight(p)') \in Nat
      /\ Cardinality(InFlight(p)') + 1 <= Cardinality(InFlight(p))
  BY <1>1, <1>2, InFlightFinite, OneFewerInFlight
<1>5. streak'[p] + Cardinality(InFlight(p)') <= Cardinality(Runs)
  <2>1. CASE cooldown[p] = "open"
    BY <1>1, <1>3, <1>4, <2>1 DEF StreakRoom
  <2>2. CASE cooldown[p] = "elapsed"
    BY <1>3, <1>4, <2>2
  <2>3. CASE cooldown[p] = "none"
    BY <1>1, <1>3, <1>4, <2>3 DEF Core, BreakerShape
  <2> QED
    BY <1>1, <2>1, <2>2, <2>3 DEF Core, TypeOK
<1>6. \A q \in Providers : q # p =>
        /\ streak'[q] = streak[q]
        /\ cooldown'[q] = cooldown[q]
  BY <1>0 DEF Core, TypeOK, SettleLimited, OpenCooldown
<1>7. \A q \in Providers : q # p => InFlight(q)' \subseteq InFlight(q)
  BY ProviderAssumption, Places DEF Core, TypeOK, SettleLimited, Leave, GoTo, InFlight
<1>8. StreakBound'
  <2> SUFFICES ASSUME NEW q \in Providers PROVE streak'[q] <= Cardinality(Runs)
    BY DEF StreakBound
  <2>1. CASE q = p
    BY <2>1, <1>1, <1>4, <1>5 DEF Core, TypeOK
  <2>2. CASE q # p
    BY <2>2, <1>6 DEF StreakBound
  <2> QED
    BY <2>1, <2>2
<1>9. StreakRoom'
  <2> SUFFICES ASSUME NEW q \in Providers, cooldown'[q] = "open"
               PROVE  streak'[q] + Cardinality(InFlight(q)') <= Cardinality(Runs)
    BY DEF StreakRoom
  <2>1. CASE q = p
    BY <2>1, <1>5
  <2>2. CASE q # p
    <3>1. streak[q] + Cardinality(InFlight(q)) <= Cardinality(Runs)
      BY <2>2, <1>6 DEF StreakRoom
    <3>2. streak'[q] = streak[q] /\ streak[q] \in Nat
      BY <2>2, <1>6 DEF Core, TypeOK
    <3> QED
      BY <2>2, <1>7, <3>1, <3>2, <1>4, FewerInFlight, InFlightFinite
  <2> QED
    BY <2>1, <2>2
<1> QED
  BY <1>8, <1>9

\* Every step but that of SettleLimited is quiet at every provider.
LEMMA QuietStep ==
  ASSUME Core, [Next]_vars, ~ \E r \in Runs : SettleLimited(r), NEW p \in Providers
  PROVE  Quiet(p)
<1> USE ProviderAssumption, Places DEF Core, TypeOK, LadderShape, Quiet, InFlight
<1>1. ASSUME NEW r \in Runs, Begin(r) PROVE Quiet(p)
  BY <1>1 DEF Begin, GoTo, tracker
<1>2. ASSUME NEW r \in Runs, NEW q \in Providers, ConsultBreaker(r, q) PROVE Quiet(p)
  BY <1>2 DEF ConsultBreaker, InCooldown, GoTo, tracker
<1>3. ASSUME NEW r \in Runs, ClaimProbe(r) PROVE Quiet(p)
  BY <1>3 DEF ClaimProbe, Leave, GoTo
<1>4. ASSUME NEW r \in Runs, SkipUnusable(r) PROVE Quiet(p)
  BY <1>4 DEF SkipUnusable, Leave, GoTo, tracker
<1>5. ASSUME NEW r \in Runs, FirstCall(r) PROVE Quiet(p)
  BY <1>5 DEF FirstCall, Dial, GoTo, tracker
<1>6. ASSUME NEW r \in Runs, FailoverCall(r) PROVE Quiet(p)
  BY <1>6 DEF FailoverCall, Dial, GoTo, tracker
<1>7. ASSUME NEW r \in Runs, BudgetAbort(r) PROVE Quiet(p)
  BY <1>7 DEF BudgetAbort, Leave, GoTo, tracker
<1>8. ASSUME NEW r \in Runs, NEW answer \in Answers, Answer(r, answer) PROVE Quiet(p)
  BY <1>8 DEF Answer, GoTo, tracker
<1>9. ASSUME NEW r \in Runs, SettleError(r) PROVE Quiet(p)
  BY <1>9 DEF SettleError, ClearCooldown, Leave, GoTo
<1>10. ASSUME NEW r \in Runs, SettleVerified(r) PROVE Quiet(p)
  BY <1>10 DEF SettleVerified, ClearCooldown, Leave, GoTo
<1>11. ASSUME NEW r \in Runs, SettleReAsk(r) PROVE Quiet(p)
  BY <1>11 DEF SettleReAsk, ClearCooldown, Dial, GoTo
<1>12. ASSUME NEW r \in Runs, SettleRejected(r) PROVE Quiet(p)
  BY <1>12 DEF SettleRejected, ClearCooldown, Leave, GoTo
<1>13. ASSUME NEW r \in Runs, EndOfLadder(r) PROVE Quiet(p)
  BY <1>13 DEF EndOfLadder, GoTo, tracker
<1>14. ASSUME NEW q \in Providers, Expire(q) PROVE Quiet(p)
  BY <1>14 DEF Expire
<1>15. CASE UNCHANGED vars
  BY <1>15 DEF vars
<1> QED
  BY <1>1, <1>2, <1>3, <1>4, <1>5, <1>6, <1>7, <1>8, <1>9, <1>10, <1>11,
     <1>12, <1>13, <1>14, <1>15 DEF Next, Step

LEMMA StreakStep == StreakInv /\ [Next]_vars => StreakInv'
<1> SUFFICES ASSUME StreakInv, [Next]_vars PROVE StreakInv'
  OBVIOUS
<1>1. Core /\ StreakBound /\ StreakRoom
  BY DEF StreakInv
<1>2. Core'
  BY <1>1, CoreStep
<1>3. CASE \E r \in Runs : SettleLimited(r)
  BY <1>1, <1>2, <1>3, StreakLimited DEF StreakInv
<1>4. CASE ~ \E r \in Runs : SettleLimited(r)
  BY <1>1, <1>2, <1>4, QuietStep, StreakQuiet DEF StreakInv
<1> QED
  BY <1>3, <1>4

\* However many 429s a provider answers in a row, its backoff exponent stays
\* below the number of concurrent runs: only calls already under way when the
\* window opens can lengthen the streak.
THEOREM StreakBounded == Spec => []StreakBound
<1>1. StreakInv => StreakBound
  BY DEF StreakInv
<1> QED
  BY StreakInit, StreakStep, <1>1, PTL DEF Spec

-----------------------------------------------------------------------------
(* Orphaned probe flags. *)

\* The step that orphans a flag is the budget abort of the run that held it.
LEMMA OrphanStep ==
  ASSUME Core, [Next]_vars, NEW p \in Providers, ~Orphan(p), Orphan(p)'
  PROVE  \E r \in Runs : at[r] = p /\ BudgetAbort(r)
<1> USE ProviderAssumption, Places
        DEF Core, TypeOK, BreakerShape, LadderShape, UnusableIdle, Orphan
<1>1. ASSUME NEW r \in Runs, Begin(r) PROVE FALSE
  BY <1>1 DEF Begin, GoTo, tracker
<1>2. ASSUME NEW r \in Runs, NEW q \in Providers, ConsultBreaker(r, q) PROVE FALSE
  BY <1>2 DEF ConsultBreaker, InCooldown, GoTo, tracker
<1>3. ASSUME NEW r \in Runs, ClaimProbe(r) PROVE FALSE
  BY <1>3 DEF ClaimProbe, ClaimHalfOpen, Leave, GoTo
<1>4. ASSUME NEW r \in Runs, SkipUnusable(r) PROVE FALSE
  BY <1>4 DEF SkipUnusable, Leave, GoTo, tracker
<1>5. ASSUME NEW r \in Runs, FirstCall(r) PROVE FALSE
  BY <1>5 DEF FirstCall, Dial, GoTo, tracker
<1>6. ASSUME NEW r \in Runs, FailoverCall(r) PROVE FALSE
  BY <1>6 DEF FailoverCall, Dial, GoTo, tracker
<1>7. ASSUME NEW r \in Runs, BudgetAbort(r) PROVE at[r] = p
  BY <1>7 DEF BudgetAbort, Leave, GoTo, tracker
<1>8. ASSUME NEW r \in Runs, NEW answer \in Answers, Answer(r, answer) PROVE FALSE
  BY <1>8 DEF Answer, GoTo, tracker
<1>9. ASSUME NEW r \in Runs, SettleLimited(r) PROVE FALSE
  BY <1>9 DEF SettleLimited, OpenCooldown, Leave, GoTo
<1>10. ASSUME NEW r \in Runs, SettleError(r) PROVE FALSE
  BY <1>10 DEF SettleError, ClearCooldown, Leave, GoTo
<1>11. ASSUME NEW r \in Runs, SettleVerified(r) PROVE FALSE
  BY <1>11 DEF SettleVerified, ClearCooldown, Leave, GoTo
<1>12. ASSUME NEW r \in Runs, SettleReAsk(r) PROVE FALSE
  BY <1>12 DEF SettleReAsk, ClearCooldown, Dial, GoTo
<1>13. ASSUME NEW r \in Runs, SettleRejected(r) PROVE FALSE
  BY <1>13 DEF SettleRejected, ClearCooldown, Leave, GoTo
<1>14. ASSUME NEW r \in Runs, EndOfLadder(r) PROVE FALSE
  BY <1>14 DEF EndOfLadder, GoTo, tracker
<1>15. ASSUME NEW q \in Providers, Expire(q) PROVE FALSE
  BY <1>15 DEF Expire
<1>16. CASE UNCHANGED vars
  BY <1>16 DEF vars
<1> QED
  BY <1>1, <1>2, <1>3, <1>4, <1>5, <1>6, <1>7, <1>8, <1>9, <1>10, <1>11,
     <1>12, <1>13, <1>14, <1>15, <1>16 DEF Next, Step

\* Only the retry-budget abort leaves a probe flag behind.
THEOREM OnlyAbortsOrphan == Spec => OrphanOnlyByAbort
<1>1. Core /\ [Next]_vars =>
        [\A p \in Providers : ~Orphan(p) /\ Orphan(p)' =>
           \E r \in Runs : at[r] = p /\ BudgetAbort(r)]_vars
  BY OrphanStep
<1> QED
  BY CoreInit, CoreStep, <1>1, PTL DEF Spec, OrphanOnlyByAbort

\* An orphaned flag keeps every run from getting past its claim.
LEMMA OrphanStays ==
  ASSUME Core, [Next]_vars, NEW p \in Providers, Orphan(p)
  PROVE  Orphan(p)'
<1> USE ProviderAssumption, Places
        DEF Core, TypeOK, BreakerShape, LadderShape, Orphan
<1>1. ASSUME NEW r \in Runs, Begin(r) PROVE Orphan(p)'
  BY <1>1 DEF Begin, GoTo, tracker
<1>2. ASSUME NEW r \in Runs, NEW q \in Providers, ConsultBreaker(r, q) PROVE Orphan(p)'
  BY <1>2 DEF ConsultBreaker, GoTo, tracker
<1>3. ASSUME NEW r \in Runs, ClaimProbe(r) PROVE Orphan(p)'
  <2>1. cooldown[p] = "elapsed" /\ streak[p] > 0 /\ halfOpen[p]
    OBVIOUS
  <2>2. CASE at[r] = p
    BY <1>3, <2>1, <2>2 DEF ClaimProbe, ClaimRefused, NeedsProbe, Leave, GoTo
  <2>3. CASE at[r] # p
    BY <1>3, <2>1, <2>3 DEF ClaimProbe, ClaimHalfOpen, Leave, GoTo
  <2> QED
    BY <2>2, <2>3
<1>4. ASSUME NEW r \in Runs, SkipUnusable(r) PROVE Orphan(p)'
  BY <1>4 DEF SkipUnusable, Leave, GoTo, tracker
<1>5. ASSUME NEW r \in Runs, FirstCall(r) PROVE Orphan(p)'
  BY <1>5 DEF FirstCall, Dial, GoTo, tracker
<1>6. ASSUME NEW r \in Runs, FailoverCall(r) PROVE Orphan(p)'
  BY <1>6 DEF FailoverCall, Dial, GoTo, tracker
<1>7. ASSUME NEW r \in Runs, BudgetAbort(r) PROVE Orphan(p)'
  BY <1>7 DEF BudgetAbort, Leave, GoTo, tracker
<1>8. ASSUME NEW r \in Runs, NEW answer \in Answers, Answer(r, answer) PROVE Orphan(p)'
  BY <1>8 DEF Answer, GoTo, tracker
<1>9. ASSUME NEW r \in Runs, SettleLimited(r) PROVE Orphan(p)'
  BY <1>9 DEF SettleLimited, OpenCooldown, Leave, GoTo
<1>10. ASSUME NEW r \in Runs, SettleError(r) PROVE Orphan(p)'
  BY <1>10 DEF SettleError, ClearCooldown, Leave, GoTo
<1>11. ASSUME NEW r \in Runs, SettleVerified(r) PROVE Orphan(p)'
  BY <1>11 DEF SettleVerified, ClearCooldown, Leave, GoTo
<1>12. ASSUME NEW r \in Runs, SettleReAsk(r) PROVE Orphan(p)'
  BY <1>12 DEF SettleReAsk, ClearCooldown, Dial, GoTo
<1>13. ASSUME NEW r \in Runs, SettleRejected(r) PROVE Orphan(p)'
  BY <1>13 DEF SettleRejected, ClearCooldown, Leave, GoTo
<1>14. ASSUME NEW r \in Runs, EndOfLadder(r) PROVE Orphan(p)'
  BY <1>14 DEF EndOfLadder, GoTo, tracker
<1>15. ASSUME NEW q \in Providers, Expire(q) PROVE Orphan(p)'
  BY <1>15 DEF Expire
<1>16. CASE UNCHANGED vars
  BY <1>16 DEF vars
<1> QED
  BY <1>1, <1>2, <1>3, <1>4, <1>5, <1>6, <1>7, <1>8, <1>9, <1>10, <1>11,
     <1>12, <1>13, <1>14, <1>15, <1>16 DEF Next, Step

\* A provider whose probe flag is orphaned is never called again.
THEOREM OrphansStay == Spec => OrphanForever
<1>1. Core /\ [Next]_vars => [\A p \in Providers : Orphan(p) => Orphan(p)']_vars
  BY OrphanStays
<1> QED
  BY CoreInit, CoreStep, <1>1, PTL DEF Spec, OrphanForever

-----------------------------------------------------------------------------
(* Provider calls of a run. *)

\* What is left of a ladder is a finite set, smaller by one without a rung.
LEMMA TodoFinite ==
  ASSUME TypeOK, NEW r \in Runs
  PROVE  /\ Cardinality(todo[r]) \in Nat
         /\ \A p \in todo[r] : Cardinality(todo[r] \ {p}) = Cardinality(todo[r]) - 1
<1>1. IsFiniteSet(todo[r]) /\ Cardinality(todo[r]) \in Nat
  BY FS_Subset, FS_CardinalityType, FiniteAssumption DEF TypeOK
<1>2. ASSUME NEW p \in todo[r] PROVE Cardinality(todo[r] \ {p}) = Cardinality(todo[r]) - 1
  BY <1>1, FS_RemoveElement
<1> QED
  BY <1>1, <1>2

\* A run begins with at most every provider to try.
LEMMA ChainSize ==
  ASSUME NEW chain \in SUBSET Providers
  PROVE  /\ Cardinality(chain) \in Nat
         /\ Cardinality(Providers) \in Nat
         /\ Cardinality(chain) <= Cardinality(Providers)
BY FS_Subset, FS_CardinalityType, FiniteAssumption

LEMMA CallInit == Init => CallInv
<1> SUFFICES ASSUME Init PROVE CallRoom
  BY CoreInit DEF CallInv
<1> QED
  BY CallLimitType, FS_EmptySet DEF Init, CallRoom, Pending

LEMMA CallStep == CallInv /\ [Next]_vars => CallInv'
<1> SUFFICES ASSUME CallInv, [Next]_vars PROVE CallRoom'
  BY CoreStep DEF CallInv
<1>0. Core /\ CallRoom /\ CallLimit \in Nat
  BY CallLimitType DEF CallInv
<1>1. SUFFICES ASSUME NEW s \in Runs
               PROVE  (calls[s] + Cardinality(todo[s]) + Pending(s) + reAsks[s] <= CallLimit)'
  BY DEF CallRoom
<1> DEFINE Room == calls[s] + Cardinality(todo[s]) + Pending(s) + reAsks[s] <= CallLimit
<1>2. Room /\ calls[s] \in Nat /\ reAsks[s] \in Nat /\ Cardinality(todo[s]) \in Nat
  BY <1>0, TodoFinite, BudgetAssumption DEF CallRoom, Core, TypeOK
<1>3. TypeOK
  BY <1>0 DEF Core
<1> USE <1>0, <1>2, <1>3, BudgetAssumption, Places DEF TypeOK, Pending
<1>4. ASSUME NEW r \in Runs, Begin(r) PROVE Room'
  <2>1. CASE s = r
    BY <1>4, <2>1, ChainSize DEF Begin, GoTo, CallLimit
  <2>2. CASE s # r
    BY <1>4, <2>2 DEF Begin, GoTo
  <2> QED
    BY <2>1, <2>2
<1>5. ASSUME NEW r \in Runs, NEW p \in Providers, ConsultBreaker(r, p) PROVE Room'
  <2>1. CASE s = r
    <3>1. p \in todo[s]
      BY <1>5, <2>1 DEF ConsultBreaker
    <3>2. Cardinality(todo[s] \ {p}) = Cardinality(todo[s]) - 1
      BY <3>1, TodoFinite
    <3>3. /\ todo'[s] = todo[s] \ {p}
          /\ calls'[s] = calls[s]
          /\ reAsks'[s] = reAsks[s]
      BY <1>5, <2>1 DEF ConsultBreaker
    <3>4. Pending(s) = 0
      BY <1>5, <2>1 DEF ConsultBreaker
    <3>5. Pending(s)' = 0 \/ Pending(s)' = 1
      OBVIOUS
    <3> QED
      BY <3>2, <3>3, <3>4, <3>5
  <2>2. CASE s # r
    BY <1>5, <2>2 DEF ConsultBreaker, GoTo
  <2> QED
    BY <2>1, <2>2
<1>6. ASSUME NEW r \in Runs, ClaimProbe(r) PROVE Room'
  BY <1>6 DEF ClaimProbe, Leave, GoTo
<1>7. ASSUME NEW r \in Runs, SkipUnusable(r) PROVE Room'
  BY <1>7 DEF SkipUnusable, Leave, GoTo
<1>8. ASSUME NEW r \in Runs, FirstCall(r) PROVE Room'
  BY <1>8 DEF FirstCall, Dial, GoTo
<1>9. ASSUME NEW r \in Runs, FailoverCall(r) PROVE Room'
  BY <1>9 DEF FailoverCall, Dial, GoTo
<1>10. ASSUME NEW r \in Runs, BudgetAbort(r) PROVE Room'
  BY <1>10 DEF BudgetAbort, Leave, GoTo
<1>11. ASSUME NEW r \in Runs, NEW answer \in Answers, Answer(r, answer) PROVE Room'
  BY <1>11 DEF Answer, GoTo
<1>12. ASSUME NEW r \in Runs, SettleLimited(r) PROVE Room'
  BY <1>12 DEF SettleLimited, Leave, GoTo
<1>13. ASSUME NEW r \in Runs, SettleError(r) PROVE Room'
  BY <1>13 DEF SettleError, Leave, GoTo
<1>14. ASSUME NEW r \in Runs, SettleVerified(r) PROVE Room'
  BY <1>14 DEF SettleVerified, Leave, GoTo
<1>15. ASSUME NEW r \in Runs, SettleReAsk(r) PROVE Room'
  BY <1>15 DEF SettleReAsk, Dial, GoTo
<1>16. ASSUME NEW r \in Runs, SettleRejected(r) PROVE Room'
  BY <1>16 DEF SettleRejected, Leave, GoTo
<1>17. ASSUME NEW r \in Runs, EndOfLadder(r) PROVE Room'
  BY <1>17 DEF EndOfLadder, GoTo
<1>18. ASSUME NEW p \in Providers, Expire(p) PROVE Room'
  BY <1>18 DEF Expire
<1>19. CASE UNCHANGED vars
  BY <1>19 DEF vars
<1> QED
  BY <1>4, <1>5, <1>6, <1>7, <1>8, <1>9, <1>10, <1>11, <1>12, <1>13, <1>14,
     <1>15, <1>16, <1>17, <1>18, <1>19 DEF Next, Step

\* A run calls providers at most once per rung and once per re-ask.
THEOREM CallsBounded == Spec => []CallBound
<1>1. CallInv => CallBound
  <2> SUFFICES ASSUME CallInv, NEW r \in Runs PROVE calls[r] <= CallLimit
    BY DEF CallBound
  <2>1. /\ calls[r] + Cardinality(todo[r]) + Pending(r) + reAsks[r] <= CallLimit
        /\ calls[r] \in Nat /\ reAsks[r] \in Nat /\ Pending(r) \in Nat
        /\ Cardinality(todo[r]) \in Nat
    BY TodoFinite, CallLimitType, BudgetAssumption
       DEF CallInv, Core, TypeOK, CallRoom, Pending
  <2> QED
    BY <2>1, CallLimitType
<1> QED
  BY CallInit, CallStep, <1>1, PTL DEF Spec

-----------------------------------------------------------------------------
(* A single run. *)

\* What a sequential client's run has seen at the breaker still holds when it
\* calls: nobody else can open the window in between.
WindowShut ==
  \A r \in Runs : pc[r] \in {"checked", "claimed"} => cooldown[at[r]] # "open"

\* With one run at a time no call starts inside a cooldown window.
THEOREM SoloSkipsWhileOpen ==
  ASSUME NEW solo, Runs = {solo}
  PROVE  Spec => SkippedWhileOpen
<1>1. Init => WindowShut
  BY DEF Init, WindowShut
<1>2. Core /\ WindowShut /\ [Next]_vars => WindowShut'
  <2> SUFFICES ASSUME Core, WindowShut, [Next]_vars PROVE WindowShut'
    OBVIOUS
  <2> USE Places, ProviderAssumption DEF Core, TypeOK, LadderShape, WindowShut
  <2>1. CASE \E p \in Providers : ConsultBreaker(solo, p)
    BY <2>1 DEF ConsultBreaker, InCooldown, GoTo, tracker
  <2>2. CASE ClaimProbe(solo)
    BY <2>2 DEF ClaimProbe, Leave, GoTo
  <2>3. CASE \E p \in Providers : Expire(p)
    BY <2>3 DEF Expire
  <2>4. CASE UNCHANGED vars
    BY <2>4 DEF vars
  <2>5. ASSUME pc'[solo] \notin {"checked", "claimed"} PROVE WindowShut'
    BY <2>5
  <2> QED
    BY <2>1, <2>2, <2>3, <2>4, <2>5
       DEF Next, Step, Begin, SkipUnusable, FirstCall, FailoverCall, BudgetAbort, Answer,
           SettleLimited, SettleError, SettleVerified, SettleReAsk, SettleRejected,
           EndOfLadder, Leave, Dial, GoTo
<1>3. WindowShut =>
        [\A r \in Runs : pc[r] = "claimed" /\ pc'[r] = "calling" => cooldown[at[r]] # "open"]_vars
  BY DEF WindowShut
<1> QED
  BY CoreInit, CoreStep, <1>1, <1>2, <1>3, PTL DEF Spec, SkippedWhileOpen
=============================================================================
