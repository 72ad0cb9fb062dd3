------------------------------ MODULE MCCache ------------------------------
(* One goal under two sets of constraints, exact matches only, for TLC.     *)
EXTENDS SolutionCache, TLC

MCGoals == {{"fix", "login"}}

\* A history of the goals that failed: the keys whose row is older than the last
\* eviction for their goal.
VARIABLE refuted

HistoryInit == CacheInit /\ refuted = {}

HistoryNext ==
  /\ CacheNext
  /\ refuted' = {k \in CacheKeys :
       \/ k \in refuted /\ ~\E r \in Asks : Admit(r) /\ asking[r] = k
       \/ \E r \in Asks : Evict(r) /\ asking[r][1] = k[1]}

HistorySpec == HistoryInit /\ [][HistoryNext]_<<cacheVars, refuted>>

\* "A failed goal must never serve a stale cached answer afterwards"
\* (engine.rs:1299-1300): once a run of a goal has failed and evicted, no run of
\* that goal is given an answer that was admitted before.
FailedGoalNeverServed ==
  [][\A r \in Asks : place[r] # "served" /\ place'[r] = "served" =>
       asking[r] \notin refuted]_<<cacheVars, refuted>>
=============================================================================
