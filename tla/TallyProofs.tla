---------------------------- MODULE TallyProofs -----------------------------
(***************************************************************************)
(* What is counted up while runs overlap: the evidence of the bandit and   *)
(* what runs cost.                                                         *)
(***************************************************************************)
EXTENDS Bandit, SpendLedger, SetProofs, SequenceTheorems, TLAPS

-----------------------------------------------------------------------------
(* The evidence of the bandit. *)

BanditTypeOK ==
  /\ pulls \in [Arms -> Nat] /\ reward \in [Arms -> Nat] /\ totalPulls \in Nat
  /\ saved \in [Arms -> Tally \union {NoArm}]
  /\ attempts \in [Arms -> Tally] /\ calls \in [Arms -> Tally]
  /\ extra \in [Arms -> Nat] /\ borrowed \in [Arms -> Nat]
  /\ caller \in [Callers -> CallerPlaces]
  /\ arm \in [Callers -> Arms \union {NoArm}]
  /\ \A c \in Callers : caller[c] # "idle" => arm[c] \in Arms
  /\ outcome \in [Callers -> Outcomes] /\ loaded \in [Callers -> Nat]
  /\ sums \in [Callers -> Tally]
  /\ starts \in Nat

\* A success writes its row first, every other outcome at the end.
RowsInOrder ==
  \A c \in Callers : /\ caller[c] = "rowFirst" => outcome[c] = "succeeded"
                     /\ caller[c] \in {"row", "rowAgain"} => outcome[c] # "succeeded"

\* What a call has still to add: to the pulls and the reward of its arm, to the
\* total, and to the attempt rows, where the rows beyond one per recorded call
\* are nobody's due.
Unrewarded == {"rowFirst", "pull", "load", "exchange"}
RowDue(c) ==
  \/ caller[c] = "rowFirst"
  \/ outcome[c] \in {"failed", "looped"} /\ caller[c] \notin {"idle", "rowAgain"}

PullDue == [a \in Arms |->
  [c \in Callers |-> IF arm[c] = a /\ caller[c] \in {"rowFirst", "pull"} THEN 1 ELSE 0]]
RewardDue == [a \in Arms |->
  [c \in Callers |-> IF arm[c] = a /\ caller[c] \in Unrewarded THEN Worth(c) ELSE 0]]
RowsDue == [a \in Arms |-> [c \in Callers |-> IF arm[c] = a /\ RowDue(c) THEN 1 ELSE 0]]
RowRewardDue == [a \in Arms |->
  [c \in Callers |-> IF arm[c] = a /\ caller[c] = "rowFirst" THEN Worth(c) ELSE 0]]
TotalDue ==
  [c \in Callers |-> IF caller[c] \in Unrewarded \/ caller[c] = "total" THEN 1 ELSE 0]

Over(f) == SumFunctionOnSet(f, Callers)
Known == [a \in Arms |-> calls[a].pulls + borrowed[a]]

Bounded ==
  /\ \A a \in Arms : pulls[a] + Over(PullDue[a]) <= Known[a]
  /\ \A a \in Arms : reward[a] + Over(RewardDue[a]) <= calls[a].reward
  /\ totalPulls + Over(TotalDue) <= SumFunctionOnSet(Known, Arms)

Exact ==
  /\ \A a \in Arms : borrowed[a] = 0
  /\ \A a \in Arms : pulls[a] + Over(PullDue[a]) = Known[a]
  /\ \A a \in Arms : reward[a] + Over(RewardDue[a]) = calls[a].reward
  /\ totalPulls + Over(TotalDue) = SumFunctionOnSet(Known, Arms)

\* What was saved or read is behind what is known.
SumsBehind ==
  /\ \A a \in Arms : saved[a] # NoArm =>
       saved[a].pulls <= Known[a] /\ saved[a].reward <= calls[a].reward
  /\ \A c \in Callers :
       IF caller[c] \in {"readReward", "save"}
       THEN sums[c].pulls <= Known[arm[c]] /\ sums[c].reward <= calls[arm[c]].reward
       ELSE sums[c] = Nothing

RowsBehind ==
  /\ \A a \in Arms : borrowed[a] <= extra[a]
  /\ \A a \in Arms : attempts[a].pulls + Over(RowsDue[a]) <= calls[a].pulls + extra[a]
  /\ \A a \in Arms : attempts[a].reward + Over(RowRewardDue[a]) <= calls[a].reward

BanditInv ==
  BanditTypeOK /\ RowsInOrder /\ Bounded /\ (starts = 0 => Exact) /\ SumsBehind /\ RowsBehind

Sizes ==
  /\ \A a \in Arms : /\ Over(PullDue[a]) \in Nat /\ Over(RewardDue[a]) \in Nat
                     /\ Over(RowsDue[a]) \in Nat /\ Over(RowRewardDue[a]) \in Nat
  /\ Over(TotalDue) \in Nat

LEMMA DuesAreSizes == ASSUME BanditTypeOK
  PROVE  Sizes /\ SumFunctionOnSet(Known, Arms) \in Nat
<1>1. ASSUME NEW a \in Arms
      PROVE  \A c \in Callers : /\ PullDue[a][c] \in Nat /\ RewardDue[a][c] \in Nat
                                /\ RowsDue[a][c] \in Nat /\ RowRewardDue[a][c] \in Nat
  BY DEF PullDue, RewardDue, RowsDue, RowRewardDue, Worth
<1>2. \A c \in Callers : TotalDue[c] \in Nat
  BY DEF TotalDue
<1>3. \A a \in Arms : Known[a] \in Nat
  BY DEF BanditTypeOK, Known, Tally
<1>4. Over(TotalDue) \in Nat
  BY <1>2, SumNat, BanditAssumption DEF Over
<1>5. \A a \in Arms : /\ Over(PullDue[a]) \in Nat /\ Over(RewardDue[a]) \in Nat
                      /\ Over(RowsDue[a]) \in Nat /\ Over(RowRewardDue[a]) \in Nat
  BY <1>1, SumNat, BanditAssumption DEF Over
<1>6. SumFunctionOnSet(Known, Arms) \in Nat
  BY <1>3, SumNat, BanditAssumption
<1> QED
  BY <1>4, <1>5, <1>6 DEF Sizes

\* When one caller moves, only its own share of what is due changes.
Others(c) ==
  \A d \in Callers \ {c} : caller'[d] = caller[d] /\ arm'[d] = arm[d] /\ outcome'[d] = outcome[d]
PullShare(c) ==
  \A a \in Arms : Over(PullDue[a])' = Over(PullDue[a]) + (PullDue'[a][c] - PullDue[a][c])
RewardShare(c) ==
  \A a \in Arms : Over(RewardDue[a])' = Over(RewardDue[a]) + (RewardDue'[a][c] - RewardDue[a][c])
RowShare(c) ==
  \A a \in Arms : Over(RowsDue[a])' = Over(RowsDue[a]) + (RowsDue'[a][c] - RowsDue[a][c])
RowRewardShare(c) ==
  \A a \in Arms : Over(RowRewardDue[a])' =
    Over(RowRewardDue[a]) + (RowRewardDue'[a][c] - RowRewardDue[a][c])
TotalShare(c) == Over(TotalDue)' = Over(TotalDue) + (TotalDue'[c] - TotalDue[c])
Shares(c) ==
  PullShare(c) /\ RewardShare(c) /\ RowShare(c) /\ RowRewardShare(c) /\ TotalShare(c)

LEMMA CallerMoves == ASSUME NEW c \in Callers, Others(c) PROVE Shares(c)
<1>1. ASSUME NEW f, NEW g, \A d \in Callers : f[d] \in Int /\ g[d] \in Int,
             \A d \in Callers : d # c => f[d] = g[d]
      PROVE  SumFunctionOnSet(g, Callers) = SumFunctionOnSet(f, Callers) + (g[c] - f[c])
  BY <1>1, SumChange, BanditAssumption
<1>2. PullShare(c)
  <2> SUFFICES ASSUME NEW a \in Arms
               PROVE  SumFunctionOnSet(PullDue'[a], Callers) =
                        SumFunctionOnSet(PullDue[a], Callers) + (PullDue'[a][c] - PullDue[a][c])
    BY DEF PullShare, Over
  <2>1. \A d \in Callers : /\ PullDue[a][d] \in Int /\ PullDue'[a][d] \in Int
                           /\ d # c => PullDue[a][d] = PullDue'[a][d]
    BY DEF PullDue, Others
  <2> QED
    BY <1>1, <2>1
<1>3. RewardShare(c)
  <2> SUFFICES ASSUME NEW a \in Arms
               PROVE  SumFunctionOnSet(RewardDue'[a], Callers) =
                        SumFunctionOnSet(RewardDue[a], Callers) + (RewardDue'[a][c] - RewardDue[a][c])
    BY DEF RewardShare, Over
  <2>1. \A d \in Callers : /\ RewardDue[a][d] \in Int /\ RewardDue'[a][d] \in Int
                           /\ d # c => RewardDue[a][d] = RewardDue'[a][d]
    BY DEF RewardDue, Others, Worth
  <2> QED
    BY <1>1, <2>1
<1>4. RowShare(c)
  <2> SUFFICES ASSUME NEW a \in Arms
               PROVE  SumFunctionOnSet(RowsDue'[a], Callers) =
                        SumFunctionOnSet(RowsDue[a], Callers) + (RowsDue'[a][c] - RowsDue[a][c])
    BY DEF RowShare, Over
  <2>1. \A d \in Callers : /\ RowsDue[a][d] \in Int /\ RowsDue'[a][d] \in Int
                           /\ d # c => RowsDue[a][d] = RowsDue'[a][d]
    BY DEF RowsDue, RowDue, Others
  <2> QED
    BY <1>1, <2>1
<1>5. RowRewardShare(c)
  <2> SUFFICES ASSUME NEW a \in Arms
               PROVE  SumFunctionOnSet(RowRewardDue'[a], Callers) =
                        SumFunctionOnSet(RowRewardDue[a], Callers)
                          + (RowRewardDue'[a][c] - RowRewardDue[a][c])
    BY DEF RowRewardShare, Over
  <2>1. \A d \in Callers : /\ RowRewardDue[a][d] \in Int /\ RowRewardDue'[a][d] \in Int
                           /\ d # c => RowRewardDue[a][d] = RowRewardDue'[a][d]
    BY DEF RowRewardDue, Others, Worth
  <2> QED
    BY <1>1, <2>1
<1>6. TotalShare(c)
  <2>1. \A d \in Callers : /\ TotalDue[d] \in Int /\ TotalDue'[d] \in Int
                           /\ d # c => TotalDue[d] = TotalDue'[d]
    BY DEF TotalDue, Others
  <2> QED
    BY <1>1, <2>1 DEF TotalShare, Over
<1> QED
  BY <1>2, <1>3, <1>4, <1>5, <1>6 DEF Shares

LEMMA BanditTyped == ASSUME BanditTypeOK, [BanditNext]_banditVars PROVE BanditTypeOK'
<1> USE DEF atomics, durable, evidence, Tally, Nothing, CallerPlaces, Outcomes
<1>1. ASSUME NEW c \in Callers, NEW place \in CallerPlaces, CallerTo(c, place),
             caller[c] # "idle"
      PROVE  /\ caller' \in [Callers -> CallerPlaces] /\ outcome' \in [Callers -> Outcomes]
             /\ arm' \in [Callers -> Arms \union {NoArm}]
             /\ \A d \in Callers : caller'[d] # "idle" => arm'[d] \in Arms
  <2>1. CASE place = "idle"
    BY <1>1, <2>1 DEF CallerTo, BanditTypeOK
  <2>2. CASE place # "idle"
    BY <1>1, <2>2 DEF CallerTo, BanditTypeOK
  <2> QED
    BY <2>1, <2>2
<1>2. ASSUME NEW c \in Callers, CallReturns(c) PROVE BanditTypeOK'
  <2>1. PICK a \in Arms, o \in Outcomes :
          /\ arm' = [arm EXCEPT ![c] = a] /\ outcome' = [outcome EXCEPT ![c] = o]
          /\ calls' = IF o = "cascaded" THEN calls
                      ELSE [calls EXCEPT ![a] = Plus(@, IF o = "succeeded" THEN 1 ELSE 0)]
          /\ caller' = [caller EXCEPT ![c] = CASE o = "succeeded" -> "rowFirst"
                                               [] o = "cascaded" -> "row"
                                               [] OTHER -> "pull"]
    BY <1>2 DEF CallReturns
  <2>2. calls' \in [Arms -> Tally]
    BY <2>1 DEF BanditTypeOK, Plus
  <2>3. caller' \in [Callers -> CallerPlaces]
    BY <2>1 DEF BanditTypeOK
  <2>4. \A d \in Callers : caller'[d] # "idle" => arm'[d] \in Arms
    BY <2>1 DEF BanditTypeOK
  <2> QED
    BY <1>2, <2>1, <2>2, <2>3, <2>4 DEF CallReturns, BanditTypeOK
<1>3. ASSUME NEW c \in Callers, AddPull(c) PROVE BanditTypeOK'
  <2>1. caller[c] # "idle" /\ CallerTo(c, "load") /\ pulls' \in [Arms -> Nat]
    BY <1>3 DEF AddPull, BanditTypeOK
  <2> QED
    BY <1>1, <1>3, <2>1 DEF AddPull, BanditTypeOK
<1>4. ASSUME NEW c \in Callers, LoadReward(c) PROVE BanditTypeOK'
  <2>1. caller[c] # "idle" /\ CallerTo(c, "exchange") /\ loaded' \in [Callers -> Nat]
    BY <1>4 DEF LoadReward, BanditTypeOK
  <2> QED
    BY <1>1, <1>4, <2>1 DEF LoadReward, BanditTypeOK
<1>5. ASSUME NEW c \in Callers, ExchangeReward(c) PROVE BanditTypeOK'
  <2>1. arm[c] \in Arms /\ reward[arm[c]] \in Nat /\ loaded[c] + Worth(c) \in Nat
        /\ caller[c] # "idle"
    BY <1>5 DEF ExchangeReward, BanditTypeOK, Worth
  <2>2. CASE reward[arm[c]] = loaded[c]
    <3>1. /\ reward' = [reward EXCEPT ![arm[c]] = loaded[c] + Worth(c)]
          /\ loaded' = [loaded EXCEPT ![c] = 0] /\ CallerTo(c, "total")
          /\ UNCHANGED <<pulls, totalPulls, saved, attempts, sums, starts, calls, extra, borrowed>>
      BY <1>5, <2>2 DEF ExchangeReward
    <3>2. reward' \in [Arms -> Nat] /\ loaded' \in [Callers -> Nat]
      BY <2>1, <3>1 DEF BanditTypeOK
    <3> QED
      BY <1>1, <2>1, <3>1, <3>2 DEF BanditTypeOK
  <2>3. CASE reward[arm[c]] # loaded[c]
    BY <1>5, <2>1, <2>3 DEF ExchangeReward, BanditTypeOK
  <2> QED
    BY <2>2, <2>3
<1>6. ASSUME NEW c \in Callers, AddTotal(c) PROVE BanditTypeOK'
  <2>1. caller[c] # "idle" /\ CallerTo(c, "readPulls")
    BY <1>6 DEF AddTotal
  <2> QED
    BY <1>1, <1>6, <2>1 DEF AddTotal, BanditTypeOK
<1>7. ASSUME NEW c \in Callers, ReadPulls(c) \/ ReadReward(c) PROVE BanditTypeOK'
  <2>1. PICK place \in {"readReward", "save"} : CallerTo(c, place)
    BY <1>7 DEF ReadPulls, ReadReward
  <2>2. caller[c] # "idle" /\ arm[c] \in Arms
    BY <1>7 DEF ReadPulls, ReadReward, BanditTypeOK
  <2>3. PICK t \in Tally : sums' = [sums EXCEPT ![c] = t]
    <3>1. sums[c] \in Tally /\ pulls[arm[c]] \in Nat /\ reward[arm[c]] \in Nat
      BY <2>2 DEF BanditTypeOK
    <3>2. /\ [sums[c] EXCEPT !.pulls = pulls[arm[c]]] \in Tally
          /\ [sums[c] EXCEPT !.reward = reward[arm[c]]] \in Tally
      BY <3>1
    <3> QED
      BY <1>7, <3>2 DEF ReadPulls, ReadReward
  <2> QED
    BY <1>1, <1>7, <2>1, <2>2, <2>3 DEF ReadPulls, ReadReward, BanditTypeOK
<1>8. ASSUME NEW c \in Callers, SaveSums(c) \/ SaveSumsFails(c) PROVE BanditTypeOK'
  <2>1. PICK place \in {"idle", "row"} : CallerTo(c, place)
    BY <1>8 DEF SaveSums, SaveSumsFails, AfterSave
  <2>2. caller[c] # "idle" /\ arm[c] \in Arms
    BY <1>8 DEF SaveSums, SaveSumsFails, BanditTypeOK
  <2>3. sums' \in [Callers -> Tally]
    <3>1. sums' = [sums EXCEPT ![c] = Nothing]
      BY <1>8 DEF SaveSums, SaveSumsFails
    <3> QED
      BY <3>1 DEF BanditTypeOK
  <2>4. saved' \in [Arms -> Tally \union {NoArm}]
    <3>1. saved' = saved \/ saved' = [saved EXCEPT ![arm[c]] = sums[c]]
      BY <1>8 DEF SaveSums, SaveSumsFails
    <3> QED
      BY <2>2, <3>1 DEF BanditTypeOK
  <2> QED
    BY <1>1, <1>8, <2>1, <2>2, <2>3, <2>4 DEF SaveSums, SaveSumsFails, BanditTypeOK
<1>9. ASSUME NEW c \in Callers, RowAttempt(c) \/ RowAttemptFails(c) PROVE BanditTypeOK'
  <2>1. PICK place \in {"idle", "pull", "rowAgain"} : CallerTo(c, place)
    BY <1>9 DEF RowAttempt, RowAttemptFails, AfterRow
  <2>2. caller[c] # "idle" /\ arm[c] \in Arms
    BY <1>9 DEF RowAttempt, RowAttemptFails, BanditTypeOK
  <2>3. Plus(attempts[arm[c]], Worth(c)) \in Tally /\ extra[arm[c]] + 1 \in Nat
    BY <2>2 DEF BanditTypeOK, Plus, Worth
  <2>4. attempts' \in [Arms -> Tally] /\ extra' \in [Arms -> Nat]
    BY <1>9, <2>2, <2>3 DEF RowAttempt, RowAttemptFails, BanditTypeOK
  <2> QED
    BY <1>1, <1>9, <2>1, <2>2, <2>4 DEF RowAttempt, RowAttemptFails, BanditTypeOK
<1>10. CASE Restart
  <2>1. ASSUME NEW t \in [Arms -> Tally], StartFrom(t)
        PROVE  pulls' \in [Arms -> Nat] /\ reward' \in [Arms -> Nat] /\ totalPulls' \in Nat
    <3>1. pulls' \in [Arms -> Nat] /\ reward' \in [Arms -> Nat]
      BY <2>1 DEF StartFrom
    <3>2. SumFunctionOnSet(pulls', Arms) \in Nat
      BY <3>1, SumNat, BanditAssumption
    <3> QED
      BY <2>1, <3>1, <3>2 DEF StartFrom
  <2>2. PICK t \in [Arms -> Tally] : StartFrom(t)
    BY <1>10 DEF Restart, StartFromSaved, StartFromRows, BanditTypeOK
  <2>3. borrowed' \in [Arms -> Nat]
    BY <1>10 DEF Restart, StartFromSaved, StartFromRows, BanditTypeOK
  <2> QED
    BY <1>10, <2>1, <2>2, <2>3 DEF Restart, BanditTypeOK
<1>11. CASE UNCHANGED banditVars
  BY <1>11 DEF banditVars, BanditTypeOK
<1> QED
  BY <1>2, <1>3, <1>4, <1>5, <1>6, <1>7, <1>8, <1>9, <1>10, <1>11 DEF BanditNext

\* What one caller does.
CallerStep(c) ==
  \/ AddPull(c) \/ LoadReward(c) \/ ExchangeReward(c) \/ AddTotal(c)
  \/ ReadPulls(c) \/ ReadReward(c) \/ SaveSums(c) \/ SaveSumsFails(c)
  \/ RowAttempt(c) \/ RowAttemptFails(c)

LEMMA Moved ==
  ASSUME BanditTypeOK, NEW c \in Callers, NEW place, CallerTo(c, place)
  PROVE  /\ caller'[c] = place /\ Others(c)
         /\ place # "idle" => UNCHANGED <<arm, outcome>>
BY DEF CallerTo, BanditTypeOK, Others

\* Whose side of a place does not change leaves the sum over it alone.
StillPulls == \A a \in Arms : Over(PullDue[a])' = Over(PullDue[a])
StillRewards == \A a \in Arms : Over(RewardDue[a])' = Over(RewardDue[a])
StillRows == \A a \in Arms : Over(RowsDue[a])' = Over(RowsDue[a])
StillRowRewards == \A a \in Arms : Over(RowRewardDue[a])' = Over(RowRewardDue[a])
StillTotal == Over(TotalDue)' = Over(TotalDue)

LEMMA Still ==
  ASSUME NEW c \in Callers, Shares(c), Sizes,
         caller'[c] = "idle" \/ (arm'[c] = arm[c] /\ outcome'[c] = outcome[c])
  PROVE  /\ (caller[c] \in {"rowFirst", "pull"} <=> caller'[c] \in {"rowFirst", "pull"}) => StillPulls
         /\ (caller[c] \in Unrewarded <=> caller'[c] \in Unrewarded) => StillRewards
         /\ (RowDue(c) <=> RowDue(c)') => StillRows
         /\ (caller[c] = "rowFirst" <=> caller'[c] = "rowFirst") => StillRowRewards
         /\ (caller[c] = "total" \/ caller[c] \in Unrewarded
               <=> caller'[c] = "total" \/ caller'[c] \in Unrewarded) => StillTotal
<1>1. ASSUME caller[c] \in {"rowFirst", "pull"} <=> caller'[c] \in {"rowFirst", "pull"}
      PROVE  StillPulls
  <2>1. \A a \in Arms : PullDue'[a][c] = PullDue[a][c] /\ PullDue[a][c] \in Nat
    BY <1>1 DEF PullDue
  <2> QED
    BY <2>1 DEF Shares, PullShare, StillPulls, Sizes
<1>2. ASSUME caller[c] \in Unrewarded <=> caller'[c] \in Unrewarded PROVE StillRewards
  <2>1. \A a \in Arms : RewardDue'[a][c] = RewardDue[a][c] /\ RewardDue[a][c] \in Nat
    BY <1>2 DEF RewardDue, Worth, Unrewarded
  <2> QED
    BY <2>1 DEF Shares, RewardShare, StillRewards, Sizes
<1>3. ASSUME RowDue(c) <=> RowDue(c)' PROVE StillRows
  <2>1. \A a \in Arms : RowsDue'[a][c] = RowsDue[a][c] /\ RowsDue[a][c] \in Nat
    BY <1>3 DEF RowsDue, RowDue
  <2> QED
    BY <2>1 DEF Shares, RowShare, StillRows, Sizes
<1>4. ASSUME caller[c] = "rowFirst" <=> caller'[c] = "rowFirst" PROVE StillRowRewards
  <2>1. \A a \in Arms : RowRewardDue'[a][c] = RowRewardDue[a][c] /\ RowRewardDue[a][c] \in Nat
    BY <1>4 DEF RowRewardDue, Worth
  <2> QED
    BY <2>1 DEF Shares, RowRewardShare, StillRowRewards, Sizes
<1>5. ASSUME caller[c] = "total" \/ caller[c] \in Unrewarded
               <=> caller'[c] = "total" \/ caller'[c] \in Unrewarded
      PROVE  StillTotal
  <2>1. TotalDue'[c] = TotalDue[c] /\ TotalDue[c] \in Nat
    BY <1>5 DEF TotalDue
  <2> QED
    BY <2>1 DEF Shares, TotalShare, StillTotal, Sizes
<1> QED
  BY <1>1, <1>2, <1>3, <1>4, <1>5

LEMMA BoundsKept ==
  ASSUME Bounded, starts = 0 => Exact, UNCHANGED <<pulls, reward, totalPulls, calls, borrowed, starts>>,
         StillPulls, StillRewards, StillTotal
  PROVE  Bounded' /\ (starts' = 0 => Exact')
<1>1. Known' = Known
  BY DEF Known
<1>2. Bounded'
  BY <1>1 DEF Bounded, StillPulls, StillRewards, StillTotal
<1>3. ASSUME starts' = 0 PROVE Exact'
  BY <1>1, <1>3 DEF Exact, StillPulls, StillRewards, StillTotal
<1> QED
  BY <1>2, <1>3

LEMMA SumsKept ==
  ASSUME SumsBehind, UNCHANGED <<saved, calls, borrowed>>, NEW c \in Callers, Others(c),
         \A d \in Callers \ {c} : sums'[d] = sums[d],
         IF caller'[c] \in {"readReward", "save"}
         THEN sums'[c].pulls <= Known[arm'[c]] /\ sums'[c].reward <= calls[arm'[c]].reward
         ELSE sums'[c] = Nothing
  PROVE  SumsBehind'
<1>1. Known' = Known
  BY DEF Known
<1> QED
  BY <1>1 DEF SumsBehind, Others

LEMMA AttemptsKept ==
  ASSUME RowsBehind, UNCHANGED <<attempts, calls, extra, borrowed>>, StillRows, StillRowRewards
  PROVE  RowsBehind'
BY DEF RowsBehind, StillRows, StillRowRewards

LEMMA OrderKept ==
  ASSUME BanditTypeOK, RowsInOrder, NEW c \in Callers, CallerStep(c) PROVE RowsInOrder'
<1>1. PICK place :
        /\ CallerTo(c, place) \/ UNCHANGED <<caller, arm, outcome>>
        /\ place # "rowFirst"
        /\ place = "row" => outcome[c] # "succeeded"
        /\ place = "rowAgain" => outcome[c] = "looped"
  <2>1. CASE ExchangeReward(c)
    BY <2>1 DEF ExchangeReward
  <2>2. CASE SaveSums(c) \/ SaveSumsFails(c)
    BY <2>2 DEF SaveSums, SaveSumsFails, AfterSave
  <2>3. CASE RowAttempt(c) \/ RowAttemptFails(c)
    BY <2>3 DEF RowAttempt, RowAttemptFails, AfterRow
  <2>4. CASE AddPull(c) \/ LoadReward(c) \/ AddTotal(c) \/ ReadPulls(c) \/ ReadReward(c)
    BY <2>4 DEF AddPull, LoadReward, AddTotal, ReadPulls, ReadReward
  <2> QED
    BY <2>1, <2>2, <2>3, <2>4 DEF CallerStep
<1>2. CASE CallerTo(c, place)
  <2>1. caller'[c] = place /\ Others(c) /\ (place # "idle" => UNCHANGED <<arm, outcome>>)
    BY <1>2, Moved
  <2> QED
    BY <1>1, <2>1 DEF RowsInOrder, Others
<1>3. CASE UNCHANGED <<caller, arm, outcome>>
  BY <1>3 DEF RowsInOrder
<1> QED
  BY <1>1, <1>2, <1>3

\* What holds besides the order of the rows.
Counted == Bounded /\ (starts = 0 => Exact) /\ SumsBehind /\ RowsBehind

LEMMA AddPullKeeps ==
  ASSUME BanditInv, BanditTypeOK', NEW c \in Callers, AddPull(c) PROVE Counted'
<1>1. /\ caller[c] = "pull" /\ caller'[c] = "load" /\ Others(c) /\ UNCHANGED <<arm, outcome>>
      /\ pulls' = [pulls EXCEPT ![arm[c]] = @ + 1]
      /\ UNCHANGED <<reward, totalPulls, saved, attempts, sums, starts, calls, extra, borrowed>>
  BY Moved DEF AddPull, durable, evidence, BanditInv
<1>2. Shares(c) /\ Sizes
  BY <1>1, CallerMoves, DuesAreSizes DEF BanditInv
<1>3. arm[c] \in Arms
  BY <1>1 DEF BanditInv, BanditTypeOK
<1>4. StillRewards /\ StillRows /\ StillRowRewards /\ StillTotal
  BY <1>1, <1>2, Still DEF Unrewarded, RowDue
<1>5. \A a \in Arms : pulls'[a] = pulls[a] + (IF arm[c] = a THEN 1 ELSE 0)
  BY <1>1, <1>3 DEF BanditInv, BanditTypeOK
<1>6. \A a \in Arms : PullDue'[a][c] = 0 /\ PullDue[a][c] = (IF arm[c] = a THEN 1 ELSE 0)
  BY <1>1 DEF PullDue
<1>7. \A a \in Arms : pulls'[a] + Over(PullDue[a])' = pulls[a] + Over(PullDue[a])
  <2> SUFFICES ASSUME NEW a \in Arms
               PROVE  pulls'[a] + Over(PullDue[a])' = pulls[a] + Over(PullDue[a])
    OBVIOUS
  <2>1. pulls[a] \in Nat /\ Over(PullDue[a]) \in Nat
    BY <1>2 DEF BanditInv, BanditTypeOK, Sizes
  <2>2. Over(PullDue[a])' = Over(PullDue[a]) + (PullDue'[a][c] - PullDue[a][c])
    BY <1>2 DEF Shares, PullShare
  <2> QED
    BY <1>5, <1>6, <2>1, <2>2
<1>8. Known' = Known
  BY <1>1 DEF Known
<1>9. Bounded'
  BY <1>1, <1>4, <1>7, <1>8 DEF Bounded, BanditInv, StillRewards, StillTotal
<1>10. ASSUME starts' = 0 PROVE Exact'
  BY <1>1, <1>4, <1>7, <1>8, <1>10 DEF Exact, BanditInv, StillRewards, StillTotal
<1>11. SumsBehind'
  BY <1>1, SumsKept DEF SumsBehind, BanditInv
<1>12. RowsBehind'
  BY <1>1, <1>4, AttemptsKept DEF BanditInv
<1> QED
  BY <1>9, <1>10, <1>11, <1>12 DEF Counted

LEMMA ExchangeKeeps ==
  ASSUME BanditInv, BanditTypeOK', NEW c \in Callers, ExchangeReward(c), reward[arm[c]] = loaded[c]
  PROVE  Counted'
<1>1. /\ caller[c] = "exchange" /\ caller'[c] = "total" /\ Others(c) /\ UNCHANGED <<arm, outcome>>
      /\ reward' = [reward EXCEPT ![arm[c]] = @ + Worth(c)]
      /\ UNCHANGED <<pulls, totalPulls, saved, attempts, sums, starts, calls, extra, borrowed>>
  BY Moved DEF ExchangeReward, durable, evidence, BanditInv
<1>2. Shares(c) /\ Sizes
  BY <1>1, CallerMoves, DuesAreSizes DEF BanditInv
<1>3. arm[c] \in Arms /\ Worth(c) \in Nat
  BY <1>1 DEF BanditInv, BanditTypeOK, Worth
<1>4. StillPulls /\ StillRows /\ StillRowRewards /\ StillTotal
  BY <1>1, <1>2, Still DEF Unrewarded, RowDue
<1>5. \A a \in Arms : reward'[a] = reward[a] + (IF arm[c] = a THEN Worth(c) ELSE 0)
  BY <1>1, <1>3 DEF BanditInv, BanditTypeOK
<1>6. \A a \in Arms : RewardDue'[a][c] = 0 /\ RewardDue[a][c] = (IF arm[c] = a THEN Worth(c) ELSE 0)
  BY <1>1 DEF RewardDue, Unrewarded
<1>7. \A a \in Arms : reward'[a] + Over(RewardDue[a])' = reward[a] + Over(RewardDue[a])
  <2> SUFFICES ASSUME NEW a \in Arms
               PROVE  reward'[a] + Over(RewardDue[a])' = reward[a] + Over(RewardDue[a])
    OBVIOUS
  <2>1. reward[a] \in Nat /\ Over(RewardDue[a]) \in Nat
    BY <1>2 DEF BanditInv, BanditTypeOK, Sizes
  <2>2. Over(RewardDue[a])' = Over(RewardDue[a]) + (RewardDue'[a][c] - RewardDue[a][c])
    BY <1>2 DEF Shares, RewardShare
  <2> QED
    BY <1>3, <1>5, <1>6, <2>1, <2>2
<1>8. Known' = Known
  BY <1>1 DEF Known
<1>9. Bounded'
  BY <1>1, <1>4, <1>7, <1>8 DEF Bounded, BanditInv, StillPulls, StillTotal
<1>10. ASSUME starts' = 0 PROVE Exact'
  BY <1>1, <1>4, <1>7, <1>8, <1>10 DEF Exact, BanditInv, StillPulls, StillTotal
<1>11. SumsBehind'
  BY <1>1, SumsKept DEF SumsBehind, BanditInv
<1>12. RowsBehind'
  BY <1>1, <1>4, AttemptsKept DEF BanditInv
<1> QED
  BY <1>9, <1>10, <1>11, <1>12 DEF Counted

LEMMA AddTotalKeeps ==
  ASSUME BanditInv, BanditTypeOK', NEW c \in Callers, AddTotal(c) PROVE Counted'
<1>1. /\ caller[c] = "total" /\ caller'[c] = "readPulls" /\ Others(c) /\ UNCHANGED <<arm, outcome>>
      /\ totalPulls' = totalPulls + 1
      /\ UNCHANGED <<pulls, reward, saved, attempts, sums, starts, calls, extra, borrowed>>
  BY Moved DEF AddTotal, durable, evidence, BanditInv
<1>2. Shares(c) /\ Sizes
  BY <1>1, CallerMoves, DuesAreSizes DEF BanditInv
<1>3. StillPulls /\ StillRewards /\ StillRows /\ StillRowRewards
  BY <1>1, <1>2, Still DEF Unrewarded, RowDue
<1>4. TotalDue[c] = 1 /\ TotalDue'[c] = 0
  BY <1>1 DEF TotalDue, Unrewarded
<1>5. totalPulls' + Over(TotalDue)' = totalPulls + Over(TotalDue)
  <2>1. totalPulls \in Nat /\ Over(TotalDue) \in Nat
    BY <1>2 DEF BanditInv, BanditTypeOK, Sizes
  <2> QED
    BY <1>1, <1>2, <1>4, <2>1 DEF Shares, TotalShare
<1>6. Known' = Known
  BY <1>1 DEF Known
<1>7. Bounded'
  BY <1>1, <1>3, <1>5, <1>6 DEF Bounded, BanditInv, StillPulls, StillRewards
<1>8. ASSUME starts' = 0 PROVE Exact'
  BY <1>1, <1>3, <1>5, <1>6, <1>8 DEF Exact, BanditInv, StillPulls, StillRewards
<1>9. SumsBehind'
  BY <1>1, SumsKept DEF SumsBehind, BanditInv
<1>10. RowsBehind'
  BY <1>1, <1>3, AttemptsKept DEF BanditInv
<1> QED
  BY <1>7, <1>8, <1>9, <1>10 DEF Counted

\* Steps that change neither the atomics nor the rows.
LEMMA QuietKeeps ==
  ASSUME BanditInv, BanditTypeOK', NEW c \in Callers,
         LoadReward(c) \/ (ExchangeReward(c) /\ reward[arm[c]] # loaded[c])
           \/ ReadPulls(c) \/ ReadReward(c) \/ SaveSums(c) \/ SaveSumsFails(c)
  PROVE  Counted'
<1>1. /\ UNCHANGED <<pulls, reward, totalPulls, attempts, starts, calls, extra, borrowed>>
      /\ \A d \in Callers \ {c} : sums'[d] = sums[d]
  BY DEF LoadReward, ExchangeReward, ReadPulls, ReadReward, SaveSums, SaveSumsFails,
         atomics, durable, evidence, BanditInv, BanditTypeOK
<1>2. /\ Others(c) /\ (caller'[c] = "idle" \/ (arm'[c] = arm[c] /\ outcome'[c] = outcome[c]))
      /\ \/ caller[c] \in {"load", "exchange"} /\ caller'[c] = "exchange"
         \/ caller[c] = "readPulls" /\ caller'[c] = "readReward"
         \/ caller[c] = "readReward" /\ caller'[c] = "save"
         \/ caller[c] = "save" /\ caller'[c] = (IF outcome[c] = "succeeded" THEN "idle" ELSE "row")
  <2>1. CASE ExchangeReward(c) /\ reward[arm[c]] # loaded[c]
    BY <2>1 DEF ExchangeReward, Others
  <2>2. CASE LoadReward(c) \/ ReadPulls(c) \/ ReadReward(c) \/ SaveSums(c) \/ SaveSumsFails(c)
    <3>1. PICK place : CallerTo(c, place) /\
            \/ caller[c] = "load" /\ place = "exchange"
            \/ caller[c] = "readPulls" /\ place = "readReward"
            \/ caller[c] = "readReward" /\ place = "save"
            \/ caller[c] = "save" /\ place = (IF outcome[c] = "succeeded" THEN "idle" ELSE "row")
      BY <2>2 DEF LoadReward, ReadPulls, ReadReward, SaveSums, SaveSumsFails, AfterSave
    <3>2. caller'[c] = place /\ Others(c) /\ (place # "idle" => UNCHANGED <<arm, outcome>>)
      BY <3>1, Moved DEF BanditInv
    <3> QED
      BY <3>1, <3>2
  <2> QED
    BY <2>1, <2>2
<1>3. Shares(c) /\ Sizes /\ arm[c] \in Arms
  BY <1>2, CallerMoves, DuesAreSizes DEF BanditInv, BanditTypeOK
<1>4. RowDue(c) <=> RowDue(c)'
  BY <1>2 DEF RowDue
<1>5. StillPulls /\ StillRewards /\ StillRows /\ StillRowRewards /\ StillTotal
  BY <1>2, <1>3, <1>4, Still DEF Unrewarded
<1>6. Bounded' /\ (starts' = 0 => Exact')
  BY <1>1, <1>5, BoundsKept DEF BanditInv
<1>7. RowsBehind'
  BY <1>1, <1>5, AttemptsKept DEF BanditInv
<1>8. SumsBehind'
  <2>1. pulls[arm[c]] <= Known[arm[c]] /\ reward[arm[c]] <= calls[arm[c]].reward
    <3>1. /\ pulls[arm[c]] \in Nat /\ reward[arm[c]] \in Nat
          /\ calls[arm[c]].reward \in Nat /\ Known[arm[c]] \in Nat
      BY <1>3 DEF BanditInv, BanditTypeOK, Known, Tally
    <3> QED
      BY <1>3, <3>1 DEF BanditInv, Bounded, Sizes
  <2>2. CASE LoadReward(c) \/ ExchangeReward(c)
    <3>1. caller[c] \in {"load", "exchange"} /\ caller'[c] = "exchange" /\ UNCHANGED <<sums, saved>>
      BY <1>2, <2>2 DEF LoadReward, ExchangeReward, durable
    <3> QED
      BY <1>1, <1>2, <3>1, SumsKept DEF SumsBehind, BanditInv
  <2>3. CASE ReadPulls(c)
    <3>1. /\ caller[c] = "readPulls" /\ caller'[c] = "readReward" /\ saved' = saved /\ arm'[c] = arm[c]
          /\ sums'[c] = [sums[c] EXCEPT !.pulls = pulls[arm[c]]]
      BY <1>2, <2>3 DEF ReadPulls, durable, BanditInv, BanditTypeOK
    <3>2. sums[c] = Nothing /\ 0 <= calls[arm[c]].reward
      <4>1. sums[c] = Nothing
        BY <3>1 DEF SumsBehind, BanditInv
      <4>2. calls[arm[c]] \in Tally
        BY <1>3 DEF BanditInv, BanditTypeOK
      <4> QED
        BY <4>1, <4>2 DEF Tally
    <3>3. sums'[c].pulls = pulls[arm[c]] /\ sums'[c].reward = 0
      BY <3>1, <3>2 DEF Nothing
    <3> QED
      BY <1>1, <1>2, <2>1, <3>1, <3>2, <3>3, SumsKept DEF BanditInv
  <2>4. CASE ReadReward(c)
    <3>1. /\ caller[c] = "readReward" /\ caller'[c] = "save" /\ saved' = saved /\ arm'[c] = arm[c]
          /\ sums'[c] = [sums[c] EXCEPT !.reward = reward[arm[c]]]
      BY <1>2, <2>4 DEF ReadReward, durable, BanditInv, BanditTypeOK
    <3>2. sums[c].pulls <= Known[arm[c]] /\ sums[c] \in Tally
      BY <3>1 DEF SumsBehind, BanditInv, BanditTypeOK
    <3>3. sums'[c].pulls = sums[c].pulls /\ sums'[c].reward = reward[arm[c]]
      BY <3>1, <3>2 DEF Tally
    <3> QED
      BY <1>1, <1>2, <2>1, <3>1, <3>2, <3>3, SumsKept DEF BanditInv
  <2>5. CASE SaveSums(c) \/ SaveSumsFails(c)
    <3>1. /\ caller[c] = "save" /\ caller'[c] \in {"idle", "row"} /\ sums'[c] = Nothing
          /\ saved' = saved \/ saved' = [saved EXCEPT ![arm[c]] = sums[c]]
      BY <1>2, <2>5 DEF SaveSums, SaveSumsFails, durable, BanditInv, BanditTypeOK
    <3>2. sums[c].pulls <= Known[arm[c]] /\ sums[c].reward <= calls[arm[c]].reward
      BY <3>1 DEF SumsBehind, BanditInv
    <3>3. Known' = Known
      BY <1>1 DEF Known
    <3>4. \A a \in Arms : saved'[a] # NoArm =>
            saved'[a].pulls <= Known'[a] /\ saved'[a].reward <= calls'[a].reward
      BY <1>1, <1>3, <3>1, <3>2, <3>3 DEF SumsBehind, BanditInv, BanditTypeOK
    <3>5. \A d \in Callers :
            IF caller'[d] \in {"readReward", "save"}
            THEN sums'[d].pulls <= Known'[arm'[d]] /\ sums'[d].reward <= calls'[arm'[d]].reward
            ELSE sums'[d] = Nothing
      BY <1>1, <1>2, <3>1, <3>3 DEF SumsBehind, BanditInv, Others
    <3> QED
      BY <3>4, <3>5 DEF SumsBehind
  <2> QED
    BY <2>2, <2>3, <2>4, <2>5
<1> QED
  BY <1>6, <1>7, <1>8 DEF Counted

\* A row is written, or refused.
LEMMA RowKeeps ==
  ASSUME BanditInv, BanditTypeOK', NEW c \in Callers, RowAttempt(c) \/ RowAttemptFails(c)
  PROVE  Counted'
<1> DEFINE place == AfterRow(c)
           wrote == RowAttempt(c)
<1>1. /\ caller[c] \in {"rowFirst", "row", "rowAgain"} /\ caller'[c] = place /\ Others(c)
      /\ place # "idle" => UNCHANGED <<arm, outcome>>
      /\ UNCHANGED <<pulls, reward, totalPulls, saved, sums, starts, calls, borrowed>>
  BY Moved DEF RowAttempt, RowAttemptFails, atomics, durable, evidence, BanditInv
<1>2. Shares(c) /\ Sizes /\ arm[c] \in Arms /\ Worth(c) \in Nat
  BY <1>1, CallerMoves, DuesAreSizes DEF BanditInv, BanditTypeOK, Worth
<1>3. caller'[c] = "idle" \/ (arm'[c] = arm[c] /\ outcome'[c] = outcome[c])
  BY <1>1
<1>4. \/ caller[c] = "rowFirst" /\ caller'[c] = "pull"
      \/ caller[c] \in {"row", "rowAgain"} /\ caller'[c] \in {"rowAgain", "idle"}
  BY <1>1 DEF AfterRow
<1>5. StillPulls /\ StillRewards /\ StillTotal
  BY <1>2, <1>3, <1>4, Still DEF Unrewarded
<1>6. Bounded' /\ (starts' = 0 => Exact')
  BY <1>1, <1>5, BoundsKept DEF BanditInv
<1>7. SumsBehind'
  BY <1>1, <1>4, SumsKept DEF SumsBehind, BanditInv
<1>8. \A a \in Arms :
        /\ attempts[a].pulls \in Nat /\ attempts[a].reward \in Nat /\ extra[a] \in Nat
        /\ calls[a].pulls \in Nat /\ calls[a].reward \in Nat /\ borrowed[a] \in Nat
        /\ Over(RowsDue[a]) \in Nat /\ Over(RowRewardDue[a]) \in Nat
  BY <1>2 DEF BanditInv, BanditTypeOK, Tally, Sizes
<1>9. \A a \in Arms : /\ RowsDue'[a][c] = 0
                      /\ RowsDue[a][c] = (IF arm[c] = a /\ RowDue(c) THEN 1 ELSE 0)
                      /\ RowRewardDue'[a][c] = 0
                      /\ RowRewardDue[a][c] = (IF arm[c] = a /\ caller[c] = "rowFirst" THEN Worth(c) ELSE 0)
  <2>1. ~RowDue(c)'
    <3>1. CASE caller[c] = "rowFirst"
      BY <1>1, <1>4, <3>1 DEF RowDue, BanditInv, RowsInOrder
    <3>2. CASE caller[c] # "rowFirst"
      BY <1>4, <3>2 DEF RowDue
    <3> QED
      BY <3>1, <3>2
  <2> QED
    BY <1>4, <2>1 DEF RowsDue, RowRewardDue
<1>10. \A a \in Arms :
         /\ Over(RowsDue[a])' = Over(RowsDue[a]) - (IF arm[c] = a /\ RowDue(c) THEN 1 ELSE 0)
         /\ Over(RowRewardDue[a])' =
              Over(RowRewardDue[a]) - (IF arm[c] = a /\ caller[c] = "rowFirst" THEN Worth(c) ELSE 0)
  <2> SUFFICES ASSUME NEW a \in Arms
      PROVE  /\ Over(RowsDue[a])' = Over(RowsDue[a]) - (IF arm[c] = a /\ RowDue(c) THEN 1 ELSE 0)
             /\ Over(RowRewardDue[a])' = Over(RowRewardDue[a])
                  - (IF arm[c] = a /\ caller[c] = "rowFirst" THEN Worth(c) ELSE 0)
    OBVIOUS
  <2>1. Over(RowsDue[a])' = Over(RowsDue[a]) + (RowsDue'[a][c] - RowsDue[a][c])
    BY <1>2 DEF Shares, RowShare
  <2>2. Over(RowRewardDue[a])' = Over(RowRewardDue[a]) + (RowRewardDue'[a][c] - RowRewardDue[a][c])
    BY <1>2 DEF Shares, RowRewardShare
  <2> QED
    BY <1>2, <1>8, <1>9, <2>1, <2>2
<1>11. RowDue(c) \/ IsExtra(c)
  BY <1>1 DEF RowDue, IsExtra, BanditInv, BanditTypeOK, RowsInOrder, Outcomes
<1>12. caller[c] # "rowFirst" => Worth(c) = 0
  BY <1>1 DEF Worth, BanditInv, RowsInOrder
<1>13. \A a \in Arms :
         /\ attempts'[a].pulls - extra'[a] <= attempts[a].pulls - extra[a]
              + (IF arm[c] = a /\ RowDue(c) THEN 1 ELSE 0)
         /\ attempts'[a].reward <= attempts[a].reward
              + (IF arm[c] = a /\ caller[c] = "rowFirst" THEN Worth(c) ELSE 0)
         /\ extra'[a] \in Nat /\ extra[a] <= extra'[a]
         /\ attempts'[a].pulls \in Nat /\ attempts'[a].reward \in Nat
  <2> SUFFICES ASSUME NEW a \in Arms
      PROVE  /\ attempts'[a].pulls - extra'[a] <= attempts[a].pulls - extra[a]
                  + (IF arm[c] = a /\ RowDue(c) THEN 1 ELSE 0)
             /\ attempts'[a].reward <= attempts[a].reward
                  + (IF arm[c] = a /\ caller[c] = "rowFirst" THEN Worth(c) ELSE 0)
             /\ extra'[a] \in Nat /\ extra[a] <= extra'[a]
             /\ attempts'[a].pulls \in Nat /\ attempts'[a].reward \in Nat
    OBVIOUS
  <2>1. CASE RowAttemptFails(c)
    <3>1. attempts'[a] = attempts[a] /\ extra'[a] = extra[a]
      BY <2>1 DEF RowAttemptFails, durable, evidence
    <3> QED
      BY <1>2, <1>8, <3>1
  <2>2. CASE RowAttempt(c) /\ a # arm[c]
    <3>1. attempts'[a] = attempts[a] /\ extra'[a] = extra[a]
      BY <2>2 DEF RowAttempt, BanditInv, BanditTypeOK
    <3> QED
      BY <1>2, <1>8, <2>2, <3>1
  <2>3. CASE RowAttempt(c) /\ a = arm[c]
    <3>1. /\ attempts'[a] = Plus(attempts[a], Worth(c))
          /\ extra'[a] = extra[a] + (IF IsExtra(c) THEN 1 ELSE 0)
      BY <1>8, <2>3 DEF RowAttempt, BanditInv, BanditTypeOK
    <3>2. attempts'[a].pulls = attempts[a].pulls + 1 /\ attempts'[a].reward = attempts[a].reward + Worth(c)
      BY <3>1 DEF Plus
    <3> QED
      BY <1>2, <1>8, <1>11, <1>12, <2>3, <3>1, <3>2
  <2> QED
    BY <2>1, <2>2, <2>3
<1>14. RowsBehind'
  <2> SUFFICES ASSUME NEW a \in Arms
      PROVE  /\ borrowed[a] <= extra'[a]
             /\ attempts'[a].pulls + Over(RowsDue[a])' <= calls[a].pulls + extra'[a]
             /\ attempts'[a].reward + Over(RowRewardDue[a])' <= calls[a].reward
    BY <1>1 DEF RowsBehind
  <2>1. /\ borrowed[a] <= extra[a]
        /\ attempts[a].pulls + Over(RowsDue[a]) <= calls[a].pulls + extra[a]
        /\ attempts[a].reward + Over(RowRewardDue[a]) <= calls[a].reward
    BY DEF BanditInv, RowsBehind
  <2>2. borrowed[a] <= extra'[a]
    BY <1>8, <1>13, <2>1
  <2>3. attempts'[a].pulls + Over(RowsDue[a])' <= calls[a].pulls + extra'[a]
    BY <1>8, <1>10, <1>13, <2>1
  <2>4. attempts'[a].reward + Over(RowRewardDue[a])' <= calls[a].reward
    BY <1>2, <1>8, <1>10, <1>13, <2>1
  <2> QED
    BY <2>2, <2>3, <2>4
<1> QED
  BY <1>6, <1>7, <1>14 DEF Counted

LEMMA BanditCallerStep ==
  ASSUME BanditInv, BanditTypeOK', NEW c \in Callers, CallerStep(c) PROVE BanditInv'
<1>1. RowsInOrder'
  BY OrderKept DEF BanditInv
<1>2. CASE AddPull(c)
  BY <1>1, <1>2, AddPullKeeps DEF BanditInv, Counted
<1>3. CASE ExchangeReward(c) /\ reward[arm[c]] = loaded[c]
  BY <1>1, <1>3, ExchangeKeeps DEF BanditInv, Counted
<1>4. CASE AddTotal(c)
  BY <1>1, <1>4, AddTotalKeeps DEF BanditInv, Counted
<1>5. CASE \/ LoadReward(c) \/ (ExchangeReward(c) /\ reward[arm[c]] # loaded[c])
           \/ ReadPulls(c) \/ ReadReward(c) \/ SaveSums(c) \/ SaveSumsFails(c)
  BY <1>1, <1>5, QuietKeeps DEF BanditInv, Counted
<1>6. CASE RowAttempt(c) \/ RowAttemptFails(c)
  BY <1>1, <1>6, RowKeeps DEF BanditInv, Counted
<1> QED
  BY <1>2, <1>3, <1>4, <1>5, <1>6 DEF CallerStep

LEMMA BanditCallStep ==
  ASSUME BanditInv, BanditTypeOK', NEW c \in Callers, CallReturns(c) PROVE BanditInv'
<1>1. PICK b \in Arms, o \in Outcomes :
        /\ arm' = [arm EXCEPT ![c] = b] /\ outcome' = [outcome EXCEPT ![c] = o]
        /\ calls' = IF o = "cascaded" THEN calls
                    ELSE [calls EXCEPT ![b] = Plus(@, IF o = "succeeded" THEN 1 ELSE 0)]
        /\ caller' = [caller EXCEPT ![c] = CASE o = "succeeded" -> "rowFirst"
                                             [] o = "cascaded" -> "row"
                                             [] OTHER -> "pull"]
  BY DEF CallReturns
<1> DEFINE new == IF o = "cascaded" THEN 0 ELSE 1
           won == IF o = "succeeded" THEN 1 ELSE 0
<1>2. /\ caller[c] = "idle" /\ arm'[c] = b /\ outcome'[c] = o /\ Others(c)
      /\ \/ o = "succeeded" /\ caller'[c] = "rowFirst"
         \/ o = "cascaded" /\ caller'[c] = "row"
         \/ o \in {"failed", "looped"} /\ caller'[c] = "pull"
      /\ UNCHANGED <<pulls, reward, totalPulls, saved, attempts, sums, starts, extra, borrowed>>
  <2>1. caller[c] = "idle" /\ UNCHANGED <<pulls, reward, totalPulls, saved, attempts, sums, starts, extra, borrowed>>
    BY DEF CallReturns, atomics, durable
  <2>2. arm'[c] = b /\ outcome'[c] = o /\ Others(c)
    BY <1>1 DEF BanditInv, BanditTypeOK, Others
  <2>3. caller'[c] = CASE o = "succeeded" -> "rowFirst" [] o = "cascaded" -> "row" [] OTHER -> "pull"
    BY <1>1 DEF BanditInv, BanditTypeOK
  <2> QED
    BY <2>1, <2>2, <2>3 DEF Outcomes
<1>3. Shares(c) /\ Sizes /\ SumFunctionOnSet(Known, Arms) \in Nat
  BY <1>2, CallerMoves, DuesAreSizes DEF BanditInv
<1>4. \A a \in Arms : /\ pulls[a] \in Nat /\ reward[a] \in Nat
                      /\ calls[a].pulls \in Nat /\ calls[a].reward \in Nat
                      /\ attempts[a].pulls \in Nat /\ attempts[a].reward \in Nat
                      /\ extra[a] \in Nat /\ borrowed[a] \in Nat
                      /\ saved[a] # NoArm => saved[a].pulls \in Nat /\ saved[a].reward \in Nat
  BY DEF BanditInv, BanditTypeOK, Tally
<1>5. \A a \in Arms : /\ calls'[a].pulls = calls[a].pulls + (IF b = a THEN new ELSE 0)
                      /\ calls'[a].reward = calls[a].reward + (IF b = a THEN won ELSE 0)
  <2>1. CASE o = "cascaded"
    BY <1>1, <1>4, <2>1
  <2>2. CASE o # "cascaded"
    BY <1>1, <1>4, <2>2 DEF BanditInv, BanditTypeOK, Plus
  <2> QED
    BY <2>1, <2>2
<1>6. \A a \in Arms : Known'[a] = Known[a] + (IF b = a THEN new ELSE 0) /\ Known[a] \in Nat
  BY <1>2, <1>4, <1>5 DEF Known
<1>7. SumFunctionOnSet(Known', Arms) = SumFunctionOnSet(Known, Arms) + new
  <2>1. \A a \in Arms : /\ Known[a] \in Int /\ Known'[a] \in Int
                        /\ a # b => Known[a] = Known'[a]
    BY <1>6
  <2>2. Known'[b] - Known[b] = new
    BY <1>6
  <2>3. SumFunctionOnSet(Known', Arms) = SumFunctionOnSet(Known, Arms) + (Known'[b] - Known[b])
    BY <2>1, SumChange, BanditAssumption
  <2> QED
    BY <2>2, <2>3
<1>8. \A a \in Arms :
        /\ PullDue[a][c] = 0 /\ PullDue'[a][c] = (IF b = a THEN new ELSE 0)
        /\ RewardDue[a][c] = 0 /\ RewardDue'[a][c] = (IF b = a THEN won ELSE 0)
        /\ RowsDue[a][c] = 0 /\ RowsDue'[a][c] = (IF b = a THEN new ELSE 0)
        /\ RowRewardDue[a][c] = 0 /\ RowRewardDue'[a][c] = (IF b = a THEN won ELSE 0)
  <2>1. \A a \in Arms : PullDue[a][c] = 0 /\ PullDue'[a][c] = (IF b = a THEN new ELSE 0)
    BY <1>2 DEF PullDue
  <2>2. \A a \in Arms : RewardDue[a][c] = 0 /\ RewardDue'[a][c] = (IF b = a THEN won ELSE 0)
    BY <1>2 DEF RewardDue, Unrewarded, Worth
  <2>3. \A a \in Arms : RowsDue[a][c] = 0 /\ RowsDue'[a][c] = (IF b = a THEN new ELSE 0)
    BY <1>2 DEF RowsDue, RowDue
  <2>4. \A a \in Arms : RowRewardDue[a][c] = 0 /\ RowRewardDue'[a][c] = (IF b = a THEN won ELSE 0)
    BY <1>2 DEF RowRewardDue, Worth
  <2> QED
    BY <2>1, <2>2, <2>3, <2>4
<1>9. TotalDue[c] = 0 /\ TotalDue'[c] = new
  BY <1>2 DEF TotalDue, Unrewarded
<1>10. \A a \in Arms :
         /\ Over(PullDue[a])' = Over(PullDue[a]) + (IF b = a THEN new ELSE 0)
         /\ Over(RewardDue[a])' = Over(RewardDue[a]) + (IF b = a THEN won ELSE 0)
         /\ Over(RowsDue[a])' = Over(RowsDue[a]) + (IF b = a THEN new ELSE 0)
         /\ Over(RowRewardDue[a])' = Over(RowRewardDue[a]) + (IF b = a THEN won ELSE 0)
  <2>1. \A a \in Arms : Over(PullDue[a])' = Over(PullDue[a]) + (IF b = a THEN new ELSE 0)
    BY <1>3, <1>8 DEF Shares, PullShare, Sizes
  <2>2. \A a \in Arms : Over(RewardDue[a])' = Over(RewardDue[a]) + (IF b = a THEN won ELSE 0)
    BY <1>3, <1>8 DEF Shares, RewardShare, Sizes
  <2>3. \A a \in Arms : Over(RowsDue[a])' = Over(RowsDue[a]) + (IF b = a THEN new ELSE 0)
    BY <1>3, <1>8 DEF Shares, RowShare, Sizes
  <2>4. \A a \in Arms : Over(RowRewardDue[a])' = Over(RowRewardDue[a]) + (IF b = a THEN won ELSE 0)
    BY <1>3, <1>8 DEF Shares, RowRewardShare, Sizes
  <2> QED
    BY <2>1, <2>2, <2>3, <2>4
<1>11. Over(TotalDue)' = Over(TotalDue) + new /\ new \in Nat /\ won \in Nat
  BY <1>3, <1>9 DEF Shares, TotalShare, Sizes
<1> HIDE DEF new, won
<1>12. Bounded'
  <2>1. \A a \in Arms : pulls'[a] + Over(PullDue[a])' <= Known'[a]
    BY <1>2, <1>3, <1>4, <1>6, <1>10, <1>11 DEF Bounded, BanditInv, Sizes
  <2>2. \A a \in Arms : reward'[a] + Over(RewardDue[a])' <= calls'[a].reward
    BY <1>2, <1>3, <1>4, <1>5, <1>10, <1>11 DEF Bounded, BanditInv, Sizes
  <2>3. totalPulls' + Over(TotalDue)' <= SumFunctionOnSet(Known', Arms)
    BY <1>2, <1>3, <1>7, <1>11 DEF Bounded, BanditInv, BanditTypeOK, Sizes
  <2> QED
    BY <2>1, <2>2, <2>3 DEF Bounded
<1>13. ASSUME starts' = 0 PROVE Exact'
  <2>1. Exact
    BY <1>2, <1>13 DEF BanditInv
  <2>2. \A a \in Arms : pulls'[a] + Over(PullDue[a])' = Known'[a]
    BY <1>2, <1>3, <1>4, <1>6, <1>10, <1>11, <2>1 DEF Exact, Sizes
  <2>3. \A a \in Arms : reward'[a] + Over(RewardDue[a])' = calls'[a].reward
    BY <1>2, <1>3, <1>4, <1>5, <1>10, <1>11, <2>1 DEF Exact, Sizes
  <2>4. totalPulls' + Over(TotalDue)' = SumFunctionOnSet(Known', Arms)
    BY <1>2, <1>3, <1>7, <1>11, <2>1 DEF Exact, BanditInv, BanditTypeOK, Sizes
  <2> QED
    BY <1>2, <2>1, <2>2, <2>3, <2>4 DEF Exact
<1>14. \A a \in Arms : Known[a] <= Known'[a] /\ calls[a].reward <= calls'[a].reward
                       /\ Known'[a] \in Nat /\ calls'[a].reward \in Nat
  BY <1>4, <1>5, <1>6, <1>11
<1>15. SumsBehind'
  <2>1. ASSUME NEW a \in Arms, saved'[a] # NoArm
        PROVE  saved'[a].pulls <= Known'[a] /\ saved'[a].reward <= calls'[a].reward
    <3>1. /\ saved'[a] = saved[a] /\ saved[a].pulls <= Known[a] /\ saved[a].reward <= calls[a].reward
          /\ saved[a].pulls \in Nat /\ saved[a].reward \in Nat /\ Known[a] \in Nat
          /\ calls[a].reward \in Nat
      BY <1>2, <1>4, <1>6, <2>1 DEF SumsBehind, BanditInv
    <3> QED
      BY <1>14, <3>1
  <2>2. ASSUME NEW d \in Callers
        PROVE  IF caller'[d] \in {"readReward", "save"}
               THEN sums'[d].pulls <= Known'[arm'[d]] /\ sums'[d].reward <= calls'[arm'[d]].reward
               ELSE sums'[d] = Nothing
    <3>1. CASE d = c
      BY <1>2, <3>1 DEF SumsBehind, BanditInv
    <3>2. CASE d # c /\ caller[d] \in {"readReward", "save"}
      <4>1. arm[d] \in Arms /\ sums[d].pulls \in Nat /\ sums[d].reward \in Nat
        BY <3>2 DEF BanditInv, BanditTypeOK, Tally
      <4>2. sums[d].pulls <= Known[arm[d]] /\ sums[d].reward <= calls[arm[d]].reward
        BY <3>2 DEF SumsBehind, BanditInv
      <4>3. sums'[d].pulls <= Known'[arm[d]] /\ sums'[d].reward <= calls'[arm[d]].reward
        BY <1>2, <1>4, <1>6, <1>14, <4>1, <4>2
      <4> QED
        BY <1>2, <3>2, <4>3 DEF Others
    <3>3. CASE d # c /\ caller[d] \notin {"readReward", "save"}
      BY <1>2, <3>3 DEF SumsBehind, BanditInv, Others
    <3> QED
      BY <3>1, <3>2, <3>3
  <2> QED
    BY <2>1, <2>2 DEF SumsBehind
<1>16. RowsBehind'
  <2>1. \A a \in Arms : attempts'[a].pulls + Over(RowsDue[a])' <= calls'[a].pulls + extra'[a]
    BY <1>2, <1>3, <1>4, <1>5, <1>10, <1>11 DEF RowsBehind, BanditInv, Sizes
  <2>2. \A a \in Arms : attempts'[a].reward + Over(RowRewardDue[a])' <= calls'[a].reward
    BY <1>2, <1>3, <1>4, <1>5, <1>10, <1>11 DEF RowsBehind, BanditInv, Sizes
  <2> QED
    BY <1>2, <2>1, <2>2 DEF RowsBehind, BanditInv
<1>17. RowsInOrder'
  BY <1>2 DEF RowsInOrder, BanditInv, Others
<1> QED
  BY <1>12, <1>13, <1>15, <1>16, <1>17 DEF BanditInv

\* A new process: nothing is being recorded, and what it starts from is behind
\* the calls and, from now on, the rows beyond them.
LEMMA BanditRestartStep == ASSUME BanditInv, BanditTypeOK', Restart PROVE BanditInv'
<1>1. /\ caller' = [c \in Callers |-> "idle"] /\ sums' = [c \in Callers |-> Nothing]
      /\ starts' = starts + 1 /\ UNCHANGED <<saved, attempts, calls, extra>>
  BY DEF Restart, durable
<1>2. /\ \A a \in Arms : /\ Over(PullDue[a])' = 0 /\ Over(RewardDue[a])' = 0
                         /\ Over(RowsDue[a])' = 0 /\ Over(RowRewardDue[a])' = 0
      /\ Over(TotalDue)' = 0
  <2>1. ASSUME NEW a \in Arms
        PROVE  \A c \in Callers : /\ PullDue'[a][c] = 0 /\ RewardDue'[a][c] = 0
                                  /\ RowsDue'[a][c] = 0 /\ RowRewardDue'[a][c] = 0
    BY <1>1 DEF PullDue, RewardDue, RowsDue, RowRewardDue, RowDue, Unrewarded
  <2>2. \A c \in Callers : TotalDue'[c] = 0
    BY <1>1 DEF TotalDue, Unrewarded
  <2>3. \A a \in Arms : /\ Over(PullDue[a])' = 0 /\ Over(RewardDue[a])' = 0
                        /\ Over(RowsDue[a])' = 0 /\ Over(RowRewardDue[a])' = 0
    BY <2>1, SumZero, BanditAssumption DEF Over
  <2>4. Over(TotalDue)' = 0
    BY <2>2, SumZero, BanditAssumption DEF Over
  <2> QED
    BY <2>3, <2>4
<1>3. \A a \in Arms : /\ calls[a].pulls \in Nat /\ calls[a].reward \in Nat
                      /\ attempts[a].pulls \in Nat /\ attempts[a].reward \in Nat
                      /\ extra[a] \in Nat /\ borrowed[a] \in Nat
                      /\ saved[a] # NoArm => saved[a].pulls \in Nat /\ saved[a].reward \in Nat
                      /\ Over(RowsDue[a]) \in Nat /\ Over(RowRewardDue[a]) \in Nat
  BY DuesAreSizes DEF BanditInv, BanditTypeOK, Tally, Sizes
<1>4. \A a \in Arms : /\ attempts[a].pulls <= calls[a].pulls + extra[a]
                      /\ attempts[a].reward <= calls[a].reward /\ borrowed[a] <= extra[a]
  BY <1>3 DEF BanditInv, RowsBehind
<1>5. \A a \in Arms : borrowed'[a] \in Nat /\ borrowed[a] <= borrowed'[a] /\ borrowed'[a] <= extra[a]
  BY <1>3, <1>4 DEF Restart, StartFromSaved, StartFromRows
<1>6. \A a \in Arms : Known'[a] = calls[a].pulls + borrowed'[a] /\ Known[a] = calls[a].pulls + borrowed[a]
  BY <1>1 DEF Known
<1>7. \A a \in Arms : Known'[a] \in Nat /\ Known[a] \in Nat /\ Known[a] <= Known'[a]
  BY <1>3, <1>5, <1>6
<1>8. totalPulls' = SumFunctionOnSet(pulls', Arms)
      /\ \A a \in Arms : pulls'[a] <= Known'[a] /\ reward'[a] <= calls[a].reward
  <2>1. CASE StartFromRows
    <3>1. \A a \in Arms : /\ pulls'[a] = attempts[a].pulls /\ reward'[a] = attempts[a].reward
                          /\ borrowed'[a] = extra[a]
      BY <2>1 DEF StartFromRows, StartFrom
    <3> QED
      BY <1>4, <1>6, <2>1, <3>1 DEF StartFromRows, StartFrom
  <2>2. CASE StartFromSaved
    <3>1. \A a \in Arms : saved[a] # NoArm => /\ pulls'[a] = saved[a].pulls
                                              /\ reward'[a] = saved[a].reward
      BY <2>2 DEF StartFromSaved, StartFrom
    <3>2. \A a \in Arms : saved[a] = NoArm => pulls'[a] = 0 /\ reward'[a] = 0
      BY <2>2 DEF StartFromSaved, StartFrom, Nothing
    <3>3. \A a \in Arms : saved[a] # NoArm =>
            saved[a].pulls <= Known[a] /\ saved[a].reward <= calls[a].reward
      BY DEF BanditInv, SumsBehind
    <3>4. \A a \in Arms : pulls'[a] <= Known'[a] /\ reward'[a] <= calls[a].reward
      BY <1>3, <1>7, <3>1, <3>2, <3>3
    <3> QED
      BY <2>2, <3>4 DEF StartFromSaved, StartFrom
  <2> QED
    BY <2>1, <2>2 DEF Restart
<1>9. \A a \in Arms : pulls'[a] \in Nat /\ reward'[a] \in Nat
  BY DEF BanditTypeOK
<1>10. totalPulls' <= SumFunctionOnSet(Known', Arms)
  <2>1. \A a \in Arms : pulls'[a] \in Int /\ Known'[a] \in Int /\ pulls'[a] <= Known'[a]
    BY <1>7, <1>8, <1>9
  <2>2. SumFunctionOnSet(pulls', Arms) <= SumFunctionOnSet(Known', Arms)
    BY <2>1, SumLE, BanditAssumption
  <2> QED
    BY <1>8, <2>2
<1>11. totalPulls' \in Nat /\ starts' # 0
  BY <1>1 DEF BanditInv, BanditTypeOK
<1>12. Bounded'
  BY <1>1, <1>2, <1>8, <1>9, <1>10, <1>11 DEF Bounded
<1>13. SumsBehind'
  <2>1. \A a \in Arms : saved[a] # NoArm =>
          saved[a].pulls <= Known'[a] /\ saved[a].reward <= calls[a].reward
    BY <1>3, <1>7 DEF BanditInv, SumsBehind
  <2> QED
    BY <1>1, <2>1 DEF SumsBehind
<1>14. RowsBehind'
  BY <1>1, <1>2, <1>3, <1>4, <1>5 DEF RowsBehind
<1>15. RowsInOrder'
  BY <1>1 DEF RowsInOrder
<1> QED
  BY <1>11, <1>12, <1>13, <1>14, <1>15 DEF BanditInv

\* The evidence of the bandit holds up, for any number of runs, arms, calls and
\* restarts: no update of an atomic is lost or doubled, no success is known twice,
\* and a pull beyond the recorded calls is a row beyond them that a process has
\* started from (pricing.rs:778-803, engine.rs:180-230, 837-878, 1017-1100).
THEOREM EvidenceKept == BanditSpec => []EvidenceHolds
<1>1. BanditInit => BanditInv
  <2> SUFFICES ASSUME BanditInit PROVE BanditInv
    OBVIOUS
  <2>1. BanditTypeOK
    BY DEF BanditInit, BanditTypeOK, Tally, Nothing, CallerPlaces, Outcomes
  <2>2. /\ \A a \in Arms : /\ Over(PullDue[a]) = 0 /\ Over(RewardDue[a]) = 0
                           /\ Over(RowsDue[a]) = 0 /\ Over(RowRewardDue[a]) = 0
        /\ Over(TotalDue) = 0
    <3>1. ASSUME NEW a \in Arms
          PROVE  \A c \in Callers : /\ PullDue[a][c] = 0 /\ RewardDue[a][c] = 0
                                    /\ RowsDue[a][c] = 0 /\ RowRewardDue[a][c] = 0
      BY DEF BanditInit, PullDue, RewardDue, RowsDue, RowRewardDue, RowDue, Unrewarded
    <3>2. \A c \in Callers : TotalDue[c] = 0
      BY DEF BanditInit, TotalDue, Unrewarded
    <3> QED
      BY <3>1, <3>2, SumZero, BanditAssumption DEF Over
  <2>3. (\A a \in Arms : Known[a] = 0) /\ SumFunctionOnSet(Known, Arms) = 0
    <3>1. \A a \in Arms : Known[a] = 0
      BY DEF BanditInit, Known, Nothing
    <3> QED
      BY <3>1, SumZero, BanditAssumption
  <2>4. Bounded /\ Exact /\ SumsBehind /\ RowsBehind
    BY <2>2, <2>3 DEF BanditInit, Bounded, Exact, SumsBehind, RowsBehind, Nothing
  <2>5. RowsInOrder
    BY DEF BanditInit, RowsInOrder
  <2> QED
    BY <2>1, <2>4, <2>5 DEF BanditInv
<1>2. BanditInv /\ [BanditNext]_banditVars => BanditInv'
  <2> SUFFICES ASSUME BanditInv, [BanditNext]_banditVars PROVE BanditInv'
    OBVIOUS
  <2>1. BanditTypeOK'
    BY BanditTyped DEF BanditInv
  <2>2. ASSUME UNCHANGED banditVars PROVE BanditInv'
    <3>1. /\ UNCHANGED <<PullDue, RewardDue, TotalDue>>
          /\ UNCHANGED <<RowsDue, RowRewardDue>>
      BY <2>2 DEF banditVars, PullDue, RewardDue, RowsDue, RowRewardDue, TotalDue, RowDue, Worth,
                  Unrewarded
    <3>2. UNCHANGED Known
      BY <2>2 DEF banditVars, Known
    <3>3. Bounded' /\ (starts = 0 => Exact)'
      BY <2>2, <3>1, <3>2 DEF BanditInv, banditVars, Bounded, Exact, Over
    <3>4. SumsBehind'
      BY <2>2, <3>2 DEF BanditInv, banditVars, SumsBehind
    <3>5. RowsBehind'
      BY <2>2, <3>1 DEF BanditInv, banditVars, RowsBehind, Over
    <3>6. RowsInOrder'
      BY <2>2 DEF BanditInv, banditVars, RowsInOrder
    <3> QED
      BY <2>1, <2>2, <3>3, <3>4, <3>5, <3>6 DEF BanditInv, banditVars
  <2> QED
    BY <2>1, <2>2, BanditCallerStep, BanditCallStep, BanditRestartStep DEF BanditNext, CallerStep
<1>3. BanditInv => EvidenceHolds
  <2> SUFFICES ASSUME BanditInv PROVE EvidenceHolds
    OBVIOUS
  <2>1. \A a \in Arms : /\ pulls[a] \in Nat /\ reward[a] \in Nat /\ calls[a] \in Tally
                        /\ borrowed[a] \in Nat /\ Known[a] = calls[a].pulls + borrowed[a]
    BY DEF BanditInv, BanditTypeOK, Known
  <2>2. Sizes /\ totalPulls \in Nat /\ SumFunctionOnSet(Known, Arms) \in Nat
    BY DuesAreSizes DEF BanditInv, BanditTypeOK
  <2>3. \A a \in Arms : pulls[a] <= calls[a].pulls + borrowed[a] /\ reward[a] <= calls[a].reward
    BY <2>1, <2>2 DEF BanditInv, Bounded, Sizes, Tally
  <2>4. totalPulls <= SumFunctionOnSet(Known, Arms)
    BY <2>2 DEF BanditInv, Bounded, Sizes
  <2>5. ASSUME starts = 0,
               \A c \in Callers : caller[c] \notin {"rowFirst", "pull", "load", "exchange", "total"}
        PROVE  /\ \A a \in Arms : calls[a] = [pulls |-> pulls[a], reward |-> reward[a]]
               /\ totalPulls = SumFunctionOnSet(pulls, Arms)
    <3>1. \A a \in Arms : Over(PullDue[a]) = 0 /\ Over(RewardDue[a]) = 0
      <4>1. ASSUME NEW a \in Arms
            PROVE  \A c \in Callers : PullDue[a][c] = 0 /\ RewardDue[a][c] = 0
        BY <2>5 DEF PullDue, RewardDue, Unrewarded
      <4> QED
        BY <4>1, SumZero, BanditAssumption DEF Over
    <3>2. Over(TotalDue) = 0
      <4>1. \A c \in Callers : TotalDue[c] = 0
        BY <2>5 DEF TotalDue, Unrewarded
      <4> QED
        BY <4>1, SumZero, BanditAssumption DEF Over
    <3>3. Exact
      BY <2>5 DEF BanditInv
    <3>4. \A a \in Arms : pulls[a] = Known[a] /\ borrowed[a] = 0 /\ reward[a] = calls[a].reward
      BY <2>1, <3>1, <3>3 DEF Exact, Tally
    <3>5. totalPulls = SumFunctionOnSet(Known, Arms)
      BY <2>2, <3>2, <3>3 DEF Exact
    <3>6. SumFunctionOnSet(pulls, Arms) = SumFunctionOnSet(Known, Arms)
      <4>1. \A a \in Arms : pulls[a] \in Int /\ pulls[a] = Known[a]
        BY <2>1, <3>4
      <4> QED
        BY <4>1, SumSame, BanditAssumption
    <3>7. \A a \in Arms : calls[a] = [pulls |-> pulls[a], reward |-> reward[a]]
      BY <2>1, <3>4 DEF Tally
    <3> QED
      BY <3>5, <3>6, <3>7
  <2> QED
    BY <2>3, <2>4, <2>5 DEF EvidenceHolds, Known
<1> QED
  BY <1>1, <1>2, <1>3, PTL DEF BanditSpec

-----------------------------------------------------------------------------
(* What runs cost. *)

\* Rows that are not kept are past their retention.
KeptRows ==
  /\ \A id \in DOMAIN executions : executions[id] = booked[id]
  /\ \A id \in DOMAIN booked \ DOMAIN executions :
       RetentionTime > 0 /\ booked[id].at < clock - RetentionTime

\* Every run that has passed the guard may still book an answer.
Passed == {r \in Spenders : stage[r] \in {"monthly", "ladder", "book"}}
Reserved ==
  DailyLimit > 0 =>
    AggregateSpend(DayLength) + Cardinality(Passed) * MaxPrice
      < DailyLimit + Cardinality(Spenders) * MaxPrice

SpendInv == SpendTypeOK /\ KeptRows /\ Reserved

LEMMA CostSubset ==
  ASSUME NEW table, NEW S, IsFiniteSet(S), \A id \in S : table[id].cost \in Nat, NEW T \in SUBSET S
  PROVE  /\ TotalCost(table, T) \in Nat /\ TotalCost(table, S) \in Nat
         /\ TotalCost(table, T) <= TotalCost(table, S)
<1> DEFINE f == [id \in S |-> table[id].cost]
           g == [id \in T |-> table[id].cost]
<1>1. IsFiniteSet(T) /\ (\A x \in S : f[x] \in Nat) /\ (\A x \in T : g[x] \in Nat /\ g[x] = f[x])
  BY FS_Subset
<1>2. TotalCost(table, S) = SumFunctionOnSet(f, S) /\ TotalCost(table, T) = SumFunctionOnSet(g, T)
  BY DEF TotalCost
<1> HIDE DEF f, g
<1>3. SumFunctionOnSet(f, S) \in Nat /\ SumFunctionOnSet(g, T) \in Nat
  BY <1>1, SumNat
<1>4. SumFunctionOnSet(g, T) = SumFunctionOnSet(f, T)
  BY <1>1, SumSame
<1>5. SumFunctionOnSet(f, T) <= SumFunctionOnSet(f, S)
  BY <1>1, SumSubset
<1> QED
  BY <1>2, <1>3, <1>4, <1>5

LEMMA CostSame ==
  ASSUME NEW table, NEW other, NEW S, IsFiniteSet(S),
         \A id \in S : table[id].cost \in Nat /\ table[id].cost = other[id].cost
  PROVE  TotalCost(table, S) = TotalCost(other, S)
<1> DEFINE f == [id \in S |-> table[id].cost]
           g == [id \in S |-> other[id].cost]
<1>1. \A x \in S : f[x] \in Int /\ f[x] = g[x]
  OBVIOUS
<1>2. TotalCost(table, S) = SumFunctionOnSet(f, S) /\ TotalCost(other, S) = SumFunctionOnSet(g, S)
  BY DEF TotalCost
<1> HIDE DEF f, g
<1> QED
  BY <1>1, <1>2, SumSame

LEMMA CostAdds ==
  ASSUME NEW table, NEW S, IsFiniteSet(S), \A id \in S : table[id].cost \in Nat, NEW y \in S
  PROVE  TotalCost(table, S) = table[y].cost + TotalCost(table, S \ {y})
<1> DEFINE f == [id \in S |-> table[id].cost]
           g == [id \in S \ {y} |-> table[id].cost]
<1>1. IsFiniteSet(S \ {y}) /\ (\A x \in S : f[x] \in Int) /\ f[y] = table[y].cost
  BY FS_Subset
<1>2. \A x \in S \ {y} : g[x] \in Int /\ g[x] = f[x]
  OBVIOUS
<1>3. /\ TotalCost(table, S) = SumFunctionOnSet(f, S)
      /\ TotalCost(table, S \ {y}) = SumFunctionOnSet(g, S \ {y})
  BY DEF TotalCost
<1> HIDE DEF f, g
<1>4. SumFunctionOnSet(f, S) = f[y] + SumFunctionOnSet(f, S \ {y})
  BY <1>1, SumRemove
<1>5. SumFunctionOnSet(g, S \ {y}) = SumFunctionOnSet(f, S \ {y})
  BY <1>1, <1>2, SumSame
<1> QED
  BY <1>1, <1>3, <1>4, <1>5

LEMMA TableFinite ==
  ASSUME SpendTypeOK
  PROVE  /\ \A S : S \subseteq DOMAIN booked => IsFiniteSet(S)
         /\ \A S : S \subseteq DOMAIN executions => IsFiniteSet(S)
         /\ DOMAIN booked = 1..Len(booked) /\ Len(booked) \in Nat
         /\ \A id \in DOMAIN executions : executions[id] \in Execution
         /\ \A id \in DOMAIN booked : booked[id] \in Execution
<1>1. booked \in Seq(Execution)
  BY DEF SpendTypeOK
<1>2. DOMAIN booked = 1..Len(booked) /\ Len(booked) \in Nat
  BY <1>1, LenProperties
<1>3. IsFiniteSet(DOMAIN booked)
  BY <1>2, FS_Interval
<1>4. \A id \in DOMAIN booked : booked[id] \in Execution
  BY <1>1, <1>2, ElementOfSeq
<1>5. \A S : S \subseteq DOMAIN booked => IsFiniteSet(S)
  BY <1>3, FS_Subset
<1> QED
  BY <1>2, <1>4, <1>5 DEF SpendTypeOK

LEMMA RowTypes ==
  ASSUME SpendTypeOK
  PROVE  /\ \A id \in DOMAIN executions :
              /\ executions[id].cost \in 0..MaxPrice /\ executions[id].cost \in Nat
              /\ executions[id].at \in Int /\ executions[id].route \in Routes
              /\ executions[id].provider \in {"live", "mock", "cache", ""}
              /\ executions[id].success \in BOOLEAN
         /\ \A id \in DOMAIN booked : booked[id].at \in Int
<1>1. \A row \in Execution : /\ row.cost \in 0..MaxPrice /\ row.cost \in Nat /\ row.at \in Int
                              /\ row.route \in Routes /\ row.success \in BOOLEAN
                              /\ row.provider \in {"live", "mock", "cache", ""}
  <2> SUFFICES ASSUME NEW row \in Execution
               PROVE  /\ row.cost \in 0..MaxPrice /\ row.cost \in Nat /\ row.at \in Int
                      /\ row.route \in Routes /\ row.success \in BOOLEAN
                      /\ row.provider \in {"live", "mock", "cache", ""}
    OBVIOUS
  <2>1. row.route \in Routes /\ row.provider \in {"live", "mock", "cache", ""}
    BY DEF Execution
  <2>2. row.success \in BOOLEAN
    BY DEF Execution
  <2>3. row.cost \in 0..MaxPrice /\ row.at \in Times
    BY DEF Execution
  <2>4. row.cost \in Nat /\ row.at \in Int
    BY <2>3, SpendAssumption DEF Times
  <2> QED
    BY <2>1, <2>2, <2>3, <2>4
<1>2. /\ \A id \in DOMAIN executions : executions[id] \in Execution
      /\ \A id \in DOMAIN booked : booked[id] \in Execution
  BY TableFinite
<1> QED
  BY <1>1, <1>2

LEMMA SpendTyped == ASSUME SpendTypeOK, [SpendNext]_spendVars PROVE SpendTypeOK'
<1> USE SpendAssumption DEF To
<1>1. ASSUME NEW r \in Spenders, StartRun(r) PROVE SpendTypeOK'
  BY <1>1 DEF StartRun, SpendTypeOK, SpendStages
<1>2. ASSUME NEW r \in Spenders, CheckDaily(r) PROVE SpendTypeOK'
  BY <1>2 DEF CheckDaily, SpendTypeOK, SpendStages
<1>3. ASSUME NEW r \in Spenders, CheckMonthly(r) PROVE SpendTypeOK'
  BY <1>3 DEF CheckMonthly, SpendTypeOK, SpendStages
<1>4. ASSUME NEW r \in Spenders, AnswerLocally(r) PROVE SpendTypeOK'
  <2>1. [provider |-> "cache", cost |-> 0, success |-> TRUE] \in Bills
    BY DEF Bills
  <2>2. bill' \in [Spenders -> Bills] /\ stage' \in [Spenders -> SpendStages]
    BY <1>4, <2>1 DEF AnswerLocally, SpendTypeOK, SpendStages
  <2> QED
    BY <1>4, <2>2 DEF AnswerLocally, SpendTypeOK
<1>5. ASSUME NEW r \in Spenders, FailedLeg(r) PROVE SpendTypeOK'
  BY <1>5 DEF FailedLeg, Leg, SpendTypeOK, SpendStages
<1>6. ASSUME NEW r \in Spenders, AcceptedLeg(r) PROVE SpendTypeOK'
  <2>1. PICK provider \in {"live", "mock"} :
          \E cost \in IF provider = "mock" THEN {0} ELSE 0..MaxPrice :
            bill' = [bill EXCEPT ![r] = [provider |-> provider, cost |-> cost, success |-> TRUE]]
    BY <1>6 DEF AcceptedLeg
  <2>2. PICK cost \in 0..MaxPrice :
          bill' = [bill EXCEPT ![r] = [provider |-> provider, cost |-> cost, success |-> TRUE]]
    <3>1. (IF provider = "mock" THEN {0} ELSE 0..MaxPrice) \subseteq 0..MaxPrice
      OBVIOUS
    <3> QED
      BY <2>1, <3>1
  <2>3. [provider |-> provider, cost |-> cost, success |-> TRUE] \in Bills
    BY DEF Bills
  <2>4. bill' \in [Spenders -> Bills]
    BY <2>2, <2>3 DEF SpendTypeOK
  <2>5. /\ legs' = [legs EXCEPT ![r] = @ + 1] /\ legs[r] < MaxLegs
        /\ stage' = [stage EXCEPT ![r] = "book"] /\ UNCHANGED <<clock, executions, booked>>
    BY <1>6 DEF AcceptedLeg, Leg
  <2>6. legs' \in [Spenders -> 0..MaxLegs] /\ stage' \in [Spenders -> SpendStages]
    BY <2>5 DEF SpendTypeOK, SpendStages
  <2> QED
    BY <2>4, <2>5, <2>6 DEF SpendTypeOK
<1>7. ASSUME NEW r \in Spenders, GiveUp(r) PROVE SpendTypeOK'
  BY <1>7 DEF GiveUp, SpendTypeOK, SpendStages
<1>8. ASSUME NEW r \in Spenders, BookExecution(r) PROVE SpendTypeOK'
  <2>1. PICK row \in Execution :
          /\ booked' = Append(booked, row)
          /\ executions' = [id \in DOMAIN executions \union {Len(booked) + 1} |->
                              IF id \in DOMAIN executions THEN executions[id] ELSE row]
    BY <1>8 DEF BookExecution, SpendTypeOK, Execution, Bills
  <2>2. /\ booked' \in Seq(Execution) /\ DOMAIN booked' = 1..(Len(booked) + 1)
        /\ DOMAIN booked = 1..Len(booked) /\ Len(booked) \in Nat
    BY <2>1, AppendProperties, LenProperties DEF SpendTypeOK
  <2>3. DOMAIN executions' \subseteq DOMAIN booked'
    BY <2>1, <2>2 DEF SpendTypeOK
  <2>4. executions' \in [DOMAIN executions' -> Execution]
    BY <2>1 DEF SpendTypeOK
  <2>5. /\ bill' = [bill EXCEPT ![r] = NoBill] /\ legs' = [legs EXCEPT ![r] = 0]
        /\ stage' = [stage EXCEPT ![r] = "idle"] /\ UNCHANGED clock
    BY <1>8 DEF BookExecution
  <2>6. NoBill \in Bills
    BY DEF NoBill, Bills
  <2>7. /\ bill' \in [Spenders -> Bills] /\ legs' \in [Spenders -> 0..MaxLegs]
        /\ stage' \in [Spenders -> SpendStages]
    BY <2>5, <2>6 DEF SpendTypeOK, SpendStages
  <2> QED
    BY <2>2, <2>3, <2>4, <2>5, <2>7 DEF SpendTypeOK
<1>9. CASE SpendTick
  BY <1>9 DEF SpendTick, SpendTypeOK, Times
<1>10. CASE PruneRecords
  <2>1. NoBill \in Bills
    BY DEF NoBill, Bills
  <2>2. /\ bill' \in [Spenders -> Bills] /\ legs' \in [Spenders -> 0..MaxLegs]
        /\ stage' \in [Spenders -> SpendStages] /\ UNCHANGED <<clock, booked>>
    BY <1>10, <2>1 DEF PruneRecords, SpendStages
  <2> DEFINE kept == RowsSince(executions, clock - RetentionTime)
  <2>3. kept \subseteq DOMAIN executions /\ executions' = Restrict(executions, kept)
    BY <1>10 DEF PruneRecords, RowsSince, Rows
  <2> HIDE DEF kept
  <2>4. DOMAIN executions' = kept /\ executions' \in [kept -> Execution]
    BY <2>3 DEF Restrict, SpendTypeOK
  <2> QED
    BY <2>2, <2>3, <2>4 DEF SpendTypeOK
<1>11. CASE UNCHANGED spendVars
  BY <1>11 DEF spendVars, SpendTypeOK
<1> QED
  BY <1>1, <1>2, <1>3, <1>4, <1>5, <1>6, <1>7, <1>8, <1>9, <1>10, <1>11 DEF SpendNext

LEMMA KeptStep == ASSUME SpendTypeOK, KeptRows, [SpendNext]_spendVars PROVE KeptRows'
<1>1. clock \in Int /\ RetentionTime \in Nat
  BY SpendAssumption DEF SpendTypeOK, Times
<1>2. CASE UNCHANGED <<executions, booked, clock>>
  BY <1>2 DEF KeptRows
<1>3. ASSUME NEW r \in Spenders, BookExecution(r) PROVE KeptRows'
  <2>1. PICK row \in Execution :
          /\ booked' = Append(booked, row) /\ clock' = clock
          /\ executions' = [id \in DOMAIN executions \union {Len(booked) + 1} |->
                              IF id \in DOMAIN executions THEN executions[id] ELSE row]
    BY <1>3 DEF BookExecution, SpendTypeOK, Execution, Bills
  <2>2. /\ DOMAIN booked' = 1..(Len(booked) + 1) /\ DOMAIN booked = 1..Len(booked)
        /\ Len(booked) \in Nat
        /\ \A id \in 1..Len(booked) : booked'[id] = booked[id]
        /\ booked'[Len(booked) + 1] = row
    BY <2>1, AppendProperties, LenProperties DEF SpendTypeOK
  <2>3. Len(booked) + 1 \notin DOMAIN executions
    BY <2>2 DEF SpendTypeOK
  <2>4. \A id \in DOMAIN executions : executions'[id] = executions[id] /\ booked'[id] = booked[id]
    BY <2>1, <2>2 DEF SpendTypeOK
  <2>5. executions'[Len(booked) + 1] = booked'[Len(booked) + 1]
    BY <2>1, <2>2, <2>3
  <2>6. \A id \in DOMAIN executions' : executions'[id] = booked'[id]
    BY <2>1, <2>4, <2>5 DEF KeptRows
  <2>7. ASSUME NEW id \in DOMAIN booked' \ DOMAIN executions'
        PROVE  RetentionTime > 0 /\ booked'[id].at < clock' - RetentionTime
    <3>1. id \in DOMAIN booked \ DOMAIN executions /\ booked'[id] = booked[id]
      BY <2>1, <2>2, <2>7
    <3> QED
      BY <2>1, <3>1 DEF KeptRows
  <2> QED
    BY <2>6, <2>7 DEF KeptRows
<1>4. CASE SpendTick
  <2>1. \A id \in DOMAIN booked : booked[id].at \in Int
    BY RowTypes
  <2> QED
    BY <1>1, <1>4, <2>1 DEF SpendTick, KeptRows
<1>5. CASE PruneRecords
  <2>1. /\ executions' = Restrict(executions, RowsSince(executions, clock - RetentionTime))
        /\ RetentionTime > 0 /\ booked' = booked /\ clock' = clock
    BY <1>5 DEF PruneRecords
  <2>2. /\ DOMAIN executions' = RowsSince(executions, clock - RetentionTime)
        /\ \A id \in DOMAIN executions' : executions'[id] = executions[id]
    BY <2>1 DEF Restrict
  <2>3. \A id \in DOMAIN executions : id \in DOMAIN executions' <=> executions[id].at >= clock - RetentionTime
    BY <2>2 DEF RowsSince, Rows
  <2>4. DOMAIN executions' \subseteq DOMAIN executions
    BY <2>2 DEF RowsSince, Rows
  <2>5. \A id \in DOMAIN executions : executions[id].at \in Int
    BY RowTypes
  <2>6. \A id \in DOMAIN executions \ DOMAIN executions' :
          executions[id].at < clock - RetentionTime
    BY <1>1, <2>3, <2>5
  <2> QED
    BY <2>1, <2>2, <2>4, <2>6 DEF KeptRows
<1> QED
  BY <1>2, <1>3, <1>4, <1>5
  DEF SpendNext, spendVars, StartRun, CheckDaily, CheckMonthly, AnswerLocally, FailedLeg,
      AcceptedLeg, GiveUp

\* The sum of a window shrinks when rows go and when time passes.
LEMMA SpendShrinks ==
  ASSUME SpendTypeOK, SpendTypeOK', clock' >= clock, DOMAIN executions' \subseteq DOMAIN executions,
         \A id \in DOMAIN executions' : executions'[id] = executions[id]
  PROVE  /\ AggregateSpend(DayLength) \in Nat /\ AggregateSpend(DayLength)' \in Nat
         /\ AggregateSpend(DayLength)' <= AggregateSpend(DayLength)
<1> DEFINE S == RowsSince(executions, clock - DayLength)
           T == RowsSince(executions', clock' - DayLength)
<1>1. \A id \in DOMAIN executions : executions[id].cost \in Nat /\ executions[id].at \in Int
  BY RowTypes
<1>2. clock \in Int /\ clock' \in Int /\ DayLength \in Int
  BY SpendAssumption DEF SpendTypeOK, Times
<1>3. T \subseteq S /\ S \subseteq DOMAIN executions /\ T \subseteq DOMAIN executions'
  BY <1>1, <1>2 DEF RowsSince, Rows
<1>4. IsFiniteSet(S) /\ IsFiniteSet(T)
  BY <1>3, TableFinite, FS_Subset
<1>5. AggregateSpend(DayLength) = TotalCost(executions, S) /\ AggregateSpend(DayLength)' = TotalCost(executions', T)
  BY DEF AggregateSpend
<1> HIDE DEF S, T
<1>6. TotalCost(executions', T) = TotalCost(executions, T)
  <2>1. \A id \in T : executions'[id].cost \in Nat /\ executions'[id].cost = executions[id].cost
    BY <1>1, <1>3
  <2> QED
    BY <1>4, <2>1, CostSame
<1>7. /\ TotalCost(executions, T) \in Nat /\ TotalCost(executions, S) \in Nat
      /\ TotalCost(executions, T) <= TotalCost(executions, S)
  <2>1. \A id \in S : executions[id].cost \in Nat
    BY <1>1, <1>3
  <2> QED
    BY <1>3, <1>4, <2>1, CostSubset
<1> QED
  BY <1>5, <1>6, <1>7

LEMMA PassedSizes ==
  /\ IsFiniteSet(Passed) /\ Cardinality(Passed) \in Nat /\ Cardinality(Spenders) \in Nat
  /\ Cardinality(Passed) <= Cardinality(Spenders)
BY SpendAssumption, FS_Subset, FS_CardinalityType DEF Passed

\* Fewer runs past the guard, and no more spent: what is reserved suffices.
LEMMA ReservedKept ==
  ASSUME Reserved, AggregateSpend(DayLength) \in Nat, AggregateSpend(DayLength)' \in Nat,
         AggregateSpend(DayLength)' <= AggregateSpend(DayLength), Passed' \subseteq Passed
  PROVE  Reserved'
<1> DEFINE p == Cardinality(Passed)
           q == Cardinality(Passed')
           n == Cardinality(Spenders)
<1>1. IsFiniteSet(Passed) /\ n \in Nat
  BY PassedSizes
<1>2. p \in Nat /\ q \in Nat /\ q <= p
  BY <1>1, FS_Subset, FS_CardinalityType
<1>3. MaxPrice \in Nat /\ DailyLimit \in Nat
  BY SpendAssumption
<1>4. DailyLimit > 0 => AggregateSpend(DayLength) + p * MaxPrice < DailyLimit + n * MaxPrice
  BY DEF Reserved
<1> HIDE DEF p, q, n
<1>5. q * MaxPrice <= p * MaxPrice /\ q * MaxPrice \in Nat /\ p * MaxPrice \in Nat /\ n * MaxPrice \in Nat
  BY <1>1, <1>2, <1>3
<1>6. DailyLimit > 0 => AggregateSpend(DayLength)' + q * MaxPrice < DailyLimit + n * MaxPrice
  BY <1>3, <1>4, <1>5
<1> QED
  BY <1>6 DEF Reserved, q, n

LEMMA ReservedStep ==
  ASSUME SpendInv, SpendTypeOK', [SpendNext]_spendVars PROVE Reserved'
<1>1. SpendTypeOK /\ Reserved
  BY DEF SpendInv
<1>2. clock \in Int /\ stage \in [Spenders -> SpendStages]
  BY <1>1 DEF SpendTypeOK, Times
<1>3. ASSUME UNCHANGED <<clock, executions>>, Passed' \subseteq Passed PROVE Reserved'
  BY <1>1, <1>2, <1>3, SpendShrinks, ReservedKept
<1>4. ASSUME NEW r \in Spenders,
             \/ StartRun(r) \/ CheckMonthly(r) \/ AnswerLocally(r) \/ FailedLeg(r) \/ AcceptedLeg(r)
             \/ GiveUp(r)
      PROVE  Reserved'
  <2>1. UNCHANGED <<clock, executions>>
    BY <1>4 DEF StartRun, CheckMonthly, AnswerLocally, FailedLeg, AcceptedLeg, GiveUp
  <2>2. Passed' \subseteq Passed
    BY <1>2, <1>4
    DEF StartRun, CheckMonthly, AnswerLocally, FailedLeg, AcceptedLeg, Leg, GiveUp, To, Passed
  <2> QED
    BY <1>3, <2>1, <2>2
<1>5. ASSUME NEW r \in Spenders, CheckDaily(r) PROVE Reserved'
  <2>1. UNCHANGED <<clock, executions>>
    BY <1>5 DEF CheckDaily
  <2>2. CASE stage'[r] = "refused"
    <3>1. Passed' \subseteq Passed
      BY <1>2, <1>5, <2>2 DEF CheckDaily, To, Passed
    <3> QED
      BY <1>3, <2>1, <3>1
  <2>3. CASE stage'[r] # "refused"
    <3>1. DailyLimit > 0 => ~(AggregateSpend(DayLength) >= DailyLimit)
      BY <1>2, <1>5, <2>3 DEF CheckDaily, To
    <3>2. AggregateSpend(DayLength)' = AggregateSpend(DayLength)
      BY <2>1 DEF AggregateSpend, TotalCost, RowsSince, Rows
    <3>3. AggregateSpend(DayLength) \in Nat
      BY <1>1, <1>2, <2>1, SpendShrinks
    <3> DEFINE q == Cardinality(Passed')
               n == Cardinality(Spenders)
    <3>4. q \in Nat /\ n \in Nat /\ q <= n
      BY SpendAssumption, FS_Subset, FS_CardinalityType DEF Passed
    <3>5. MaxPrice \in Nat /\ DailyLimit \in Nat
      BY SpendAssumption
    <3> HIDE DEF q, n
    <3>6. q * MaxPrice <= n * MaxPrice /\ q * MaxPrice \in Nat /\ n * MaxPrice \in Nat
      BY <3>4, <3>5
    <3>7. DailyLimit > 0 => AggregateSpend(DayLength)' + q * MaxPrice < DailyLimit + n * MaxPrice
      BY <3>1, <3>2, <3>3, <3>5, <3>6
    <3> QED
      BY <3>7 DEF Reserved, q, n
  <2> QED
    BY <2>2, <2>3
<1>6. ASSUME NEW r \in Spenders, BookExecution(r) PROVE Reserved'
  <2>1. PICK row \in Execution :
          /\ booked' = Append(booked, row) /\ clock' = clock
          /\ executions' = [id \in DOMAIN executions \union {Len(booked) + 1} |->
                              IF id \in DOMAIN executions THEN executions[id] ELSE row]
    BY <1>1, <1>6 DEF BookExecution, SpendTypeOK, Execution, Bills
  <2> DEFINE new == Len(booked) + 1
             S == RowsSince(executions, clock - DayLength)
             T == RowsSince(executions', clock' - DayLength)
  <2>2. new \notin DOMAIN executions
    BY <1>1, TableFinite DEF SpendTypeOK
  <2>3. /\ DOMAIN executions' = DOMAIN executions \union {new} /\ executions'[new] = row
        /\ \A id \in DOMAIN executions : executions'[id] = executions[id]
    BY <2>1, <2>2
  <2>4. row.cost \in 0..MaxPrice /\ row.cost \in Nat
    <3>1. row.cost \in 0..MaxPrice
      BY DEF Execution
    <3> QED
      BY <3>1, SpendAssumption
  <2>5. S \subseteq DOMAIN executions /\ T \subseteq DOMAIN executions' /\ T \ {new} = S
    BY <2>1, <2>2, <2>3 DEF RowsSince, Rows
  <2>6. IsFiniteSet(S) /\ IsFiniteSet(T)
    <3>1. IsFiniteSet(S) /\ IsFiniteSet(S \union {new})
      BY <1>1, <2>5, TableFinite, FS_AddElement
    <3>2. T \subseteq S \union {new}
      BY <2>5
    <3> HIDE DEF S, T, new
    <3> QED
      BY <3>1, <3>2, FS_Subset
  <2>7. \A id \in DOMAIN executions : executions[id].cost \in Nat
    BY <1>1, RowTypes
  <2>8. \A id \in T : executions'[id].cost \in Nat
    BY <2>3, <2>4, <2>5, <2>7
  <2>9. AggregateSpend(DayLength) = TotalCost(executions, S) /\ AggregateSpend(DayLength)' = TotalCost(executions', T)
    BY DEF AggregateSpend
  <2> HIDE DEF S, T, new
  <2>10. TotalCost(executions', S) = TotalCost(executions, S)
    <3>1. \A id \in S : executions'[id].cost \in Nat /\ executions'[id].cost = executions[id].cost
      BY <2>3, <2>5, <2>7
    <3> QED
      BY <2>6, <3>1, CostSame
  <2>11. /\ TotalCost(executions, S) \in Nat /\ TotalCost(executions', T) \in Nat
         /\ TotalCost(executions', T) <= TotalCost(executions, S) + MaxPrice
    <3>1. TotalCost(executions, S) \in Nat /\ TotalCost(executions', T) \in Nat
      BY <2>5, <2>6, <2>7, <2>8, CostSubset
    <3>2. CASE new \in T
      <4>1. TotalCost(executions', T) = executions'[new].cost + TotalCost(executions', T \ {new})
        BY <2>6, <2>8, <3>2, CostAdds
      <4> QED
        BY <2>3, <2>4, <2>5, <2>10, <3>1, <4>1, SpendAssumption
    <3>3. CASE new \notin T
      BY <2>5, <2>10, <3>1, <3>3, SpendAssumption
    <3> QED
      BY <3>1, <3>2, <3>3
  <2> DEFINE p == Cardinality(Passed)
             q == Cardinality(Passed')
             n == Cardinality(Spenders)
  <2>12. q = p - 1 /\ p \in Nat /\ q \in Nat /\ n \in Nat
    <3>1. r \in Passed /\ Passed' = Passed \ {r}
      BY <1>2, <1>6 DEF BookExecution, To, Passed
    <3> QED
      BY <3>1, PassedSizes, FS_RemoveElement, FS_CardinalityType
  <2>13. DailyLimit > 0 => AggregateSpend(DayLength) + p * MaxPrice < DailyLimit + n * MaxPrice
    BY <1>1 DEF Reserved
  <2> HIDE DEF p, q, n
  <2>14. /\ p * MaxPrice = q * MaxPrice + MaxPrice
         /\ p * MaxPrice \in Nat /\ q * MaxPrice \in Nat /\ n * MaxPrice \in Nat
    BY <2>12, SpendAssumption
  <2>15. DailyLimit > 0 => AggregateSpend(DayLength)' + q * MaxPrice < DailyLimit + n * MaxPrice
    BY <2>9, <2>11, <2>13, <2>14, SpendAssumption
  <2> QED
    BY <2>15 DEF Reserved, q, n
<1>7. CASE SpendTick
  <2>1. clock' >= clock /\ executions' = executions /\ stage' = stage
    BY <1>2, <1>7 DEF SpendTick
  <2>2. Passed' \subseteq Passed
    BY <2>1 DEF Passed
  <2> QED
    BY <1>1, <2>1, <2>2, SpendShrinks, ReservedKept
<1>8. CASE PruneRecords
  <2>1. /\ clock' = clock /\ Passed' = {}
        /\ DOMAIN executions' \subseteq DOMAIN executions
        /\ \A id \in DOMAIN executions' : executions'[id] = executions[id]
    BY <1>8 DEF PruneRecords, RowsSince, Rows, Restrict, Passed
  <2>2. clock' >= clock /\ Passed' \subseteq Passed
    BY <1>2, <2>1
  <2> QED
    BY <1>1, <2>1, <2>2, SpendShrinks, ReservedKept
<1>9. CASE UNCHANGED spendVars
  <2>1. UNCHANGED <<clock, executions>> /\ Passed' \subseteq Passed
    BY <1>9 DEF spendVars, Passed
  <2> QED
    BY <1>3, <2>1
<1> QED
  BY <1>4, <1>5, <1>6, <1>7, <1>8, <1>9 DEF SpendNext

LEMMA SpendInitInv == SpendInit => SpendInv
<1> SUFFICES ASSUME SpendInit PROVE SpendInv
  OBVIOUS
<1>1. SpendTypeOK
  <2>1. /\ executions \in Seq(Execution) /\ booked \in Seq(Execution)
        /\ DOMAIN executions = {} /\ DOMAIN booked = {}
    BY EmptySeq, LenProperties DEF SpendInit
  <2>2. executions \in [DOMAIN executions -> Execution]
    BY <2>1, LenProperties
  <2>3. NoBill \in Bills
    BY SpendAssumption DEF NoBill, Bills
  <2>4. /\ clock \in Times /\ stage \in [Spenders -> SpendStages]
        /\ bill \in [Spenders -> Bills] /\ legs \in [Spenders -> 0..MaxLegs]
    BY <2>3, SpendAssumption DEF SpendInit, Times, SpendStages
  <2> QED
    BY <2>1, <2>2, <2>4 DEF SpendTypeOK
<1>2. KeptRows
  BY DEF SpendInit, KeptRows
<1>3. Reserved
  <2>1. Passed = {}
    BY DEF SpendInit, Passed
  <2>2. AggregateSpend(DayLength) = 0
    <3>1. RowsSince(executions, clock - DayLength) = {}
      BY DEF SpendInit, RowsSince, Rows
    <3> QED
      BY <3>1, SumEmpty DEF AggregateSpend, TotalCost
  <2> DEFINE n == Cardinality(Spenders)
  <2>3. n \in Nat /\ MaxPrice \in Nat /\ DailyLimit \in Nat /\ Cardinality(Passed) = 0
    BY <2>1, PassedSizes, SpendAssumption, FS_EmptySet
  <2> HIDE DEF n
  <2>4. n * MaxPrice \in Nat
    BY <2>3
  <2>5. DailyLimit > 0 => 0 + 0 * MaxPrice < DailyLimit + n * MaxPrice
    BY <2>3, <2>4
  <2> QED
    BY <2>2, <2>3, <2>5 DEF Reserved, n
<1> QED
  BY <1>1, <1>2, <1>3 DEF SpendInv

LEMMA SpendInvKept == ASSUME SpendInv, [SpendNext]_spendVars PROVE SpendInv'
  BY SpendTyped, KeptStep, ReservedStep DEF SpendInv

LEMMA SpendInvariant == SpendSpec => []SpendInv
<1>1. SpendInv /\ [SpendNext]_spendVars => SpendInv'
  BY SpendInvKept
<1> QED
  BY SpendInitInv, <1>1, PTL DEF SpendSpec

\* The daily guard, however many runs pass it together, and the truth of what a
\* guard sums after any pruning, for any prices, limits, windows and retention
\* (engine.rs:171-179, 453-476, store.rs:1317-1327, 1493-1533).
THEOREM GuardKept == SpendSpec => []SpendGuardHolds
<1>1. SpendInv => SpendGuardHolds
  <2> SUFFICES ASSUME SpendInv PROVE SpendGuardHolds
    OBVIOUS
  <2>1. SpendTypeOK /\ KeptRows /\ Reserved
    BY DEF SpendInv
  <2>2. clock \in Int /\ \A id \in DOMAIN executions : executions[id].cost \in Nat
    <3>1. clock \in Int
      BY <2>1 DEF SpendTypeOK, Times
    <3> QED
      BY <2>1, <3>1, RowTypes
  <2>3. ASSUME DailyLimit > 0
        PROVE  AggregateSpend(DayLength) < DailyLimit + Cardinality(Spenders) * MaxPrice
    <3> DEFINE p == Cardinality(Passed)
               n == Cardinality(Spenders)
               S == RowsSince(executions, clock - DayLength)
    <3>1. p \in Nat /\ n \in Nat /\ MaxPrice \in Nat /\ DailyLimit \in Nat
      BY PassedSizes, SpendAssumption
    <3>2. AggregateSpend(DayLength) + p * MaxPrice < DailyLimit + n * MaxPrice
      BY <2>1, <2>3 DEF Reserved
    <3>3. AggregateSpend(DayLength) \in Nat
      <4>1. S \subseteq DOMAIN executions
        BY DEF RowsSince, Rows
      <4>2. IsFiniteSet(S) /\ \A id \in S : executions[id].cost \in Nat
        BY <2>1, <2>2, <4>1, TableFinite
      <4>3. AggregateSpend(DayLength) = TotalCost(executions, S)
        BY DEF AggregateSpend
      <4> HIDE DEF S
      <4> QED
        BY <4>2, <4>3, CostSubset
    <3> HIDE DEF p, n
    <3>4. p * MaxPrice \in Nat /\ n * MaxPrice \in Nat
      BY <3>1
    <3>5. AggregateSpend(DayLength) < DailyLimit + n * MaxPrice
      BY <3>1, <3>2, <3>3, <3>4
    <3> QED
      BY <3>5 DEF n
  <2>4. ASSUME RetentionTime = 0 \/ RetentionTime >= MonthLength, NEW window \in {DayLength, MonthLength}
        PROVE  AggregateSpend(window) = TotalCost(booked, RowsSince(booked, clock - window))
    <3> DEFINE S == RowsSince(executions, clock - window)
               T == RowsSince(booked, clock - window)
    <3>1. \A id \in DOMAIN booked \ DOMAIN executions : ~(booked[id].at >= clock - window)
      <4>1. window \in Int /\ window <= MonthLength /\ RetentionTime \in Nat /\ MonthLength \in Int
        BY SpendAssumption
      <4>2. \A id \in DOMAIN booked : booked[id].at \in Int
        BY <2>1, RowTypes
      <4>3. \A id \in DOMAIN booked \ DOMAIN executions :
              RetentionTime > 0 /\ booked[id].at < clock - RetentionTime
        BY <2>1 DEF KeptRows
      <4> QED
        BY <2>2, <2>4, <4>1, <4>2, <4>3
    <3>2. DOMAIN executions \subseteq DOMAIN booked
          /\ \A id \in DOMAIN executions : executions[id] = booked[id]
      BY <2>1 DEF SpendTypeOK, KeptRows
    <3>3. S = T /\ S \subseteq DOMAIN executions
      BY <3>1, <3>2 DEF RowsSince, Rows
    <3>4. IsFiniteSet(S)
      BY <2>1, <3>3, TableFinite
    <3>5. AggregateSpend(window) = TotalCost(executions, S)
      BY DEF AggregateSpend
    <3> HIDE DEF S
    <3>6. \A id \in S : executions[id].cost \in Nat /\ executions[id].cost = booked[id].cost
      BY <2>2, <3>2, <3>3
    <3>7. TotalCost(executions, S) = TotalCost(booked, S)
      BY <3>4, <3>6, CostSame
    <3> QED
      BY <3>3, <3>5, <3>7
  <2> QED
    BY <2>3, <2>4 DEF SpendGuardHolds
<1> QED
  BY <1>1, SpendInvariant, PTL

LEMMA ImageFinite == ASSUME NEW S, IsFiniteSet(S), NEW k PROVE IsFiniteSet({k[x] : x \in S})
<1> DEFINE T == {k[x] : x \in S}
           f == [x \in S |-> k[x]]
<1>1. f \in Surjection(S, T)
  BY DEF Surjection
<1> HIDE DEF f, T
<1>2. IsFiniteSet(T)
  BY <1>1, FS_Surjection
<1> QED
  BY <1>2 DEF T

\* group splits the rows S by the key k; runs, costs and successes report each group.
GroupedBy(S, R, k, group) ==
  /\ \A id \in S : k[id] \in R
  /\ \A r \in R : group[r] \subseteq S /\ \A id \in S : id \in group[r] <=> k[id] = r
ReportedAs(R, group, runs, costs, successes) ==
  \A r \in R : /\ runs[r] = Report(group[r]).runs /\ costs[r] = Report(group[r]).cost
               /\ successes[r] = Report(group[r]).successes

\* A measure that is a sum over rows adds up over any grouping of the rows.
LEMMA GroupedReport ==
  ASSUME SpendTypeOK, NEW S, S \subseteq DOMAIN executions, NEW R, IsFiniteSet(R), NEW k, NEW group,
         GroupedBy(S, R, k, group), NEW runs, NEW costs, NEW successes,
         ReportedAs(R, group, runs, costs, successes)
  PROVE  /\ Report(S).runs = SumFunctionOnSet(runs, R)
         /\ Report(S).cost = SumFunctionOnSet(costs, R)
         /\ Report(S).successes = SumFunctionOnSet(successes, R)
         /\ \A s \in SUBSET S : Report(s).cost \in Nat
<1> USE DEF GroupedBy, ReportedAs
<1> DEFINE one == [id \in S |-> 1]
           cost == [id \in S |-> executions[id].cost]
           won == [id \in S |-> IF executions[id].success THEN 1 ELSE 0]
<1>1. IsFiniteSet(S) /\ \A s \in SUBSET S : IsFiniteSet(s)
  BY TableFinite, FS_Subset
<1>2. \A id \in S : executions[id].cost \in Nat
  BY RowTypes
<1>3. \A id \in S : one[id] \in {0, 1} /\ cost[id] \in Nat /\ won[id] \in {0, 1}
  BY <1>2
<1>4. ASSUME NEW s \in SUBSET S
      PROVE  /\ Report(s).runs = SumFunctionOnSet(one, s)
             /\ Report(s).cost = SumFunctionOnSet(cost, s)
             /\ Report(s).successes = SumFunctionOnSet(won, s)
             /\ Report(s).cost \in Nat
  <2>1. {id \in s : one[id] = 1} = s /\ {id \in s : won[id] = 1} = {id \in s : executions[id].success}
    OBVIOUS
  <2>2. TotalCost(executions, s) = SumFunctionOnSet([id \in s |-> executions[id].cost], s)
    BY DEF TotalCost
  <2>3. \A id \in s : [i \in s |-> executions[i].cost][id] \in Int
                      /\ [i \in s |-> executions[i].cost][id] = cost[id]
    BY <1>2
  <2>4. SumFunctionOnSet([id \in s |-> executions[id].cost], s) = SumFunctionOnSet(cost, s)
    <3> HIDE DEF cost
    <3> QED
      BY <1>1, <2>3, SumSame
  <2>5. TotalCost(executions, s) \in Nat
    BY <1>1, <1>2, CostSubset
  <2>6. Cardinality({id \in s : one[id] = 1}) = SumFunctionOnSet(one, s)
    <3> HIDE DEF one
    <3> QED
      BY <1>1, <1>3, CountIsSum
  <2>7. Cardinality({id \in s : won[id] = 1}) = SumFunctionOnSet(won, s)
    <3> HIDE DEF won
    <3> QED
      BY <1>1, <1>3, CountIsSum
  <2> HIDE DEF one, cost, won
  <2> QED
    BY <2>1, <2>2, <2>4, <2>5, <2>6, <2>7 DEF Report
<1> HIDE DEF one, cost, won
<1>5. ASSUME NEW f, \A id \in S : f[id] \in Int
      PROVE  SumFunctionOnSet([r \in R |-> SumFunctionOnSet(f, {id \in S : k[id] = r})], R)
               = SumFunctionOnSet(f, S)
  BY <1>1, <1>5, SumGroups
<1>6. \A r \in R : /\ runs[r] = SumFunctionOnSet(one, {id \in S : k[id] = r})
                   /\ costs[r] = SumFunctionOnSet(cost, {id \in S : k[id] = r})
                   /\ successes[r] = SumFunctionOnSet(won, {id \in S : k[id] = r})
  <2> SUFFICES ASSUME NEW r \in R
               PROVE  /\ runs[r] = SumFunctionOnSet(one, {id \in S : k[id] = r})
                      /\ costs[r] = SumFunctionOnSet(cost, {id \in S : k[id] = r})
                      /\ successes[r] = SumFunctionOnSet(won, {id \in S : k[id] = r})
    OBVIOUS
  <2> DEFINE s == {id \in S : k[id] = r}
  <2>1. s \in SUBSET S /\ group[r] = s
    OBVIOUS
  <2> HIDE DEF s
  <2>2. /\ runs[r] = SumFunctionOnSet(one, s) /\ costs[r] = SumFunctionOnSet(cost, s)
        /\ successes[r] = SumFunctionOnSet(won, s)
    BY <1>4, <2>1
  <2> QED
    BY <2>2 DEF s
<1>7. ASSUME NEW f, NEW h, \A id \in S : f[id] \in Int,
             \A r \in R : h[r] = SumFunctionOnSet(f, {id \in S : k[id] = r})
      PROVE  SumFunctionOnSet(h, R) = SumFunctionOnSet(f, S)
  <2> DEFINE G == [r \in R |-> SumFunctionOnSet(f, {id \in S : k[id] = r})]
  <2>1. SumFunctionOnSet(G, R) = SumFunctionOnSet(f, S)
    BY <1>5, <1>7
  <2>2. \A r \in R : G[r] = h[r] /\ G[r] \in Int
    <3> SUFFICES ASSUME NEW r \in R PROVE SumFunctionOnSet(f, {id \in S : k[id] = r}) \in Int
      BY <1>7
    <3> DEFINE s == {id \in S : k[id] = r}
    <3>1. IsFiniteSet(s) /\ \A id \in s : f[id] \in Int
      BY <1>1, <1>7
    <3> HIDE DEF s
    <3>2. SumFunctionOnSet(f, s) \in Int
      BY <3>1, SumInt
    <3> QED
      BY <3>2 DEF s
  <2> HIDE DEF G
  <2> QED
    BY <2>1, <2>2, SumSame
<1>8. \A id \in S : one[id] \in Int /\ cost[id] \in Int /\ won[id] \in Int
  BY <1>3
<1>9. S \in SUBSET S
  OBVIOUS
<1>10. SumFunctionOnSet(runs, R) = SumFunctionOnSet(one, S)
  BY <1>6, <1>7, <1>8
<1>11. SumFunctionOnSet(costs, R) = SumFunctionOnSet(cost, S)
  BY <1>6, <1>7, <1>8
<1>12. SumFunctionOnSet(successes, R) = SumFunctionOnSet(won, S)
  BY <1>6, <1>7, <1>8
<1> QED
  BY <1>4, <1>9, <1>10, <1>11, <1>12

\* The reports agree in every state, for any routes, days and number of days shown
\* (store.rs:1537-1625, 1728-1760).
THEOREM ReportsTellOneStory == SpendSpec => []ReportsAgree
<1>1. SpendTypeOK => ReportsAgree
  <2> SUFFICES ASSUME SpendTypeOK PROVE ReportsAgree
    OBVIOUS
  <2> DEFINE N == Rows(executions, NotMock)
  <2>1. N \subseteq DOMAIN executions /\ IsFiniteSet(DOMAIN executions) /\ IsFiniteSet(N)
    BY TableFinite DEF Rows
  <2>2. N = {id \in DOMAIN executions : executions[id].provider # "mock"} /\ Summary = Report(N)
    BY DEF Rows, NotMock, Summary
  <2>3. /\ Summary.runs = SumFunction([x \in Routes |-> StatsByRoute(x).runs])
        /\ Summary.successes = SumFunction([x \in Routes |-> StatsByRoute(x).successes])
        /\ Summary.cost = SumFunction([x \in Routes |-> StatsByRoute(x).cost])
    <3> DEFINE k == [id \in N |-> executions[id].route]
               G(x) == {id \in N : k[id] = x}
    <3>1. \A x \in Routes : StatsByRoute(x) = Report(G(x))
      <4> SUFFICES ASSUME NEW x \in Routes
                   PROVE  Rows(executions, LAMBDA row : row.route = x /\ NotMock(row)) = G(x)
        BY DEF StatsByRoute
      <4> QED
        BY <2>2 DEF Rows, NotMock
    <3>2. \A id \in N : k[id] \in Routes
      BY <2>1, RowTypes
    <3> DEFINE group == [x \in Routes |-> G(x)]
               runs == [x \in Routes |-> StatsByRoute(x).runs]
               costs == [x \in Routes |-> StatsByRoute(x).cost]
               successes == [x \in Routes |-> StatsByRoute(x).successes]
    <3>3. GroupedBy(N, Routes, k, group)
      BY <3>2 DEF GroupedBy
    <3>4. ReportedAs(Routes, group, runs, costs, successes)
      BY <3>1 DEF ReportedAs
    <3>5. DOMAIN runs = Routes /\ DOMAIN costs = Routes /\ DOMAIN successes = Routes
      OBVIOUS
    <3> HIDE DEF N, k, G, group, runs, costs, successes
    <3>6. /\ Report(N).runs = SumFunctionOnSet(runs, Routes)
          /\ Report(N).cost = SumFunctionOnSet(costs, Routes)
          /\ Report(N).successes = SumFunctionOnSet(successes, Routes)
      BY <2>1, <3>3, <3>4, GroupedReport, SpendAssumption
    <3>7. /\ Summary.runs = SumFunction(runs) /\ Summary.cost = SumFunction(costs)
          /\ Summary.successes = SumFunction(successes)
      BY <2>2, <3>5, <3>6 DEF SumFunction
    <3> QED
      BY <3>7 DEF runs, costs, successes
  <2>4. Summary.runs = SumFunction([p \in {"live", "cache", ""} |-> StatsByProvider(p).runs])
    <3> DEFINE R == {"live", "cache", ""}
               k == [id \in N |-> executions[id].provider]
               G(x) == {id \in N : k[id] = x}
    <3>1. \A x \in R : StatsByProvider(x) = Report(G(x))
      <4> SUFFICES ASSUME NEW x \in R
                   PROVE  Rows(executions, LAMBDA row : row.provider = x) = G(x)
        BY DEF StatsByProvider
      <4> QED
        BY <2>2 DEF Rows
    <3>2. \A id \in N : k[id] \in R
      BY <2>2, RowTypes
    <3>3. IsFiniteSet(R)
      <4>1. IsFiniteSet({"live"}) /\ IsFiniteSet({"cache"}) /\ IsFiniteSet({""})
        BY FS_Singleton
      <4>2. IsFiniteSet({"live"} \union {"cache"} \union {""})
        BY <4>1, FS_Union
      <4>3. R = {"live"} \union {"cache"} \union {""}
        OBVIOUS
      <4> QED
        BY <4>2, <4>3
    <3> DEFINE group == [x \in R |-> G(x)]
               runs == [x \in R |-> StatsByProvider(x).runs]
               costs == [x \in R |-> StatsByProvider(x).cost]
               successes == [x \in R |-> StatsByProvider(x).successes]
    <3> HIDE DEF R
    <3>4. GroupedBy(N, R, k, group)
      BY <3>2 DEF GroupedBy
    <3>5. ReportedAs(R, group, runs, costs, successes)
      BY <3>1 DEF ReportedAs
    <3>6. DOMAIN runs = R
      OBVIOUS
    <3> HIDE DEF N, k, G, group, runs, costs, successes
    <3>7. Report(N).runs = SumFunctionOnSet(runs, R)
      BY <2>1, <3>3, <3>4, <3>5, GroupedReport
    <3>8. Summary.runs = SumFunction(runs)
      BY <2>2, <3>6, <3>7 DEF SumFunction
    <3> QED
      BY <3>8 DEF runs, R
  <2>5. Summary.runs + StatsByProvider("mock").runs = Cardinality(DOMAIN executions)
    <3> DEFINE M == {id \in DOMAIN executions : executions[id].provider = "mock"}
    <3>1. StatsByProvider("mock").runs = Cardinality(M)
      BY DEF StatsByProvider, Report, Rows
    <3>2. IsFiniteSet(M) /\ N \intersect M = {} /\ N \union M = DOMAIN executions
      BY <2>1, <2>2, FS_Subset
    <3>3. Summary.runs = Cardinality(N)
      BY <2>2 DEF Report
    <3> HIDE DEF N, M
    <3>4. Cardinality(N \union M) = Cardinality(N) + Cardinality(M) - Cardinality(N \intersect M)
      BY <2>1, <3>2, FS_Union
    <3>5. Cardinality(N) \in Nat /\ Cardinality(M) \in Nat /\ Cardinality({}) = 0
      BY <2>1, <3>2, FS_CardinalityType, FS_EmptySet
    <3>6. Cardinality(DOMAIN executions) = Cardinality(N) + Cardinality(M)
      <4>1. Cardinality(N \intersect M) = 0 /\ Cardinality(N \union M) = Cardinality(DOMAIN executions)
        BY <3>2, <3>5
      <4> QED
        BY <3>4, <3>5, <4>1
    <3> QED
      BY <3>1, <3>3, <3>6
  <2>6. SumFunction(DailySpend) <= Summary.cost
    <3> DEFINE k == [id \in N |-> Day(executions[id].at)]
               G(x) == {id \in N : k[id] = x}
               g == [d \in SpendDays |-> Report(G(d)).cost]
               shown == {e \in SpendDays : Cardinality({f \in SpendDays : f < e}) < DaysShown}
    <3>1. SpendDays = {k[id] : id \in N}
      BY DEF SpendDays
    <3>2. IsFiniteSet(SpendDays) /\ \A id \in N : k[id] \in SpendDays
      <4> HIDE DEF N, k
      <4>1. IsFiniteSet(SpendDays)
        BY <2>1, <3>1, ImageFinite
      <4> QED
        BY <3>1, <4>1
    <3>3. DailySpend = [d \in shown |-> Report(G(d)).cost]
      <4>1. \A d : Rows(executions, LAMBDA row : NotMock(row) /\ Day(row.at) = d) = G(d)
        BY <2>2 DEF Rows, NotMock
      <4> QED
        BY <4>1 DEF DailySpend, Report
    <3> HIDE DEF N, k
    <3>4. /\ Report(N).cost = SumFunctionOnSet(g, SpendDays)
          /\ \A d : Report(G(d)).cost \in Nat
      <4>1. (\A d : G(d) \in SUBSET N) /\ N \subseteq DOMAIN executions
        BY <2>1
      <4> DEFINE group == [d \in SpendDays |-> G(d)]
                 runs == [d \in SpendDays |-> Report(G(d)).runs]
                 successes == [d \in SpendDays |-> Report(G(d)).successes]
      <4>2. GroupedBy(N, SpendDays, k, group)
        BY <3>2 DEF GroupedBy
      <4>3. ReportedAs(SpendDays, group, runs, g, successes)
        BY DEF ReportedAs
      <4>4. Report(N).cost = SumFunctionOnSet(g, SpendDays) /\ \A s \in SUBSET N : Report(s).cost \in Nat
        <5> HIDE DEF G, g, group, runs, successes
        <5> QED
          BY <3>2, <4>1, <4>2, <4>3, GroupedReport
      <4> QED
        BY <4>1, <4>4
    <3> HIDE DEF G
    <3>5. shown \subseteq SpendDays /\ IsFiniteSet(shown)
      BY <3>2, FS_Subset
    <3>6. /\ \A d \in SpendDays : g[d] \in Nat
          /\ \A d \in shown : DailySpend[d] \in Int /\ DailySpend[d] = g[d]
          /\ DOMAIN DailySpend = shown
      BY <3>3, <3>4, <3>5
    <3> HIDE DEF g, shown
    <3>7. SumFunctionOnSet(DailySpend, shown) = SumFunctionOnSet(g, shown)
      BY <3>5, <3>6, SumSame
    <3>8. SumFunctionOnSet(g, shown) <= SumFunctionOnSet(g, SpendDays)
      BY <3>2, <3>5, <3>6, SumSubset
    <3> QED
      BY <2>2, <3>4, <3>6, <3>7, <3>8 DEF SumFunction
  <2> QED
    BY <2>3, <2>4, <2>5, <2>6 DEF ReportsAgree
<1>2. SpendInv => SpendTypeOK
  BY DEF SpendInv
<1> QED
  BY <1>1, <1>2, SpendInvariant, PTL

=============================================================================
