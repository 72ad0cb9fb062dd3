----------------------------- MODULE PrefixFit -----------------------------
(***************************************************************************)
(* The budget fit of the minimum viable context (src/src/contextidx.rs):   *)
(* a binary search for the longest prefix of the ranked symbols whose      *)
(* token count does not exceed the budget of 2000.                         *)
(*                                                                         *)
(* A prefix is the number of its symbols; counts[k] is what the tokenizer  *)
(* counts in the prefix of k, a count that grows with the prefix because   *)
(* symbols end on line boundaries.                                         *)
(***************************************************************************)
EXTENDS Integers

CONSTANTS
  MaxSymbols,   \* the limit of the search, 30
  Budget,       \* token_budget
  MaxCount     \* bound on a count

ASSUME FitAssumption ==
  /\ MaxSymbols \in Nat /\ Budget \in Nat /\ MaxCount \in Nat

VARIABLES
  symbols,      \* how many symbols the search returned
  counts,
  low, high,
  bestPrefix    \* 0 is String::new()

fitVars == <<symbols, counts, low, high, bestPrefix>>

Lengths == 0..symbols
Grows == \A j, k \in Lengths : j <= k => counts[j] <= counts[k]
Fits(k) == counts[k] <= Budget

FitInit ==
  /\ symbols \in 0..MaxSymbols
  /\ counts \in [0..symbols -> 0..MaxCount]
  /\ counts[0] = 0
  /\ Grows
  /\ low = 1 /\ high = symbols
  /\ bestPrefix = 0

Mid == (low + high) \div 2
\* Mutant: the loop stops when the interval has one element.
SearchingStrict == low < high
Searching == low <= high

Probe ==
  /\ Searching
  /\ IF Fits(Mid)
     THEN bestPrefix' = Mid /\ low' = Mid + 1 /\ high' = high
     ELSE high' = Mid - 1 /\ UNCHANGED <<bestPrefix, low>>
  /\ UNCHANGED <<symbols, counts>>

FitNext == Probe
FitSpec == FitInit /\ [][FitNext]_fitVars

-----------------------------------------------------------------------------
FitTypeOK ==
  /\ symbols \in Nat
  /\ counts \in [Lengths -> Nat]
  /\ low \in 1..(symbols + 1) /\ high \in 0..symbols
  /\ bestPrefix \in Lengths

\* What the search has excluded: below low everything fits and the best is the last of it, above high
\* nothing does.
FitInv ==
  /\ FitTypeOK
  /\ Grows
  /\ bestPrefix = low - 1 /\ Fits(bestPrefix)
  /\ \A k \in Lengths : k > high => ~Fits(k)

\* The context that is sent never exceeds the budget, and when the search ends no longer prefix of the
\* ranking would have fitted.
FindsLargest ==
  /\ Fits(bestPrefix)
  /\ ~Searching => \A k \in Lengths : Fits(k) => k <= bestPrefix
=============================================================================
