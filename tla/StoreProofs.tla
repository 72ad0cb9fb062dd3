---------------------------- MODULE StoreProofs -----------------------------
(***************************************************************************)
(* The database: what the solution cache serves, what layout a file has    *)
(* after any number of processes have opened it, and the types of all that *)
(* is kept, in the database and beside it.                                 *)
(***************************************************************************)
EXTENDS MCStorage, DiskProofs, TallyProofs

-----------------------------------------------------------------------------
(***************************************************************************)
(* What a failed run leaves in the solution cache: for any number of       *)
(* concurrent runs, goals and constraints, any thresholds, bounds and      *)
(* times, any writes the store refuses, and any way the LRU chooses among  *)
(* equals.  The invariant adds to HoldsTrusted what a run has in hand      *)
(* between its verification and its admission.                             *)
(***************************************************************************)

\* The types the argument needs: a run books under a key, rows are rows, and an
\* answer in hand is an output.
TableOK ==
  /\ now \in 0..MaxNow
  /\ DOMAIN rows \subseteq CacheKeys
  /\ rows \in [DOMAIN rows -> Row]
  /\ asking \in [Asks -> CacheKeys]
  /\ place \in [Asks -> Stages]
  /\ verified \in [Asks -> Solutions \union {NoSolution}]
  /\ trusted \in [CacheKeys -> SUBSET Solutions]

\* What a run is about to admit has not been overtaken, or only since it was verified.
InHand == \A r \in Asks : place[r] = "admit" => verified[r] \in trusted[asking[r]]

CacheInv == TableOK /\ HoldsTrusted /\ InHand

LEMMA CacheInitInv == CacheInit => CacheInv
<1> SUFFICES ASSUME CacheInit PROVE CacheInv
  OBVIOUS
<1>1. DOMAIN rows = {} /\ rows = [k \in {} |-> rows[k]]
  BY DEF CacheInit
<1>2. asking \in [Asks -> CacheKeys]
  <2>1. CacheKeys # {}
    <3>1. PICK g \in Goals, c \in Constraints : TRUE
      BY CacheAssumption
    <3>2. <<g, c>> \in CacheKeys
      BY <3>1 DEF CacheKeys
    <3> QED
      BY <3>2
  <2> QED
    <3>1. \E k \in CacheKeys : TRUE
      BY <2>1
    <3>2. (CHOOSE k \in CacheKeys : TRUE) \in CacheKeys
      BY <3>1
    <3> QED
      BY <3>2 DEF CacheInit
<1>3. now \in 0..MaxNow /\ trusted \in [CacheKeys -> SUBSET Solutions]
  BY CacheAssumption DEF CacheInit
<1>4. TableOK
  <2>1. place \in [Asks -> Stages] /\ verified \in [Asks -> Solutions \union {NoSolution}]
    BY DEF CacheInit, Stages
  <2> QED
    BY <1>1, <1>2, <1>3, <2>1 DEF TableOK
<1>5. HoldsTrusted /\ InHand
  BY <1>1 DEF HoldsTrusted, InHand, CacheInit
<1> QED
  BY <1>4, <1>5 DEF CacheInv

-----------------------------------------------------------------------------
(* What happens to the table. *)

\* The run that moves is not on its way to the table, and trust is not withdrawn.
Apart ==
  /\ now' \in 0..MaxNow
  /\ place' \in [Asks -> Stages]
  /\ verified' \in [Asks -> Solutions \union {NoSolution}]
  /\ asking' \in [Asks -> CacheKeys]
  /\ UNCHANGED ghosts
  /\ \A r \in Asks : place'[r] = "admit" =>
       place[r] = "admit" /\ verified'[r] = verified[r] /\ asking'[r] = asking[r]

LEMMA HandsKept == ASSUME CacheInv, Apart PROVE InHand'
BY DEF CacheInv, InHand, Apart, ghosts

\* Rows may go, and their times may change, as long as what is left holds the
\* output it held.
LEMMA OutputsKept ==
  ASSUME CacheInv, Apart, NEW D, D \subseteq DOMAIN rows,
         rows' \in [D -> Row], \A k \in D : rows'[k].out = rows[k].out
  PROVE  CacheInv'
<1>1. DOMAIN rows' = D /\ trusted' = trusted /\ outlived' = outlived
  BY DEF Apart, ghosts
<1>2. TableOK'
  BY <1>1 DEF CacheInv, TableOK, CacheKeys, Apart
<1>3. HoldsTrusted'
  BY <1>1 DEF CacheInv, HoldsTrusted
<1> QED
  BY <1>2, <1>3, HandsKept DEF CacheInv

LEMMA RowsKept ==
  ASSUME CacheInv, Apart, NEW D, D \subseteq DOMAIN rows, rows' = [k \in D |-> rows[k]]
  PROVE  CacheInv'
<1>1. rows' \in [D -> Row] /\ \A k \in D : rows'[k].out = rows[k].out
  BY DEF CacheInv, TableOK
<1> QED
  BY <1>1, OutputsKept

\* A run that leaves the table alone.
LEMMA TableAlone == ASSUME CacheInv, Apart, rows' = rows PROVE CacheInv'
<1>1. rows = [k \in DOMAIN rows |-> rows[k]]
  BY DEF CacheInv, TableOK
<1> QED
  BY <1>1, RowsKept

LEMMA Removed == ASSUME CacheInv, Apart, NEW keys, rows' = Without(keys) PROVE CacheInv'
<1>1. rows' = [k \in DOMAIN rows \ keys |-> rows[k]]
  BY DEF Without, Keep
<1> QED
  BY <1>1, RowsKept

\* A hit stamps its row, and leaves the output.
LEMMA Stamped ==
  ASSUME CacheInv, Apart, NEW D, D \subseteq DOMAIN rows, NEW key \in D,
         rows' = Touch([k \in D |-> rows[k]], key)
  PROVE  CacheInv'
<1>1. \A k \in D : rows[k] \in Row
  BY DEF CacheInv, TableOK
<1>2. now \in 0..MaxNow
  BY DEF CacheInv, TableOK
<1>3. rows' = [k \in D |-> IF k = key THEN [rows[k] EXCEPT !.used = now] ELSE rows[k]]
  BY DEF Touch
<1>4. \A k \in D : rows'[k] \in Row /\ rows'[k].out = rows[k].out
  BY <1>1, <1>2, <1>3 DEF Row
<1>5. rows' \in [D -> Row]
  BY <1>3, <1>4
<1> QED
  BY <1>4, <1>5, OutputsKept

\* The LRU takes rows away and changes none.
LEMMA EvictedIsPart ==
  ASSUME NEW D, NEW table \in [D -> Row], NEW kept \in Evicted(table)
  PROVE  \E E \in SUBSET D : kept = [k \in E |-> table[k]]
<1>1. table = [k \in D |-> table[k]] /\ DOMAIN table = D
  OBVIOUS
<1>2. CASE kept = table
  BY <1>1, <1>2
<1>3. CASE kept # table
  <2>1. PICK old \in SUBSET DOMAIN table : kept = [k \in DOMAIN table \ old |-> table[k]]
    BY <1>3 DEF Evicted
  <2> QED
    BY <1>1, <2>1
<1> QED
  BY <1>2, <1>3

-----------------------------------------------------------------------------
(* What a run does. *)

LEMMA PeekInv ==
  ASSUME CacheInv, NEW r \in Asks, PeekExact(r) \/ PeekAlike(r) PROVE CacheInv'
<1>1. Apart
  BY DEF PeekExact, PeekAlike, Move, Apart, Stages, CacheInv, TableOK
<1>2. rows' = rows \/ rows' = Without({asking[r]}) \/ rows' = Without(Stale)
  BY DEF PeekExact, PeekAlike
<1> QED
  BY <1>1, <1>2, TableAlone, Removed

LEMMA LookupInv ==
  ASSUME CacheInv, NEW r \in Asks, LookupExact(r) \/ LookupAlike(r) PROVE CacheInv'
<1>1. Apart
  BY DEF LookupExact, LookupAlike, Serve, Move, Apart, Stages, CacheInv, TableOK
<1>2. rows = [k \in DOMAIN rows |-> rows[k]]
  BY DEF CacheInv, TableOK
<1>3. CASE LookupExact(r)
  <2>1. CASE asking[r] \in DOMAIN rows /\ ~Expired(asking[r])
    <3>1. rows' = Touch([k \in DOMAIN rows |-> rows[k]], asking[r])
      BY <1>2, <1>3, <2>1 DEF LookupExact
    <3> QED
      BY <1>1, <2>1, <3>1, Stamped
  <2>2. CASE ~(asking[r] \in DOMAIN rows /\ ~Expired(asking[r]))
    BY <1>1, <1>3, <2>2, Removed DEF LookupExact
  <2> QED
    BY <2>1, <2>2
<1>4. CASE LookupAlike(r)
  <2>1. CASE Best(asking[r][1]) = {}
    BY <1>1, <1>4, <2>1, Removed DEF LookupAlike
  <2>2. CASE Best(asking[r][1]) # {}
    <3>1. PICK k \in Best(asking[r][1]) : rows' = Touch(Without(Stale), k)
      BY <1>4, <2>2 DEF LookupAlike
    <3>2. k \in DOMAIN rows \ Stale
      BY DEF Best
    <3>3. Without(Stale) = [j \in DOMAIN rows \ Stale |-> rows[j]]
      BY DEF Without, Keep
    <3> QED
      BY <1>1, <3>1, <3>2, <3>3, Stamped
  <2> QED
    BY <2>1, <2>2
<1> QED
  BY <1>3, <1>4

\* A verified answer is trusted from then on; the table does not change.
LEMMA VerifyInv ==
  ASSUME CacheInv, NEW r \in Asks, Verify(r) PROVE CacheInv'
<1>1. /\ now' = now /\ rows' = rows /\ asking' = asking /\ outlived' = outlived
      /\ place' = [place EXCEPT ![r] = "admit"]
  BY DEF Verify, Move
<1>2. PICK out \in Solutions : /\ verified' = [verified EXCEPT ![r] = out]
                               /\ trusted' = [trusted EXCEPT ![asking[r]] = @ \union {out}]
  BY DEF Verify
<1>3. /\ asking \in [Asks -> CacheKeys] /\ trusted \in [CacheKeys -> SUBSET Solutions]
      /\ DOMAIN rows \subseteq CacheKeys /\ verified \in [Asks -> Solutions \union {NoSolution}]
      /\ place \in [Asks -> Stages]
  BY DEF CacheInv, TableOK
<1>4. \A k \in CacheKeys : trusted[k] \subseteq trusted'[k]
  BY <1>2, <1>3
<1>5. TableOK'
  <2>1. trusted' \in [CacheKeys -> SUBSET Solutions] /\ verified' \in [Asks -> Solutions \union {NoSolution}]
    BY <1>2, <1>3
  <2>2. place' \in [Asks -> Stages]
    BY <1>1, <1>3 DEF Stages
  <2> QED
    BY <1>1, <2>1, <2>2 DEF CacheInv, TableOK, CacheKeys
<1>6. HoldsTrusted'
  BY <1>1, <1>3, <1>4 DEF CacheInv, HoldsTrusted
<1>7. InHand'
  <2> SUFFICES ASSUME NEW q \in Asks, place'[q] = "admit"
               PROVE  verified'[q] \in trusted'[asking[q]]
    BY <1>1 DEF InHand
  <2>1. CASE q = r
    BY <1>2, <1>3, <2>1
  <2>2. CASE q # r
    <3>1. place[q] = "admit" /\ verified'[q] = verified[q]
      BY <1>1, <1>2, <1>3, <2>2
    <3> QED
      BY <1>3, <1>4, <3>1 DEF CacheInv, InHand
  <2> QED
    BY <2>1, <2>2
<1> QED
  BY <1>5, <1>6, <1>7 DEF CacheInv

\* What is admitted is still trusted, and what the LRU leaves was there.
LEMMA AdmitInv ==
  ASSUME CacheInv, NEW r \in Asks, Admit(r) PROVE CacheInv'
<1> DEFINE key == asking[r]
<1> DEFINE out == verified[r]
<1>1. /\ now' = now /\ asking' = asking /\ trusted' = trusted /\ outlived' = outlived \ {key}
      /\ place[r] = "admit" /\ place' = [place EXCEPT ![r] = "idle"]
      /\ verified' = [verified EXCEPT ![r] = NoSolution]
      /\ rows' \in Evicted(Stored(key, out))
  BY DEF Admit, Move
<1>2. /\ now \in 0..MaxNow /\ asking \in [Asks -> CacheKeys] /\ key \in CacheKeys
      /\ place \in [Asks -> Stages] /\ verified \in [Asks -> Solutions \union {NoSolution}]
      /\ DOMAIN rows \subseteq CacheKeys /\ trusted \in [CacheKeys -> SUBSET Solutions]
  BY DEF CacheInv, TableOK
<1>3. out \in trusted[key] /\ out \in Solutions
  <2>1. out \in trusted[key]
    BY <1>1 DEF CacheInv, InHand
  <2>2. trusted[key] \subseteq Solutions
    BY <1>2
  <2> QED
    BY <2>1, <2>2
<1> DEFINE D == DOMAIN rows \union {key}
<1> DEFINE table == Stored(key, out)
<1>4. DOMAIN table = D /\ \A k \in D : table[k] =
        (IF k # key THEN rows[k]
         ELSE IF key \in DOMAIN rows THEN [rows[key] EXCEPT !.out = out]
         ELSE [out |-> out, created |-> now, used |-> now])
  BY DEF Stored
<1>5. \A k \in DOMAIN rows : rows[k] \in Row
  BY DEF CacheInv, TableOK
<1>6. \A k \in D : table[k] \in Row /\ table[k].out = IF k = key THEN out ELSE rows[k].out
  <2>1. ASSUME NEW k \in D, k # key
        PROVE  table[k] \in Row /\ table[k].out = rows[k].out
    BY <1>4, <1>5, <2>1
  <2>2. table[key] \in Row /\ table[key].out = out
    <3>1. CASE key \in DOMAIN rows
      BY <1>3, <1>4, <1>5, <3>1 DEF Row
    <3>2. CASE key \notin DOMAIN rows
      BY <1>2, <1>3, <1>4, <3>2 DEF Row
    <3> QED
      BY <3>1, <3>2
  <2> QED
    BY <2>1, <2>2
<1>7. table \in [D -> Row]
  <2>1. table = [k \in D |-> table[k]]
    BY DEF Stored
  <2> HIDE DEF table, D
  <2> QED
    BY <1>6, <2>1
<1>8. PICK E \in SUBSET D : rows' = [k \in E |-> table[k]]
  <2> HIDE DEF table, D
  <2> QED
    BY <1>1, <1>7, EvictedIsPart DEF table
<1>9. TableOK'
  <2>1. DOMAIN rows' = E /\ E \subseteq CacheKeys
    BY <1>2, <1>8
  <2>2. rows' \in [E -> Row]
    BY <1>6, <1>8
  <2>3. place' \in [Asks -> Stages] /\ verified' \in [Asks -> Solutions \union {NoSolution}]
    BY <1>1, <1>2 DEF Stages
  <2> QED
    BY <1>1, <1>2, <2>1, <2>2, <2>3 DEF TableOK, CacheKeys
<1>10. HoldsTrusted'
  <2> SUFFICES ASSUME NEW k \in E, k \notin outlived'
               PROVE  rows'[k].out \in trusted[k] \union Placeholders
    BY <1>1, <1>8 DEF HoldsTrusted
  <2>1. rows'[k].out = IF k = key THEN out ELSE rows[k].out
    BY <1>6, <1>8
  <2>2. CASE k = key
    BY <1>3, <2>1, <2>2
  <2>3. CASE k # key
    <3>1. k \in DOMAIN rows \ outlived
      BY <1>1, <2>3
    <3> QED
      BY <2>1, <2>3, <3>1 DEF CacheInv, HoldsTrusted
  <2> QED
    BY <2>2, <2>3
<1>11. InHand'
  BY <1>1, <1>2 DEF CacheInv, InHand
<1> QED
  BY <1>9, <1>10, <1>11 DEF CacheInv

\* A failed run refutes its own key: the row has outlived it, and what other runs
\* have in hand stays trusted.
LEMMA FailInv ==
  ASSUME CacheInv, NEW r \in Asks, Fail(r) PROVE CacheInv'
<1> DEFINE key == asking[r]
<1> DEFINE held == {verified[q] : q \in {q \in Asks : place[q] = "admit" /\ asking[q] = key}}
<1>1. /\ now' = now /\ rows' = rows /\ asking' = asking /\ verified' = verified
      /\ outlived' = outlived \union {key} /\ place' = [place EXCEPT ![r] = "failing"]
      /\ trusted' = [trusted EXCEPT ![key] = held]
  BY DEF Fail, Move
<1>2. /\ asking \in [Asks -> CacheKeys] /\ trusted \in [CacheKeys -> SUBSET Solutions]
      /\ DOMAIN rows \subseteq CacheKeys /\ place \in [Asks -> Stages]
  BY DEF CacheInv, TableOK
<1>3. held \subseteq trusted[key]
  BY DEF CacheInv, InHand
<1>4. \A k \in CacheKeys : k # key => trusted'[k] = trusted[k]
  BY <1>1, <1>2
<1>5. TableOK'
  <2>1. trusted' \in [CacheKeys -> SUBSET Solutions] /\ place' \in [Asks -> Stages]
    BY <1>1, <1>2, <1>3 DEF Stages
  <2> QED
    BY <1>1, <2>1 DEF CacheInv, TableOK, CacheKeys
<1>6. HoldsTrusted'
  BY <1>1, <1>2, <1>4 DEF CacheInv, HoldsTrusted
<1>7. InHand'
  <2> SUFFICES ASSUME NEW q \in Asks, place'[q] = "admit"
               PROVE  verified[q] \in trusted'[asking[q]]
    BY <1>1 DEF InHand
  <2>1. place[q] = "admit"
    BY <1>1, <1>2
  <2>2. CASE asking[q] = key
    BY <1>1, <1>2, <2>1, <2>2
  <2>3. CASE asking[q] # key
    BY <1>2, <1>4, <2>1, <2>3 DEF CacheInv, InHand
  <2> QED
    BY <2>2, <2>3
<1> QED
  BY <1>5, <1>6, <1>7 DEF CacheInv

\* The row of the failed run's own key goes.
LEMMA EvictInv ==
  ASSUME CacheInv, NEW r \in Asks, Evict(r) PROVE CacheInv'
<1> DEFINE key == asking[r]
<1>1. /\ rows' = [k \in DOMAIN rows \ {key} |-> rows[k]]
      /\ outlived' = outlived \ {key}
      /\ place' = [place EXCEPT ![r] = "idle"]
      /\ UNCHANGED <<now, asking, verified, trusted>>
  BY DEF Evict, EvictionDone, Without, Keep, Move
<1>2. TableOK'
  BY <1>1 DEF CacheInv, TableOK, CacheKeys, Stages
<1>3. HoldsTrusted'
  BY <1>1 DEF CacheInv, TableOK, HoldsTrusted
<1>4. InHand'
  BY <1>1 DEF CacheInv, TableOK, InHand
<1> QED
  BY <1>2, <1>3, <1>4 DEF CacheInv

\* The steps of a run that neither verify nor admit nor refute.
LEMMA OtherRunInv ==
  ASSUME CacheInv, NEW r \in Asks,
         Ask(r) \/ DropPlaceholder(r) \/ NotAdmitted(r) \/ Abandon(r) \/ EvictionLost(r)
  PROVE  CacheInv'
<1>1. Apart
  <2>1. CASE Ask(r)
    BY <2>1 DEF Ask, Move, Apart, Stages, CacheInv, TableOK
  <2>2. CASE DropPlaceholder(r) \/ Abandon(r) \/ EvictionLost(r)
    BY <2>2 DEF DropPlaceholder, Abandon, EvictionLost, Move, Apart, Stages, CacheInv, TableOK
  <2>3. CASE NotAdmitted(r)
    BY <2>3 DEF NotAdmitted, Move, Apart, Stages, CacheInv, TableOK
  <2> QED
    BY <2>1, <2>2, <2>3
<1>2. rows' = rows \/ rows' = Without({asking[r]})
  BY DEF Ask, DropPlaceholder, NotAdmitted, Abandon, EvictionLost
<1> QED
  BY <1>1, <1>2, TableAlone, Removed

\* Time, retention and rows of earlier builds.
LEMMA OutsideInv ==
  ASSUME CacheInv, CacheTick \/ Prune \/ LegacyRow PROVE CacheInv'
<1>1. Apart
  <2>1. now' \in 0..MaxNow /\ asking' = asking /\ UNCHANGED ghosts
    BY CacheAssumption DEF CacheTick, Prune, LegacyRow, CacheInv, TableOK
  <2>2. CASE CacheTick \/ LegacyRow
    BY <2>1, <2>2 DEF CacheTick, LegacyRow, Apart, CacheInv, TableOK
  <2>3. CASE Prune
    BY <2>1, <2>3 DEF Prune, Apart, Stages, CacheInv, TableOK
  <2> QED
    BY <2>1, <2>2, <2>3
<1>2. CASE CacheTick
  BY <1>1, <1>2, TableAlone DEF CacheTick
<1>3. CASE Prune
  <2>1. rows' = rows \/ \E keys : rows' = Without(keys)
    BY <1>3 DEF Prune
  <2> QED
    BY <1>1, <2>1, TableAlone, Removed
<1>4. CASE LegacyRow
  <2>1. PICK key \in CacheKeys, out \in Placeholders :
          rows' = [j \in {key} |-> [out |-> out, created |-> now, used |-> now]]
    BY <1>4 DEF LegacyRow
  <2>2. now \in 0..MaxNow
    BY DEF CacheInv, TableOK
  <2>3. \A j \in {key} : rows'[j] \in Row /\ rows'[j].out = out
    BY <2>1, <2>2, CacheAssumption DEF Row
  <2>4. TableOK'
    BY <1>1, <2>1, <2>3 DEF CacheInv, TableOK, CacheKeys, Apart, ghosts
  <2>5. HoldsTrusted'
    BY <2>1, <2>3 DEF HoldsTrusted
  <2> QED
    BY <1>1, <2>4, <2>5, HandsKept DEF CacheInv
<1> QED
  BY <1>2, <1>3, <1>4

-----------------------------------------------------------------------------
LEMMA CacheStep == ASSUME CacheInv, [CacheNext]_cacheVars PROVE CacheInv'
<1>1. CASE UNCHANGED cacheVars
  BY <1>1 DEF cacheVars, ghosts, CacheInv, TableOK, HoldsTrusted, InHand, CacheKeys
<1>2. ASSUME NEW r \in Asks,
             \/ Ask(r) \/ PeekExact(r) \/ PeekAlike(r) \/ LookupExact(r) \/ LookupAlike(r)
             \/ DropPlaceholder(r) \/ Verify(r) \/ Admit(r) \/ NotAdmitted(r) \/ Abandon(r)
             \/ Fail(r) \/ Evict(r) \/ EvictionLost(r)
      PROVE  CacheInv'
  BY <1>2, PeekInv, LookupInv, VerifyInv, AdmitInv, FailInv, EvictInv, OtherRunInv
<1> QED
  BY <1>1, <1>2, OutsideInv DEF CacheNext

\* Whatever runs of one request interleave, and whatever the store refuses, a row
\* that its key's last failed run did not fail to evict was verified after that
\* failure, or was in a run's hands when it happened, or is an earlier build's
\* (engine.rs:880-947, 1255-1276, 1297-1304).
THEOREM CacheHoldsTrusted == CacheSpec => []HoldsTrusted
<1>1. CacheInv /\ [CacheNext]_cacheVars => CacheInv'
  BY CacheStep
<1>2. CacheInv => HoldsTrusted
  BY DEF CacheInv
<1> QED
  BY CacheInitInv, <1>1, <1>2, PTL DEF CacheSpec

-----------------------------------------------------------------------------
(* What a run is served. *)

LEMMA QuotientAtMost ==
  ASSUME NEW c \in Nat, NEW d \in Nat \ {0}, c <= d
  PROVE  (100 * c) \div d \in 0..100 /\ (100 * d) \div d = 100
OBVIOUS

\* Nothing is more alike to a goal than the goal itself.
LEMMA MostAlike ==
  ASSUME NEW g \in Goals, NEW h \in Goals
  PROVE  /\ Similarity(g, h) \in Nat
         /\ Similarity(g, h) <= Similarity(g, g)
<1>1. IsFiniteSet(g) /\ IsFiniteSet(h) /\ IsFiniteSet(g \union h)
  BY CacheAssumption, FS_Union
<1>2. /\ Cardinality(g \cap h) \in Nat /\ Cardinality(g \union h) \in Nat
      /\ Cardinality(g \cap h) <= Cardinality(g \union h)
  <2>1. (g \cap h) \in SUBSET (g \union h)
    OBVIOUS
  <2> QED
    BY <1>1, <2>1, FS_Subset, FS_CardinalityType
<1>3. Cardinality(g) \in Nat /\ g \cap g = g /\ g \union g = g
  BY <1>1, FS_CardinalityType
<1>4. (g # {} \/ h # {}) => Cardinality(g \union h) # 0
  BY <1>1, FS_EmptySet
<1>5. g # {} => Cardinality(g) # 0
  BY <1>1, FS_EmptySet
<1>6. Similarity(g, g) = 100
  <2>1. CASE g = {}
    BY <2>1 DEF Similarity
  <2>2. CASE g # {}
    <3>1. Similarity(g, g) = (100 * Cardinality(g)) \div Cardinality(g)
      BY <2>2, <1>3 DEF Similarity
    <3>2. Cardinality(g) \in Nat \ {0}
      BY <2>2, <1>3, <1>5
    <3> QED
      BY <3>1, <3>2, QuotientAtMost
  <2> QED
    BY <2>1, <2>2
<1>7. Similarity(g, h) \in 0..100
  <2>1. CASE g = {} /\ h = {}
    BY <2>1 DEF Similarity
  <2>2. CASE ~(g = {} /\ h = {})
    <3>1. (100 * Cardinality(g \cap h)) \div Cardinality(g \union h) \in 0..100
      BY <2>2, <1>2, <1>4, QuotientAtMost
    <3> QED
      BY <2>2, <3>1 DEF Similarity
  <2> QED
    BY <2>1, <2>2
<1> QED
  BY <1>6, <1>7

\* Only a semantic cache is searched for goals that are alike.
AlikeOnly ==
  /\ place \in [Asks -> Stages]
  /\ served \in [Asks -> Solutions \union {NoSolution}]
  /\ \A r \in Asks : place[r] = "lookupAlike" => Threshold > 0

LEMMA Outputs == ASSUME CacheInv PROVE \A k \in DOMAIN rows : rows[k].out \in Solutions
<1>1. \A k \in DOMAIN rows : rows[k] \in Row
  BY DEF CacheInv, TableOK
<1> QED
  BY <1>1 DEF Row

LEMMA AlikeStep == ASSUME CacheInv, AlikeOnly, [CacheNext]_cacheVars PROVE AlikeOnly'
<1>1. CASE UNCHANGED cacheVars
  BY <1>1 DEF cacheVars, AlikeOnly
<1>2. ASSUME NEW r \in Asks, Ask(r) PROVE AlikeOnly'
  BY <1>2 DEF Ask, Move, AlikeOnly, Stages
<1>3. ASSUME NEW r \in Asks, PeekExact(r) PROVE AlikeOnly'
  BY <1>3 DEF PeekExact, Move, AlikeOnly, Stages
<1>4. ASSUME NEW r \in Asks, PeekAlike(r) PROVE AlikeOnly'
  BY <1>4 DEF PeekAlike, Move, AlikeOnly, Stages
<1>5. ASSUME NEW r \in Asks, LookupExact(r) PROVE AlikeOnly'
  BY <1>5, Outputs DEF LookupExact, Serve, Move, AlikeOnly, Stages
<1>6. ASSUME NEW r \in Asks, LookupAlike(r) PROVE AlikeOnly'
  <2>1. \A k \in Best(asking[r][1]) : k \in DOMAIN rows
    BY DEF Best
  <2> QED
    BY <1>6, <2>1, Outputs DEF LookupAlike, Serve, Move, AlikeOnly, Stages
<1>7. ASSUME NEW r \in Asks,
             \/ DropPlaceholder(r) \/ Verify(r) \/ Admit(r) \/ NotAdmitted(r) \/ Abandon(r)
             \/ Fail(r) \/ Evict(r) \/ EvictionLost(r)
      PROVE  AlikeOnly'
  BY <1>7 DEF DropPlaceholder, Verify, Admit, NotAdmitted, Abandon, Fail, Evict, EvictionLost,
              Move, AlikeOnly, Stages
<1>8. CASE CacheTick \/ Prune \/ LegacyRow
  BY <1>8 DEF CacheTick, Prune, LegacyRow, AlikeOnly, Stages
<1> QED
  BY <1>1, <1>2, <1>3, <1>4, <1>5, <1>6, <1>7, <1>8 DEF CacheNext

\* The step that serves a run.
Serves(r, k) ==
  /\ k \in DOMAIN rows /\ ~Expired(k)
  /\ served'[r] = rows[k].out /\ rows[k].out \notin Placeholders
  /\ \/ LookupExact(r) /\ k = asking[r]
     \/ LookupAlike(r) /\ k \in Best(asking[r][1])

LEMMA OnlyLookupsServe ==
  ASSUME CacheInv, AlikeOnly, [CacheNext]_cacheVars,
         NEW r \in Asks, place[r] # "served", place'[r] = "served"
  PROVE  \E k \in DOMAIN rows : Serves(r, k)
<1>1. ~UNCHANGED cacheVars
  BY DEF cacheVars
<1>2. ~(CacheTick \/ Prune \/ LegacyRow)
  BY DEF CacheTick, Prune, LegacyRow
<1>3. ASSUME NEW q \in Asks,
             \/ Ask(q) \/ PeekExact(q) \/ PeekAlike(q) \/ DropPlaceholder(q) \/ Verify(q)
             \/ Admit(q) \/ NotAdmitted(q) \/ Abandon(q) \/ Fail(q) \/ Evict(q) \/ EvictionLost(q)
      PROVE  FALSE
  BY <1>3 DEF Ask, PeekExact, PeekAlike, DropPlaceholder, Verify, Admit, NotAdmitted, Abandon,
              Fail, Evict, EvictionLost, Move, AlikeOnly
<1>4. ASSUME NEW q \in Asks, LookupExact(q) PROVE \E k \in DOMAIN rows : Serves(r, k)
  <2>1. q = r
    BY <1>4 DEF LookupExact, Serve, Move, AlikeOnly
  <2>2. /\ asking[r] \in DOMAIN rows /\ ~Expired(asking[r])
        /\ rows[asking[r]].out \notin Placeholders
        /\ served' = [served EXCEPT ![r] = rows[asking[r]].out]
    BY <1>4, <2>1 DEF LookupExact, Serve, Move, AlikeOnly
  <2> QED
    BY <1>4, <2>1, <2>2 DEF Serves, AlikeOnly
<1>5. ASSUME NEW q \in Asks, LookupAlike(q) PROVE \E k \in DOMAIN rows : Serves(r, k)
  <2>1. q = r
    BY <1>5 DEF LookupAlike, Serve, Move, AlikeOnly
  <2>2. PICK k \in Best(asking[r][1]) :
          /\ rows[k].out \notin Placeholders
          /\ served' = [served EXCEPT ![r] = rows[k].out]
    BY <1>5, <2>1 DEF LookupAlike, Serve, Move, AlikeOnly
  <2>3. k \in DOMAIN rows /\ ~Expired(k)
    BY DEF Best, Stale
  <2> QED
    BY <1>5, <2>1, <2>2, <2>3 DEF Serves, AlikeOnly
<1> QED
  BY <1>1, <1>2, <1>3, <1>4, <1>5 DEF CacheNext

ServedFrom(r, k) ==
  /\ rows[k].out = served'[r] /\ served'[r] \notin Placeholders
  /\ now - rows[k].created <= CacheTtl
  /\ Threshold = 0 => k = asking[r]
  /\ \A j \in DOMAIN rows : now - rows[j].created <= CacheTtl =>
       Similarity(asking[r][1], j[1]) <= Similarity(asking[r][1], k[1])

LEMMA ServesBest ==
  ASSUME CacheInv, AlikeOnly, NEW r \in Asks, NEW k \in DOMAIN rows, Serves(r, k)
  PROVE  ServedFrom(r, k)
<1>1. /\ now \in Int /\ CacheTtl \in Int /\ Threshold \in Nat
      /\ \A j \in DOMAIN rows : rows[j].created \in Int
  <2>1. \A j \in DOMAIN rows : rows[j] \in Row
    BY DEF CacheInv, TableOK
  <2> QED
    BY <2>1, CacheAssumption DEF CacheInv, TableOK, Row
<1>2. /\ asking[r] \in CacheKeys /\ asking[r][1] \in Goals
      /\ \A j \in DOMAIN rows : j[1] \in Goals
  BY DEF CacheInv, TableOK, CacheKeys
<1>3. \A j \in DOMAIN rows : now - rows[j].created <= CacheTtl <=> ~Expired(j)
  BY <1>1 DEF Expired
<1>4. \A j \in DOMAIN rows : /\ Similarity(asking[r][1], j[1]) \in Nat
                             /\ Similarity(asking[r][1], j[1]) <= Similarity(asking[r][1], asking[r][1])
  BY <1>2, MostAlike
<1>5. CASE LookupExact(r) /\ k = asking[r]
  BY <1>3, <1>4, <1>5 DEF Serves, ServedFrom
<1>6. CASE LookupAlike(r) /\ k \in Best(asking[r][1])
  <2> DEFINE near == {j \in DOMAIN rows \ Stale : Similarity(asking[r][1], j[1]) >= Threshold}
  <2>1. Threshold > 0
    BY <1>6 DEF LookupAlike, AlikeOnly
  <2>2. k \in near /\ \A j \in near : Similarity(asking[r][1], k[1]) >= Similarity(asking[r][1], j[1])
    BY <1>6 DEF Best
  <2>3. \A j \in DOMAIN rows : ~Expired(j) => j \in DOMAIN rows \ Stale
    BY DEF Stale
  <2>4. ASSUME NEW j \in DOMAIN rows, ~Expired(j)
        PROVE  Similarity(asking[r][1], j[1]) <= Similarity(asking[r][1], k[1])
    <3>1. CASE j \in near
      BY <3>1, <2>2, <1>4
    <3>2. CASE j \notin near
      BY <3>2, <2>2, <2>3, <2>4, <1>1, <1>4
    <3> QED
      BY <3>1, <3>2
  <2> HIDE DEF near
  <2> QED
    BY <1>3, <2>1, <2>4 DEF Serves, ServedFrom
<1> QED
  BY <1>5, <1>6 DEF Serves

\* A run is given the answer of a live row, of the row most alike to its goal, and
\* of its own row where there is no semantic cache, however the runs, the clock
\* and the pruning interleave (engine.rs:590-641, store.rs:800-850, 1029-1038).
THEOREM BestIsServed == CacheSpec => ServedBest
<1>1. CacheInit => CacheInv /\ AlikeOnly
  BY CacheInitInv DEF CacheInit, AlikeOnly, Stages
<1>2. CacheInv /\ AlikeOnly /\ [CacheNext]_cacheVars => (CacheInv /\ AlikeOnly)'
  BY CacheStep, AlikeStep
<1>3. CacheInv /\ AlikeOnly /\ [CacheNext]_cacheVars =>
        [\A r \in Asks : place[r] # "served" /\ place'[r] = "served" =>
           \E k \in DOMAIN rows :
             /\ rows[k].out = served'[r] /\ served'[r] \notin Placeholders
             /\ now - rows[k].created <= CacheTtl
             /\ Threshold = 0 => k = asking[r]
             /\ \A j \in DOMAIN rows : now - rows[j].created <= CacheTtl =>
                  Similarity(asking[r][1], j[1]) <= Similarity(asking[r][1], k[1])]_cacheVars
  BY OnlyLookupsServe, ServesBest DEF ServedFrom
<1> QED
  BY <1>1, <1>2, <1>3, PTL DEF CacheSpec, ServedBest

-----------------------------------------------------------------------------
(***************************************************************************)
(* A file keeps the promise of its version: for any number of openers, any *)
(* layouts earlier builds left, and any crash between two statements.      *)
(***************************************************************************)

Stated ==
  {Create(t) : t \in Tables} \union {Index(c) : c \in Indexes} \union {AddColumn(c) : c \in AllColumns}
    \union {SetVersion(v) : v \in 1..3} \union {Backfill}
    \union {CheckVersion(1, 18), CheckVersion(2, 2), CheckVersion(3, 2)}

LEMMA TablesAre ==
  Tables = {"failure_memory", "executions", "solution_cache", "execution_attempts", "bandit_state", "others"}
BY DEF Tables, Columns

LEMMA ColumnsAre ==
  AllColumns = {"goal_hash", "executions_tier", "token_hash", "cache_tier", "cache_goal", "route", "cost_usd"}
BY TablesAre DEF AllColumns, Columns

LEMMA StatedHas ==
  /\ \A t \in Tables : Create(t) \in Stated
  /\ \A c \in Indexes : Index(c) \in Stated
  /\ \A c \in AllColumns : AddColumn(c) \in Stated
  /\ \A v \in 1..3 : SetVersion(v) \in Stated
  /\ Backfill \in Stated
  /\ CheckVersion(1, 18) \in Stated /\ CheckVersion(2, 2) \in Stated /\ CheckVersion(3, 2) \in Stated
BY DEF Stated

LEMMA SchemaIs ==
  /\ Schema \in Seq(Stated) /\ Len(Schema) = 8
  /\ Schema[1] = Create("failure_memory") /\ Schema[2] = Index("goal_hash")
  /\ Schema[3] = Create("executions") /\ Schema[4] = Create("solution_cache")
  /\ Schema[5] = Create("execution_attempts") /\ Schema[6] = Index("route")
  /\ Schema[7] = Create("bandit_state") /\ Schema[8] = Create("others")
<1>1. /\ Create("failure_memory") \in Stated /\ Index("goal_hash") \in Stated
      /\ Create("executions") \in Stated /\ Create("solution_cache") \in Stated
      /\ Create("execution_attempts") \in Stated /\ Index("route") \in Stated
      /\ Create("bandit_state") \in Stated /\ Create("others") \in Stated
  BY StatedHas, TablesAre DEF Indexes
<1> QED
  BY <1>1 DEF Schema

\* s is a list of n statements; u is s, of m, followed by t, of n.
Listed(s, n) == n \in Nat /\ s \in Seq(Stated) /\ Len(s) = n
Follows(u, s, m, t, n) ==
  /\ Listed(u, m + n)
  /\ \A k \in 1..m : u[k] = s[k]
  /\ \A k \in 1..n : u[m + k] = t[k]

LEMMA Joined ==
  ASSUME NEW s, NEW m, NEW t, NEW n, Listed(s, m), Listed(t, n)
  PROVE  Follows(s \o t, s, m, t, n)
<1> DEFINE u == s \o t
<1>1. m \in Nat /\ n \in Nat /\ Len(s) = m /\ Len(t) = n
  BY DEF Listed
<1>2. /\ u \in Seq(Stated) /\ Len(u) = m + n
      /\ \A k \in 1..(m + n) : u[k] = IF k <= m THEN s[k] ELSE t[k - m]
  BY ConcatProperties DEF Listed
<1> HIDE DEF u
<1>3. Listed(u, m + n)
  BY <1>1, <1>2 DEF Listed
<1>4. \A k \in 1..m : u[k] = s[k]
  BY <1>1, <1>2
<1>5. ASSUME NEW k \in 1..n PROVE u[m + k] = t[k]
  <2>1. m + k \in 1..(m + n) /\ ~(m + k <= m) /\ (m + k) - m = k
    BY <1>1
  <2> QED
    BY <1>2, <2>1
<1> QED
  BY <1>3, <1>4, <1>5 DEF Follows, u

\* The first block as one list.
LEMMA Version1Is ==
  /\ ToVersion1 \in Seq(Stated) /\ Len(ToVersion1) = 18
  /\ \A k \in 1..8 : ToVersion1[k] = Schema[k]
  /\ ToVersion1[9] = AddColumn("goal_hash") /\ ToVersion1[10] = Index("goal_hash")
  /\ ToVersion1[11] = AddColumn("executions_tier") /\ ToVersion1[12] = AddColumn("cache_tier")
  /\ ToVersion1[13] = AddColumn("cache_goal") /\ ToVersion1[14] = AddColumn("route")
  /\ ToVersion1[15] = AddColumn("cost_usd") /\ ToVersion1[16] = Index("route")
  /\ ToVersion1[17] = Create("others") /\ ToVersion1[18] = SetVersion(1)
<1> DEFINE Rest == <<AddColumn("goal_hash"), Index("goal_hash"), AddColumn("executions_tier"),
                     AddColumn("cache_tier"), AddColumn("cache_goal"), AddColumn("route"),
                     AddColumn("cost_usd"), Index("route"), Create("others"), SetVersion(1)>>
<1>1. /\ AddColumn("goal_hash") \in Stated /\ Index("goal_hash") \in Stated
      /\ AddColumn("executions_tier") \in Stated /\ AddColumn("cache_tier") \in Stated
      /\ AddColumn("cache_goal") \in Stated /\ AddColumn("route") \in Stated
      /\ AddColumn("cost_usd") \in Stated /\ Index("route") \in Stated
      /\ Create("others") \in Stated /\ SetVersion(1) \in Stated
  BY StatedHas, TablesAre, ColumnsAre DEF Indexes
<1>2. /\ Rest \in Seq(Stated) /\ Len(Rest) = 10
      /\ Rest[1] = AddColumn("goal_hash") /\ Rest[2] = Index("goal_hash")
      /\ Rest[3] = AddColumn("executions_tier") /\ Rest[4] = AddColumn("cache_tier")
      /\ Rest[5] = AddColumn("cache_goal") /\ Rest[6] = AddColumn("route")
      /\ Rest[7] = AddColumn("cost_usd") /\ Rest[8] = Index("route")
      /\ Rest[9] = Create("others") /\ Rest[10] = SetVersion(1)
  BY <1>1
<1>3. ToVersion1 = Schema \o Rest
  BY DEF ToVersion1
<1> HIDE DEF Rest
<1>4. /\ ToVersion1 \in Seq(Stated) /\ Len(ToVersion1) = 18
      /\ \A k \in 1..8 : ToVersion1[k] = Schema[k]
      /\ \A k \in 1..10 : ToVersion1[8 + k] = Rest[k]
  <2>1. Listed(Schema, 8) /\ Listed(Rest, 10)
    BY <1>2, SchemaIs DEF Listed
  <2>2. Follows(ToVersion1, Schema, 8, Rest, 10)
    BY <1>3, <2>1, Joined
  <2> QED
    BY <2>2 DEF Follows, Listed
<1>5. /\ ToVersion1[8 + 1] = Rest[1] /\ ToVersion1[8 + 2] = Rest[2] /\ ToVersion1[8 + 3] = Rest[3]
      /\ ToVersion1[8 + 4] = Rest[4] /\ ToVersion1[8 + 5] = Rest[5] /\ ToVersion1[8 + 6] = Rest[6]
      /\ ToVersion1[8 + 7] = Rest[7] /\ ToVersion1[8 + 8] = Rest[8] /\ ToVersion1[8 + 9] = Rest[9]
      /\ ToVersion1[8 + 10] = Rest[10]
  BY <1>4
<1> QED
  BY <1>2, <1>4, <1>5

\* A block stands behind its check.
LEMMA Upgraded ==
  ASSUME NEW v, NEW block, NEW n, Listed(block, n), CheckVersion(v, n) \in Stated
  PROVE  Follows(Upgrade(v, block), <<CheckVersion(v, n)>>, 1, block, n)
<1> DEFINE check == <<CheckVersion(v, n)>>
<1>1. Listed(check, 1)
  BY DEF Listed
<1>2. Upgrade(v, block) = check \o block
  BY DEF Upgrade, Listed
<1> HIDE DEF check
<1>3. Follows(check \o block, check, 1, block, n)
  BY <1>1, Joined
<1>4. Follows(Upgrade(v, block), check, 1, block, n)
  BY <1>2, <1>3
<1> QED
  BY <1>4 DEF check

LEMMA Block2Is ==
  /\ Listed(Upgrade(2, ToVersion2), 3) /\ Upgrade(2, ToVersion2)[1] = CheckVersion(2, 2)
  /\ Upgrade(2, ToVersion2)[2] = Create("bandit_state") /\ Upgrade(2, ToVersion2)[3] = SetVersion(2)
<1>1. Create("bandit_state") \in Stated /\ SetVersion(2) \in Stated
  BY StatedHas, TablesAre
<1>2. /\ Listed(ToVersion2, 2)
      /\ ToVersion2[1] = Create("bandit_state") /\ ToVersion2[2] = SetVersion(2)
  BY <1>1 DEF ToVersion2, Listed
<1>3. Follows(Upgrade(2, ToVersion2), <<CheckVersion(2, 2)>>, 1, ToVersion2, 2)
  BY <1>2, Upgraded, StatedHas
<1>4. /\ Listed(Upgrade(2, ToVersion2), 1 + 2) /\ Upgrade(2, ToVersion2)[1] = CheckVersion(2, 2)
      /\ Upgrade(2, ToVersion2)[1 + 1] = ToVersion2[1] /\ Upgrade(2, ToVersion2)[1 + 2] = ToVersion2[2]
  BY <1>3 DEF Follows
<1> QED
  BY <1>2, <1>4

LEMMA Block3Is ==
  /\ Listed(Upgrade(3, ToVersion3), 3) /\ Upgrade(3, ToVersion3)[1] = CheckVersion(3, 2)
  /\ Upgrade(3, ToVersion3)[2] = AddColumn("token_hash") /\ Upgrade(3, ToVersion3)[3] = SetVersion(3)
<1>1. AddColumn("token_hash") \in Stated /\ SetVersion(3) \in Stated
  BY StatedHas, ColumnsAre
<1>2. /\ Listed(ToVersion3, 2)
      /\ ToVersion3[1] = AddColumn("token_hash") /\ ToVersion3[2] = SetVersion(3)
  BY <1>1 DEF ToVersion3, Listed
<1>3. Follows(Upgrade(3, ToVersion3), <<CheckVersion(3, 2)>>, 1, ToVersion3, 2)
  BY <1>2, Upgraded, StatedHas
<1>4. /\ Listed(Upgrade(3, ToVersion3), 1 + 2) /\ Upgrade(3, ToVersion3)[1] = CheckVersion(3, 2)
      /\ Upgrade(3, ToVersion3)[1 + 1] = ToVersion3[1] /\ Upgrade(3, ToVersion3)[1 + 2] = ToVersion3[2]
  BY <1>3 DEF Follows
<1> QED
  BY <1>2, <1>4

\* The statements, one by one.
LEMMA StatementsAre ==
  /\ Last = 26 /\ DOMAIN Statements = 1..26
  /\ Statements[1] = CheckVersion(1, 18)
  /\ \A k \in 1..18 : Statements[1 + k] = ToVersion1[k]
  /\ Statements[20] = CheckVersion(2, 2)
  /\ Statements[21] = Create("bandit_state") /\ Statements[22] = SetVersion(2)
  /\ Statements[23] = CheckVersion(3, 2)
  /\ Statements[24] = AddColumn("token_hash") /\ Statements[25] = SetVersion(3)
  /\ Statements[26] = Backfill
<1> DEFINE A == Upgrade(1, ToVersion1)
           B == Upgrade(2, ToVersion2)
           C == Upgrade(3, ToVersion3)
           D == <<Backfill>>
           E == A \o B
           F == E \o C
<1>1. Statements = F \o D
  BY DEF Statements
<1>2. /\ Listed(A, 19) /\ A[1] = CheckVersion(1, 18) /\ \A k \in 1..18 : A[1 + k] = ToVersion1[k]
  <2>1. Listed(ToVersion1, 18)
    BY Version1Is DEF Listed
  <2>2. Follows(A, <<CheckVersion(1, 18)>>, 1, ToVersion1, 18)
    BY <2>1, Upgraded, StatedHas
  <2> QED
    BY <2>2 DEF Follows
<1>3. Listed(B, 3) /\ Listed(C, 3)
  BY Block2Is, Block3Is
<1>4. Listed(D, 1) /\ D[1] = Backfill
  BY StatedHas DEF Listed
<1>5. E = A \o B /\ F = E \o C
  OBVIOUS
<1> HIDE DEF A, B, C, D, E, F
<1>6. Follows(E, A, 19, B, 3)
  BY <1>2, <1>3, <1>5, Joined
<1>7. Listed(E, 22)
  BY <1>6 DEF Follows
<1>8. Follows(F, E, 22, C, 3)
  BY <1>3, <1>5, <1>7, Joined
<1>9. Listed(F, 25)
  BY <1>8 DEF Follows
<1>15. Follows(Statements, F, 25, D, 1)
  BY <1>1, <1>4, <1>9, Joined
<1>10. \A k \in 1..19 : Statements[k] = A[k]
  <2> SUFFICES ASSUME NEW k \in 1..19 PROVE Statements[k] = A[k]
    OBVIOUS
  <2>1. k \in 1..22 /\ k \in 1..25
    OBVIOUS
  <2> QED
    BY <1>6, <1>8, <1>15, <2>1 DEF Follows
<1>11. Statements[1] = CheckVersion(1, 18) /\ \A k \in 1..18 : Statements[1 + k] = ToVersion1[k]
  <2>1. 1 \in 1..19 /\ \A k \in 1..18 : 1 + k \in 1..19
    OBVIOUS
  <2> QED
    BY <1>2, <1>10, <2>1
<1>12. DOMAIN Statements = 1..26 /\ Last = 26
  BY <1>15, LenProperties DEF Last, Follows, Listed
<1>13. /\ Statements[20] = B[1] /\ Statements[21] = B[2] /\ Statements[22] = B[3]
       /\ Statements[23] = C[1] /\ Statements[24] = C[2] /\ Statements[25] = C[3]
  <2>1. /\ Statements[20] = F[20] /\ Statements[21] = F[21] /\ Statements[22] = F[22]
        /\ Statements[23] = F[23] /\ Statements[24] = F[24] /\ Statements[25] = F[25]
    BY <1>15 DEF Follows
  <2>2. F[20] = E[20] /\ F[21] = E[21] /\ F[22] = E[22]
    BY <1>8 DEF Follows
  <2>3. E[19 + 1] = B[1] /\ E[19 + 2] = B[2] /\ E[19 + 3] = B[3]
    BY <1>6 DEF Follows
  <2>4. F[22 + 1] = C[1] /\ F[22 + 2] = C[2] /\ F[22 + 3] = C[3]
    BY <1>8 DEF Follows
  <2> QED
    BY <2>1, <2>2, <2>3, <2>4
<1>14. Statements[25 + 1] = D[1]
  BY <1>15 DEF Follows
<1> QED
  BY <1>4, <1>11, <1>12, <1>13, <1>14, Block2Is, Block3Is DEF B, C

-----------------------------------------------------------------------------
(* What the program of statements is. *)

Versions == <<19, 22, 25>>

LEMMA TableOfColumn ==
  /\ TableOf("goal_hash") = "failure_memory" /\ TableOf("executions_tier") = "executions"
  /\ TableOf("token_hash") = "executions" /\ TableOf("cache_tier") = "solution_cache"
  /\ TableOf("cache_goal") = "solution_cache" /\ TableOf("route") = "execution_attempts"
  /\ TableOf("cost_usd") = "execution_attempts"
<1>1. /\ Columns["failure_memory"] = {"goal_hash"}
      /\ Columns["executions"] = {"executions_tier", "token_hash"}
      /\ Columns["solution_cache"] = {"cache_tier", "cache_goal"}
      /\ Columns["execution_attempts"] = {"route", "cost_usd"}
      /\ Columns["bandit_state"] = {} /\ Columns["others"] = {}
  BY DEF Columns
<1>2. ASSUME NEW c, NEW t \in Tables, c \in Columns[t], \A u \in Tables : c \in Columns[u] => u = t
      PROVE  TableOf(c) = t
  BY <1>2 DEF TableOf
<1>3. /\ \A u \in Tables : "goal_hash" \in Columns[u] => u = "failure_memory"
      /\ \A u \in Tables : "executions_tier" \in Columns[u] => u = "executions"
      /\ \A u \in Tables : "token_hash" \in Columns[u] => u = "executions"
      /\ \A u \in Tables : "cache_tier" \in Columns[u] => u = "solution_cache"
      /\ \A u \in Tables : "cache_goal" \in Columns[u] => u = "solution_cache"
      /\ \A u \in Tables : "route" \in Columns[u] => u = "execution_attempts"
      /\ \A u \in Tables : "cost_usd" \in Columns[u] => u = "execution_attempts"
  BY <1>1, TablesAre
<1> QED
  BY <1>1, <1>2, <1>3, TablesAre

LEMMA Numbered ==
  /\ Statements[1] = CheckVersion(1, 18)
  /\ Statements[2] = Create("failure_memory") /\ Statements[3] = Index("goal_hash")
  /\ Statements[4] = Create("executions") /\ Statements[5] = Create("solution_cache")
  /\ Statements[6] = Create("execution_attempts") /\ Statements[7] = Index("route")
  /\ Statements[8] = Create("bandit_state") /\ Statements[9] = Create("others")
  /\ Statements[10] = AddColumn("goal_hash") /\ Statements[11] = Index("goal_hash")
  /\ Statements[12] = AddColumn("executions_tier") /\ Statements[13] = AddColumn("cache_tier")
  /\ Statements[14] = AddColumn("cache_goal") /\ Statements[15] = AddColumn("route")
  /\ Statements[16] = AddColumn("cost_usd") /\ Statements[17] = Index("route")
  /\ Statements[18] = Create("others") /\ Statements[19] = SetVersion(1)
  /\ Statements[20] = CheckVersion(2, 2)
  /\ Statements[21] = Create("bandit_state") /\ Statements[22] = SetVersion(2)
  /\ Statements[23] = CheckVersion(3, 2)
  /\ Statements[24] = AddColumn("token_hash") /\ Statements[25] = SetVersion(3)
<1>1. /\ Statements[1 + 1] = ToVersion1[1] /\ Statements[1 + 2] = ToVersion1[2]
      /\ Statements[1 + 3] = ToVersion1[3] /\ Statements[1 + 4] = ToVersion1[4]
      /\ Statements[1 + 5] = ToVersion1[5] /\ Statements[1 + 6] = ToVersion1[6]
      /\ Statements[1 + 7] = ToVersion1[7] /\ Statements[1 + 8] = ToVersion1[8]
      /\ Statements[1 + 9] = ToVersion1[9] /\ Statements[1 + 10] = ToVersion1[10]
      /\ Statements[1 + 11] = ToVersion1[11] /\ Statements[1 + 12] = ToVersion1[12]
      /\ Statements[1 + 13] = ToVersion1[13] /\ Statements[1 + 14] = ToVersion1[14]
      /\ Statements[1 + 15] = ToVersion1[15] /\ Statements[1 + 16] = ToVersion1[16]
      /\ Statements[1 + 17] = ToVersion1[17] /\ Statements[1 + 18] = ToVersion1[18]
  BY StatementsAre
<1>2. /\ ToVersion1[1] = Schema[1] /\ ToVersion1[2] = Schema[2] /\ ToVersion1[3] = Schema[3]
      /\ ToVersion1[4] = Schema[4] /\ ToVersion1[5] = Schema[5] /\ ToVersion1[6] = Schema[6]
      /\ ToVersion1[7] = Schema[7] /\ ToVersion1[8] = Schema[8]
  BY Version1Is
<1>3. /\ Statements[2] = Create("failure_memory") /\ Statements[3] = Index("goal_hash")
      /\ Statements[4] = Create("executions") /\ Statements[5] = Create("solution_cache")
      /\ Statements[6] = Create("execution_attempts") /\ Statements[7] = Index("route")
      /\ Statements[8] = Create("bandit_state") /\ Statements[9] = Create("others")
  BY <1>1, <1>2, SchemaIs
<1>4. /\ Statements[10] = AddColumn("goal_hash") /\ Statements[11] = Index("goal_hash")
      /\ Statements[12] = AddColumn("executions_tier") /\ Statements[13] = AddColumn("cache_tier")
      /\ Statements[14] = AddColumn("cache_goal") /\ Statements[15] = AddColumn("route")
      /\ Statements[16] = AddColumn("cost_usd") /\ Statements[17] = Index("route")
      /\ Statements[18] = Create("others") /\ Statements[19] = SetVersion(1)
  BY <1>1, Version1Is
<1> QED
  BY <1>3, <1>4, StatementsAre

LEMMA Program ==
  \A k \in 1..25 :
    LET s == Statements[k] IN
    /\ s \in Stated
    /\ s.do = "add" => s.on \in AllColumns /\ \E i \in (1..(k - 1)) \ {8} : Statements[i] = Create(TableOf(s.on))
    /\ s.do = "add" /\ s.on = "token_hash" => k = 24
    /\ s.do = "create" /\ s.on = "bandit_state" => k \in {8, 21}
    /\ s.do = "version" => s.on \in 1..3 /\ Versions[s.on] = k
    /\ s.do = "check" => s.on \in 1..3 /\ k + s.over = Versions[s.on]
<1>5. /\ TableOf("goal_hash") = "failure_memory" /\ TableOf("executions_tier") = "executions"
      /\ TableOf("token_hash") = "executions" /\ TableOf("cache_tier") = "solution_cache"
      /\ TableOf("cache_goal") = "solution_cache" /\ TableOf("route") = "execution_attempts"
      /\ TableOf("cost_usd") = "execution_attempts"
  BY TableOfColumn
<1>6. ASSUME NEW k \in {2, 4, 5, 6, 8, 9, 18, 21}
      PROVE  /\ Statements[k].do = "create" /\ Statements[k] \in Stated
             /\ Statements[k].on = "bandit_state" => k \in {8, 21}
  <2>1. \E t \in Tables : Statements[k] = Create(t) /\ (t = "bandit_state" => k \in {8, 21})
    BY <1>6, Numbered, TablesAre
  <2> QED
    BY <2>1, StatedHas DEF Create
<1>7. ASSUME NEW k \in {3, 7, 11, 17} PROVE Statements[k].do = "index" /\ Statements[k] \in Stated
  <2>1. \E c \in Indexes : Statements[k] = Index(c)
    BY Numbered, <1>7 DEF Indexes
  <2> QED
    BY <2>1, StatedHas DEF Index
<1>8. ASSUME NEW k \in {10, 12, 13, 14, 15, 16, 24}
      PROVE  /\ Statements[k].do = "add" /\ Statements[k] \in Stated /\ Statements[k].on \in AllColumns
             /\ \E i \in (1..(k - 1)) \ {8} : Statements[i] = Create(TableOf(Statements[k].on))
             /\ Statements[k].on = "token_hash" => k = 24
  <2>1. PICK c \in AllColumns : Statements[k] = AddColumn(c) /\ (c = "token_hash" => k = 24)
                                 /\ \E i \in (1..(k - 1)) \ {8} : Statements[i] = Create(TableOf(c))
    <3>1. CASE k = 10
      BY Numbered, <1>5, <3>1, ColumnsAre
    <3>2. CASE k = 12
      BY Numbered, <1>5, <3>2, ColumnsAre
    <3>3. CASE k = 13
      BY Numbered, <1>5, <3>3, ColumnsAre
    <3>4. CASE k = 14
      BY Numbered, <1>5, <3>4, ColumnsAre
    <3>5. CASE k = 15
      BY Numbered, <1>5, <3>5, ColumnsAre
    <3>6. CASE k = 16
      BY Numbered, <1>5, <3>6, ColumnsAre
    <3>7. CASE k = 24
      BY <1>5, <3>7, ColumnsAre, Numbered
    <3> QED
      BY <1>8, <3>1, <3>2, <3>3, <3>4, <3>5, <3>6, <3>7
  <2>2. Statements[k].do = "add" /\ Statements[k].on = c
    BY <2>1 DEF AddColumn
  <2> QED
    BY <2>1, <2>2, StatedHas
<1>9. ASSUME NEW k \in {19, 22, 25}
      PROVE  /\ Statements[k].do = "version" /\ Statements[k] \in Stated
             /\ Statements[k].on \in 1..3 /\ Versions[Statements[k].on] = k
  <2>1. PICK v \in 1..3 : Statements[k] = SetVersion(v) /\ Versions[v] = k
    BY <1>9, Numbered DEF Versions
  <2>2. Statements[k].do = "version" /\ Statements[k].on = v
    BY <2>1 DEF SetVersion
  <2> QED
    BY <2>1, <2>2, StatedHas
<1>10. ASSUME NEW k \in {1, 20, 23}
       PROVE  /\ Statements[k].do = "check" /\ Statements[k] \in Stated
              /\ Statements[k].on \in 1..3 /\ k + Statements[k].over = Versions[Statements[k].on]
  <2>1. CASE k = 1
    BY <2>1, Numbered, StatedHas DEF CheckVersion, Versions
  <2>2. CASE k = 20
    BY <2>2, Numbered, StatedHas DEF CheckVersion, Versions
  <2>3. CASE k = 23
    BY <2>3, Numbered, StatedHas DEF CheckVersion, Versions
  <2> QED
    BY <1>10, <2>1, <2>2, <2>3
<1>11. \A k \in 1..25 : \/ k \in {2, 4, 5, 6, 8, 9, 18, 21} \/ k \in {3, 7, 11, 17}
                        \/ k \in {10, 12, 13, 14, 15, 16, 24} \/ k \in {19, 22, 25} \/ k \in {1, 20, 23}
  OBVIOUS
<1> QED
  BY <1>6, <1>7, <1>8, <1>9, <1>10, <1>11

\* The statements up to n bring about every table, column and index.
LEMMA Complete ==
  /\ \A t \in Tables \ {"bandit_state"} : \E k \in (1..19) \ {8} : Statements[k] = Create(t)
  /\ \A c \in AllColumns \ {"token_hash"} : \E k \in (1..19) \ {8} : Statements[k] = AddColumn(c)
  /\ \A c \in Indexes : \E k \in (1..19) \ {8} : Statements[k] = Index(c)
  /\ Statements[21] = Create("bandit_state") /\ Statements[24] = AddColumn("token_hash")
<1>1. \A t \in Tables \ {"bandit_state"} : \E k \in (1..19) \ {8} : Statements[k] = Create(t)
  BY Numbered, TablesAre
<1>2. \A c \in AllColumns \ {"token_hash"} : \E k \in (1..19) \ {8} : Statements[k] = AddColumn(c)
  BY Numbered, ColumnsAre
<1>3. \A c \in Indexes : \E k \in (1..19) \ {8} : Statements[k] = Index(c)
  BY Numbered DEF Indexes
<1> QED
  BY <1>1, <1>2, <1>3, Numbered

-----------------------------------------------------------------------------
(* The invariant. *)

\* What s was to bring about is there; the one ALTER whose error is ignored may have failed.
Took(s) ==
  /\ s.do = "create" => s.on \in db.tables
  /\ s.do = "index" => s.on \in db.indexes
  /\ s.do = "add" => s.on \in db.columns \/ (ignored /\ s.on = "token_hash")

\* The first n statements took.  The eighth, the bandit's table, is left out: a file of version 1 may be
\* without it, and gets it from statement 21.
TookTo(n) == \A k \in (1..n) \ {8} : Took(Statements[k])

MigrationInv ==
  /\ MigrationTypeOK
  /\ \A v \in 1..3 : db.version >= v => TookTo(Versions[v])
  /\ \A p \in Openers, n \in 0..25 : step[p] = n + 1 => TookTo(n)
  /\ \A p \in Openers : opened[p] = "ok" => TookTo(25) /\ unhashed = {}

LEMMA TookAll ==
  ASSUME TookTo(19)
  PROVE  /\ Tables \ {"bandit_state"} \subseteq db.tables
         /\ AllColumns \ {"token_hash"} \subseteq db.columns
         /\ Indexes \subseteq db.indexes
<1>1. ASSUME NEW t \in Tables \ {"bandit_state"} PROVE t \in db.tables
  <2>1. PICK k \in (1..19) \ {8} : Statements[k] = Create(t)
    BY Complete
  <2>2. Took(Create(t))
    BY <2>1 DEF TookTo
  <2> QED
    BY <2>2 DEF Took, Create
<1>2. ASSUME NEW c \in AllColumns \ {"token_hash"} PROVE c \in db.columns
  <2>1. PICK k \in (1..19) \ {8} : Statements[k] = AddColumn(c)
    BY Complete
  <2>2. Took(AddColumn(c))
    BY <2>1 DEF TookTo
  <2> QED
    BY <2>2 DEF Took, AddColumn
<1>3. ASSUME NEW c \in Indexes PROVE c \in db.indexes
  <2>1. PICK k \in (1..19) \ {8} : Statements[k] = Index(c)
    BY Complete
  <2>2. Took(Index(c))
    BY <2>1 DEF TookTo
  <2> QED
    BY <2>2 DEF Took, Index
<1> QED
  BY <1>1, <1>2, <1>3

LEMMA TookFewer == ASSUME NEW m \in Nat, NEW n \in Nat, m <= n, TookTo(n) PROVE TookTo(m)
BY DEF TookTo

\* Nothing is taken back.
Grows ==
  /\ db.tables \subseteq db'.tables /\ db.columns \subseteq db'.columns /\ db.indexes \subseteq db'.indexes
  /\ ignored => ignored'

LEMMA TookStays == ASSUME Grows, NEW n, TookTo(n) PROVE TookTo(n)'
<1> SUFFICES ASSUME NEW k \in (1..n) \ {8} PROVE Took(Statements[k])'
  BY DEF TookTo
<1>1. Took(Statements[k])
  BY DEF TookTo
<1> DEFINE s == Statements[k]
<1>2. Took(s) /\ s' = s
  BY <1>1
<1> HIDE DEF s
<1>3. Took(s)'
  BY <1>2 DEF Took, Grows
<1> QED
  BY <1>3 DEF s

VersionsKept == \A v \in 1..3 : db.version >= v => TookTo(Versions[v])
StepsTook == \A p \in Openers, n \in 0..25 : step[p] = n + 1 => TookTo(n)
OpenTook == \A p \in Openers : opened[p] = "ok" => TookTo(25) /\ unhashed = {}

LEMMA InvParts == MigrationInv <=> MigrationTypeOK /\ VersionsKept /\ StepsTook /\ OpenTook
BY DEF MigrationInv, VersionsKept, StepsTook, OpenTook

LEMMA MigrationInitInv == MigrationInit => MigrationInv
<1> SUFFICES ASSUME MigrationInit PROVE MigrationInv
  OBVIOUS
<1>1. MigrationTypeOK
  <2>1. db \in FileLayouts
    BY DEF MigrationInit, EmptyFile, FileLayouts
  <2>2. step \in [Openers -> 0..Last]
    BY StatementsAre DEF MigrationInit
  <2>3. opened \in [Openers -> {"no", "ok", "locked", "refused"}] /\ ignored \in BOOLEAN /\ unhashed = {}
    BY DEF MigrationInit
  <2> QED
    BY <2>1, <2>2, <2>3 DEF MigrationTypeOK
<1>2. VersionsKept
  BY DEF MigrationInit, EmptyFile, VersionsKept
<1>3. StepsTook
  BY DEF MigrationInit, StepsTook
<1>4. OpenTook
  BY DEF MigrationInit, OpenTook
<1> QED
  BY <1>1, <1>2, <1>3, <1>4, InvParts

\* A step that adds to the file, writes no version, and moves one opener.
LEMMA OpenerMoves ==
  ASSUME MigrationInv, Grows, MigrationTypeOK', unhashed' \subseteq unhashed, NEW p \in Openers,
         db'.version = db.version \/ VersionsKept',
         \A q \in Openers : q # p => step'[q] = step[q] /\ opened'[q] = opened[q],
         \A n \in 0..25 : step'[p] = n + 1 => TookTo(n)',
         opened'[p] = "ok" => TookTo(25) /\ unhashed' = {}
  PROVE  MigrationInv'
<1>1. VersionsKept'
  <2>1. ASSUME db'.version = db.version, NEW v \in 1..3, db'.version >= v PROVE TookTo(Versions[v])'
    <3>1. TookTo(Versions[v])
      BY <2>1 DEF MigrationInv
    <3> QED
      BY <3>1, TookStays
  <2> QED
    BY <2>1 DEF VersionsKept
<1>2. StepsTook'
  <2>1. ASSUME NEW q \in Openers, NEW n \in 0..25, step'[q] = n + 1 PROVE TookTo(n)'
    <3>1. CASE q = p
      BY <2>1, <3>1
    <3>2. CASE q # p
      <4>1. TookTo(n)
        BY <2>1, <3>2 DEF MigrationInv
      <4> QED
        BY <4>1, TookStays
    <3> QED
      BY <3>1, <3>2
  <2> QED
    BY <2>1 DEF StepsTook
<1>3. OpenTook'
  <2>1. ASSUME NEW q \in Openers, opened'[q] = "ok" PROVE TookTo(25)' /\ unhashed' = {}
    <3>1. TookTo(25) /\ unhashed' = {}
      BY <2>1 DEF MigrationInv
    <3> QED
      BY <3>1, TookStays
  <2> QED
    BY <2>1 DEF OpenTook
<1> QED
  BY <1>1, <1>2, <1>3 DEF MigrationInv, VersionsKept, StepsTook, OpenTook

LEMMA StatedKinds ==
  ASSUME NEW s \in Stated
  PROVE  /\ s.do \in {"create", "index", "add", "version", "backfill", "check"}
         /\ s.do = "create" => s.on \in Tables
         /\ s.do = "index" => s.on \in Indexes
         /\ s.do = "version" => s.on \in 1..3
         /\ s.do = "check" => s.over \in {2, 18}
<1>1. \A t \in Tables : s = Create(t) => s.do = "create" /\ s.on = t
  BY DEF Create
<1>2. \A c \in Indexes : s = Index(c) => s.do = "index" /\ s.on = c
  BY DEF Index
<1>3. \A c \in AllColumns : s = AddColumn(c) => s.do = "add"
  BY DEF AddColumn
<1>4. \A v \in 1..3 : s = SetVersion(v) => s.do = "version" /\ s.on = v
  BY DEF SetVersion
<1>5. Backfill.do = "backfill"
  BY DEF Backfill
<1>6. \A v \in 1..3, n \in {2, 18} : s = CheckVersion(v, n) => s.do = "check" /\ s.over = n
  BY DEF CheckVersion
<1>7. \/ \E t \in Tables : s = Create(t)
      \/ \E c \in Indexes : s = Index(c)
      \/ \E c \in AllColumns : s = AddColumn(c)
      \/ \E v \in 1..3 : s = SetVersion(v)
      \/ s = Backfill
      \/ \E v \in 1..3, n \in {2, 18} : s = CheckVersion(v, n)
  BY DEF Stated
<1> QED
  BY <1>1, <1>2, <1>3, <1>4, <1>5, <1>6, <1>7

\* What a statement that is possible leaves.
LEMMA DoneBrings ==
  ASSUME MigrationTypeOK, NEW s \in Stated, Possible(s), db' = Done(s), ignored' = ignored,
         s.do = "add" => s.on \in AllColumns /\ TableOf(s.on) \in db.tables
  PROVE  /\ db' \in FileLayouts /\ Grows /\ Took(s)'
         /\ s.do # "version" => db'.version = db.version
         /\ s.do = "version" => db'.version = s.on
<1>1. /\ db \in FileLayouts /\ db.tables \subseteq Tables /\ db.columns \subseteq AllColumns
      /\ db.indexes \subseteq Indexes /\ db.version \in 0..3
  BY DEF MigrationTypeOK, FileLayouts
<1>2. CASE s.do = "create" /\ s.on \notin db.tables
  <2>1. db' = [db EXCEPT !.tables = @ \union {s.on}, !.columns = @ \union Columns[s.on]]
    BY <1>2 DEF Done
  <2>2. s.on \in Tables /\ Columns[s.on] \subseteq AllColumns
    BY <1>2, StatedKinds DEF AllColumns
  <2>3. /\ db'.tables = db.tables \union {s.on} /\ db'.columns = db.columns \union Columns[s.on]
        /\ db'.indexes = db.indexes /\ db'.version = db.version /\ db' \in FileLayouts
    BY <1>1, <2>1, <2>2 DEF FileLayouts
  <2> QED
    BY <1>2, <2>3 DEF Grows, Took
<1>3. CASE s.do = "create" /\ s.on \in db.tables
  <2>1. db' = db
    BY <1>3 DEF Done
  <2> QED
    BY <1>1, <1>3, <2>1 DEF Grows, Took
<1>4. CASE s.do = "index"
  <2>1. db' = [db EXCEPT !.indexes = @ \union {s.on}]
    BY <1>4 DEF Done
  <2>2. s.on \in Indexes
    BY <1>4, StatedKinds
  <2>3. /\ db'.tables = db.tables /\ db'.columns = db.columns
        /\ db'.indexes = db.indexes \union {s.on} /\ db'.version = db.version /\ db' \in FileLayouts
    BY <1>1, <2>1, <2>2 DEF FileLayouts
  <2> QED
    BY <1>4, <2>3 DEF Grows, Took
<1>5. CASE s.do = "add"
  <2>1. db' = [db EXCEPT !.columns = @ \union {s.on}]
    BY <1>5 DEF Done
  <2>2. /\ db'.tables = db.tables /\ db'.columns = db.columns \union {s.on}
        /\ db'.indexes = db.indexes /\ db'.version = db.version /\ db' \in FileLayouts
    BY <1>1, <1>5, <2>1 DEF FileLayouts
  <2> QED
    BY <1>5, <2>2 DEF Grows, Took
<1>6. CASE s.do = "version"
  <2>1. db' = [db EXCEPT !.version = s.on]
    BY <1>6 DEF Done
  <2>2. s.on \in 0..3
    BY <1>6, StatedKinds
  <2>3. /\ db'.tables = db.tables /\ db'.columns = db.columns
        /\ db'.indexes = db.indexes /\ db'.version = s.on /\ db' \in FileLayouts
    BY <1>1, <2>1, <2>2 DEF FileLayouts
  <2> QED
    BY <1>6, <2>3 DEF Grows, Took
<1>7. CASE s.do \in {"backfill", "check"}
  <2>1. db' = db
    BY <1>7 DEF Done
  <2> QED
    BY <1>1, <1>7, <2>1 DEF Grows, Took
<1> QED
  BY <1>2, <1>3, <1>4, <1>5, <1>6, <1>7, StatedKinds

LEMMA VersionValues == \A v \in 1..3 : Versions[v] \in 19..25 /\ \A w \in 1..v : Versions[w] <= Versions[v]
BY DEF Versions

LEMMA ExecuteStep == ASSUME MigrationInv, NEW p \in Openers, Execute(p) PROVE MigrationInv'
<1>1. PICK n \in 0..24 : step[p] = n + 1
  BY StatementsAre DEF Execute
<1> DEFINE k == n + 1
           s == Statements[k]
           next == IF s.do = "check" /\ db.version >= s.on THEN k + 1 + s.over ELSE k + 1
<1>2. /\ k \in 1..25 /\ Possible(s) /\ db' = Done(s) /\ step' = [step EXCEPT ![p] = next]
      /\ UNCHANGED <<unhashed, opened, ignored>>
  BY <1>1 DEF Execute
<1>3. /\ s \in Stated
      /\ s.do = "add" => s.on \in AllColumns /\ \E i \in (1..(k - 1)) \ {8} : Statements[i] = Create(TableOf(s.on))
      /\ s.do = "version" => s.on \in 1..3 /\ Versions[s.on] = k
      /\ s.do = "check" => s.on \in 1..3 /\ k + s.over = Versions[s.on]
  BY <1>2, Program
<1>4. MigrationTypeOK /\ TookTo(n)
  BY <1>1 DEF MigrationInv
<1>5. s.do = "add" => TableOf(s.on) \in db.tables
  <2> SUFFICES ASSUME s.do = "add" PROVE TableOf(s.on) \in db.tables
    OBVIOUS
  <2>1. PICK i \in (1..(k - 1)) \ {8} : Statements[i] = Create(TableOf(s.on))
    BY <1>3
  <2>2. i \in (1..n) \ {8}
    BY <2>1
  <2>3. Took(Create(TableOf(s.on)))
    BY <1>4, <2>1, <2>2 DEF TookTo
  <2> QED
    BY <2>3 DEF Took, Create
<1> HIDE DEF s
<1>6. /\ db' \in FileLayouts /\ Grows /\ Took(s)'
      /\ s.do # "version" => db'.version = db.version
      /\ s.do = "version" => db'.version = s.on
  BY <1>2, <1>3, <1>4, <1>5, DoneBrings
<1>7. TookTo(n)'
  BY <1>4, <1>6, TookStays
<1>8. TookTo(n + 1)'
  <2> SUFFICES ASSUME NEW j \in (1..(n + 1)) \ {8} PROVE Took(Statements[j])'
    BY DEF TookTo
  <2>1. CASE j = n + 1
    <3>1. Statements[j] = s
      BY <2>1 DEF s
    <3> QED
      BY <1>6, <3>1
  <2>2. CASE j # n + 1
    BY <1>7, <2>2 DEF TookTo
  <2> QED
    BY <2>1, <2>2
<1>9. s.do = "version" => VersionsKept'
  <2> SUFFICES ASSUME s.do = "version", NEW v \in 1..3, db'.version >= v PROVE TookTo(Versions[v])'
    BY DEF VersionsKept
  <2>1. s.on \in 1..3 /\ Versions[s.on] = n + 1 /\ v \in 1..s.on
    BY <1>3, <1>6
  <2>2. Versions[v] \in Nat /\ Versions[v] <= n + 1
    BY <2>1, VersionValues
  <2> QED
    BY <1>8, <2>2 DEF TookTo
<1>10. next \in 1..26 /\ \A m \in 0..25 : next = m + 1 => TookTo(m)'
  <2>1. CASE s.do = "check" /\ db.version >= s.on
    <3>1. PICK v \in 1..3 : s.on = v
      BY <1>3, <2>1
    <3>2. TookTo(Versions[v])
      BY <2>1, <3>1 DEF MigrationInv
    <3>3. TookTo(Versions[v])'
      BY <1>6, <3>2, TookStays
    <3>4. next = Versions[v] + 1 /\ Versions[v] \in 19..25
      <4>1. k + s.over = Versions[v] /\ Versions[v] \in 19..25 /\ k \in Int
        BY <1>2, <1>3, <2>1, <3>1, VersionValues
      <4>2. next = k + 1 + s.over
        BY <2>1
      <4>3. s.over \in Int
        <5>1. s.over \in {18, 2}
          BY <1>3, <2>1, StatedKinds
        <5> QED
          BY <5>1
      <4> QED
        BY <4>1, <4>2, <4>3
    <3> QED
      BY <3>3, <3>4
  <2>2. CASE ~(s.do = "check" /\ db.version >= s.on)
    <3>1. next = n + 2
      BY <2>2
    <3> HIDE DEF next
    <3>2. \A m \in 0..25 : next = m + 1 => m = n + 1
      BY <3>1
    <3> QED
      BY <1>8, <3>1, <3>2
  <2> QED
    BY <2>1, <2>2
<1>11. step' \in [Openers -> 0..26] /\ step'[p] = next /\ \A q \in Openers : q # p => step'[q] = step[q]
  <2> HIDE DEF next
  <2>1. step \in [Openers -> 0..26]
    BY <1>4, StatementsAre DEF MigrationTypeOK
  <2> QED
    BY <1>2, <1>10, <2>1
<1>12. MigrationTypeOK'
  BY <1>2, <1>4, <1>6, <1>11, StatementsAre DEF MigrationTypeOK
<1>13. opened'[p] = "ok" => TookTo(25) /\ unhashed' = {}
  BY <1>2 DEF MigrationInv
<1> HIDE DEF next
<1>14. \A m \in 0..25 : step'[p] = m + 1 => TookTo(m)'
  BY <1>10, <1>11
<1> QED
  BY <1>2, <1>6, <1>9, <1>11, <1>12, <1>13, <1>14, OpenerMoves

LEMMA FindStep == ASSUME MigrationInv, FindFile PROVE MigrationInv'
<1>1. /\ db = EmptyFile /\ (\A q \in Openers : step[q] = 0) /\ db' \in Layouts
      /\ UNCHANGED <<step, opened, ignored>>
  BY DEF FindFile
<1>2. MigrationTypeOK'
  <2>1. unhashed' \subseteq OldTasks
    BY DEF FindFile
  <2>2. db' \in FileLayouts
    BY <1>1, MigrationAssumption
  <2> QED
    BY <1>1, <2>1, <2>2 DEF MigrationInv, MigrationTypeOK
<1>3. VersionsKept'
  <2>1. PICK f \in Layouts : db' = f
    BY <1>1
  <2>2. f \in FileLayouts /\ f.version \in 0..3
    BY MigrationAssumption DEF FileLayouts
  <2> SUFFICES ASSUME NEW v \in 1..3, f.version >= v, NEW k \in (1..Versions[v]) \ {8}
               PROVE  Took(Statements[k])'
    BY <2>1 DEF VersionsKept, TookTo
  <2>3. Versions[v] \in 19..25
    BY VersionValues
  <2>4. k \in 1..25 /\ Statements[k] \in Stated
    BY <2>3, Program
  <2>5. /\ f.version >= 1 /\ Tables \ {"bandit_state"} \subseteq f.tables
        /\ AllColumns \ {"token_hash"} \subseteq f.columns /\ f.indexes = Indexes
    BY <2>2, MigrationAssumption
  <2> DEFINE s == Statements[k]
  <2>6. s.do = "create" => s.on \in f.tables
    <3> SUFFICES ASSUME s.do = "create" PROVE s.on \in f.tables
      OBVIOUS
    <3>1. s.on \in Tables
      BY <2>4, StatedKinds
    <3>2. CASE s.on # "bandit_state"
      BY <2>5, <3>1, <3>2
    <3>3. CASE s.on = "bandit_state"
      <4>1. f.version >= 2
        <5>1. k = 21
          BY <2>4, <3>3, Program
        <5>2. v # 1
          BY <5>1 DEF Versions
        <5> QED
          BY <2>2, <5>2
      <4> QED
        BY <3>3, <4>1, MigrationAssumption
    <3> QED
      BY <3>2, <3>3
  <2>7. s.do = "index" => s.on \in f.indexes
    BY <2>4, <2>5, StatedKinds
  <2>8. s.do = "add" => s.on \in f.columns
    <3> SUFFICES ASSUME s.do = "add" PROVE s.on \in f.columns
      OBVIOUS
    <3>1. s.on \in AllColumns
      BY <2>4, Program
    <3>2. CASE s.on # "token_hash"
      BY <2>5, <3>1, <3>2
    <3>3. CASE s.on = "token_hash"
      <4>1. f.version >= 3
        <5>1. k = 24
          BY <2>4, <3>3, Program
        <5>2. v # 1 /\ v # 2
          BY <5>1 DEF Versions
        <5> QED
          BY <2>2, <5>2
      <4> QED
        BY <3>3, <4>1, MigrationAssumption
    <3> QED
      BY <3>2, <3>3
  <2> HIDE DEF s
  <2>9. Took(s)'
    BY <2>1, <2>6, <2>7, <2>8 DEF Took
  <2> QED
    BY <2>9 DEF s
<1>4. StepsTook'
  BY <1>1 DEF StepsTook
<1>5. OpenTook'
  <2>1. ASSUME NEW q \in Openers, opened[q] = "ok" PROVE FALSE
    <3>1. TookTo(25)
      BY <2>1 DEF MigrationInv
    <3>2. TookTo(19)
      BY <3>1 DEF TookTo
    <3>3. "others" \in db.tables
      BY <3>2, TookAll, TablesAre
    <3> QED
      BY <1>1, <3>3 DEF EmptyFile
  <2> QED
    BY <1>1, <2>1 DEF OpenTook
<1> QED
  BY <1>2, <1>3, <1>4, <1>5 DEF MigrationInv, VersionsKept, StepsTook, OpenTook

LEMMA OtherSteps ==
  ASSUME MigrationInv, NEW p \in Openers,
         StartOpen(p) \/ Refuse(p) \/ IgnoreError(p) \/ BackfillTask(p) \/ FinishOpen(p) \/ StopOpening(p)
  PROVE  MigrationInv'
<1>1. db' = db /\ unhashed' \subseteq unhashed /\ (ignored => ignored') /\ MigrationTypeOK
  BY DEF StartOpen, Refuse, IgnoreError, BackfillTask, FinishOpen, StopOpening, MigrationInv
<1>2. Grows
  BY <1>1 DEF Grows
<1>3. step \in [Openers -> 0..26] /\ opened \in [Openers -> {"no", "ok", "locked", "refused"}]
      /\ ignored \in BOOLEAN
  BY <1>1, StatementsAre DEF MigrationTypeOK
<1>4. ASSUME step' \in [Openers -> 0..26], opened' \in [Openers -> {"no", "ok", "locked", "refused"}],
             ignored' \in BOOLEAN
      PROVE  MigrationTypeOK'
  BY <1>1, <1>4, StatementsAre DEF MigrationTypeOK
<1>5. CASE StartOpen(p)
  <2>1. step' = [step EXCEPT ![p] = 1] /\ opened' = [opened EXCEPT ![p] = "no"] /\ ignored' = ignored
    BY <1>5 DEF StartOpen
  <2>2. MigrationTypeOK'
    BY <1>3, <1>4, <2>1
  <2>3. TookTo(0)'
    BY DEF TookTo
  <2>4. (\A n \in 0..25 : step'[p] = n + 1 => TookTo(n)') /\ opened'[p] # "ok"
    BY <1>3, <2>1, <2>3
  <2>5. \A q \in Openers : q # p => step'[q] = step[q] /\ opened'[q] = opened[q]
    BY <1>3, <2>1
  <2> QED
    BY <1>1, <1>2, <2>2, <2>4, <2>5, OpenerMoves
<1>6. CASE Refuse(p) \/ StopOpening(p)
  <2>1. PICK o \in {"refused", "locked"} :
          step' = [step EXCEPT ![p] = 0] /\ opened' = [opened EXCEPT ![p] = o] /\ ignored' = ignored
    BY <1>6 DEF Refuse, StopOpening
  <2>2. MigrationTypeOK'
    BY <1>3, <1>4, <2>1
  <2>3. (\A n \in 0..25 : step'[p] # n + 1) /\ opened'[p] # "ok"
    BY <1>3, <2>1
  <2>4. \A q \in Openers : q # p => step'[q] = step[q] /\ opened'[q] = opened[q]
    BY <1>3, <2>1
  <2> QED
    BY <1>1, <1>2, <2>2, <2>3, <2>4, OpenerMoves
<1>7. CASE IgnoreError(p)
  <2>1. PICK n \in 0..24 : step[p] = n + 1
    BY <1>7, StatementsAre DEF IgnoreError
  <2>2. /\ Statements[n + 1] = AddColumn("token_hash") /\ ignored' = TRUE
        /\ step' = [step EXCEPT ![p] = n + 2] /\ opened' = opened
    BY <1>7, <2>1 DEF IgnoreError
  <2>3. MigrationTypeOK'
    BY <1>3, <1>4, <2>2
  <2>4. TookTo(n)'
    <3>1. TookTo(n)
      BY <2>1 DEF MigrationInv
    <3> QED
      BY <1>2, <3>1, TookStays
  <2>5. TookTo(n + 1)'
    <3> SUFFICES ASSUME NEW j \in (1..(n + 1)) \ {8} PROVE Took(Statements[j])'
      BY DEF TookTo
    <3>1. CASE j = n + 1
      <4>1. Took(AddColumn("token_hash"))'
        BY <2>2 DEF Took, AddColumn
      <4> QED
        BY <2>2, <3>1, <4>1
    <3>2. CASE j # n + 1
      BY <2>4, <3>2 DEF TookTo
    <3> QED
      BY <3>1, <3>2
  <2>6. step'[p] = n + 2 /\ \A m \in 0..25 : n + 2 = m + 1 => m = n + 1
    BY <1>3, <2>2
  <2>7. \A m \in 0..25 : step'[p] = m + 1 => TookTo(m)'
    BY <2>5, <2>6
  <2>8. \A q \in Openers : q # p => step'[q] = step[q] /\ opened'[q] = opened[q]
    BY <1>3, <2>2
  <2>9. opened'[p] = "ok" => TookTo(25) /\ unhashed' = {}
    BY <1>1, <2>2 DEF MigrationInv
  <2> QED
    BY <1>1, <1>2, <2>3, <2>7, <2>8, <2>9, OpenerMoves
<1>8. CASE BackfillTask(p)
  <2>1. UNCHANGED <<step, opened, ignored>>
    BY <1>8 DEF BackfillTask
  <2>2. MigrationTypeOK'
    BY <1>3, <1>4, <2>1
  <2>3. ASSUME NEW n \in 0..25, step'[p] = n + 1 PROVE TookTo(n)'
    <3>1. TookTo(n)
      BY <2>1, <2>3 DEF MigrationInv
    <3> QED
      BY <1>2, <3>1, TookStays
  <2>4. opened'[p] = "ok" => TookTo(25) /\ unhashed' = {}
    BY <1>1, <2>1 DEF MigrationInv
  <2> QED
    BY <1>1, <1>2, <2>1, <2>2, <2>3, <2>4, OpenerMoves
<1>9. CASE FinishOpen(p)
  <2>1. /\ step[p] = 26 /\ unhashed = {} /\ step' = [step EXCEPT ![p] = 0]
        /\ opened' = [opened EXCEPT ![p] = "ok"] /\ ignored' = ignored
    BY <1>9, StatementsAre DEF FinishOpen
  <2>2. MigrationTypeOK'
    BY <1>3, <1>4, <2>1
  <2>3. TookTo(25) /\ unhashed' = {}
    <3>1. step[p] = 25 + 1
      BY <2>1
    <3> QED
      BY <1>1, <2>1, <3>1 DEF MigrationInv
  <2>4. \A n \in 0..25 : step'[p] # n + 1
    BY <1>3, <2>1
  <2>5. \A q \in Openers : q # p => step'[q] = step[q] /\ opened'[q] = opened[q]
    BY <1>3, <2>1
  <2> QED
    BY <1>1, <1>2, <2>2, <2>3, <2>4, <2>5, OpenerMoves
<1> QED
  BY <1>5, <1>6, <1>7, <1>8, <1>9

LEMMA MigrationStep == MigrationInv /\ [MigrationNext]_migrationVars => MigrationInv'
<1>1. ASSUME MigrationInv, UNCHANGED migrationVars PROVE MigrationInv'
  <2>1. UNCHANGED <<db, unhashed, step, opened, ignored>>
    BY <1>1 DEF migrationVars
  <2>2. \A n : TookTo(n)' <=> TookTo(n)
    BY <2>1 DEF TookTo, Took
  <2> QED
    BY <1>1, <2>1, <2>2 DEF MigrationInv, MigrationTypeOK
<1> QED
  BY <1>1, FindStep, ExecuteStep, OtherSteps DEF MigrationNext

\* However many processes open or upgrade one file, whatever they found there and wherever they stop, a
\* store that opened has the layout of this build, and the version never promises more than the file
\* holds (store.rs:308-451).
THEOREM LayoutKept == MigrationSpec => []LayoutIsHonest
<1>1. MigrationInv => LayoutIsHonest
  <2> SUFFICES ASSUME MigrationInv PROVE LayoutIsHonest
    OBVIOUS
  <2>1. /\ db.tables \subseteq Tables /\ db.columns \subseteq AllColumns
        /\ db.indexes \subseteq Indexes /\ db.version \in 0..3
    BY DEF MigrationInv, MigrationTypeOK, FileLayouts
  <2>2. ASSUME TookTo(22) PROVE "bandit_state" \in db.tables
    <3>1. Took(Create("bandit_state"))
      BY <2>2, Complete DEF TookTo
    <3> QED
      BY <3>1 DEF Took, Create
  <2>3. ASSUME TookTo(25) PROVE TookTo(19) /\ TookTo(22) /\ Current(db.columns)
    <3>1. TookTo(19) /\ TookTo(22)
      BY <2>3 DEF TookTo
    <3>2. AllColumns \ {"token_hash"} \subseteq db.columns
      BY <3>1, TookAll
    <3>3. Took(AddColumn("token_hash"))
      BY <2>3, Complete DEF TookTo
    <3>4. "token_hash" \in db.columns \/ ignored
      BY <3>3 DEF Took, AddColumn
    <3> QED
      BY <2>1, <3>1, <3>2, <3>4 DEF Current
  <2>4. ASSUME NEW v \in 1..3, db.version >= v PROVE TookTo(Versions[v])
    BY <2>4 DEF MigrationInv
  <2>5. (db.version >= 1 => TookTo(19)) /\ (db.version >= 2 => TookTo(22)) /\ (db.version >= 3 => TookTo(25))
    BY <2>4 DEF Versions
  <2>6. ASSUME NEW p \in Openers, opened[p] = "ok"
        PROVE  db.tables = Tables /\ Current(db.columns) /\ db.indexes = Indexes /\ unhashed = {}
    <3>1. TookTo(25) /\ unhashed = {}
      BY <2>6 DEF MigrationInv
    <3>2. TookTo(19) /\ "bandit_state" \in db.tables /\ Current(db.columns)
      BY <2>2, <2>3, <3>1
    <3> QED
      BY <2>1, <3>1, <3>2, TookAll
  <2>7. db.version >= 1 => Tables \ {"bandit_state"} \subseteq db.tables
    BY <2>5, TookAll
  <2>8. db.version >= 1 => AllColumns \ {"token_hash"} \subseteq db.columns
    BY <2>5, TookAll
  <2> QED
    BY <2>2, <2>3, <2>5, <2>6, <2>7, <2>8 DEF LayoutIsHonest
<1> QED
  BY <1>1, MigrationInitInv, MigrationStep, PTL DEF MigrationSpec

-----------------------------------------------------------------------------
(***************************************************************************)
(* Everything that is kept, in the database and on disk, keeps its type.   *)
(***************************************************************************)

\* What the arguments above have no use for.
LEMMA OutlivedTyped ==
  ASSUME CacheInv, AlikeOnly, CacheTypeOK, [CacheNext]_cacheVars PROVE CacheTypeOK'
<1>1. CacheInv' /\ AlikeOnly'
  BY CacheStep, AlikeStep
<1>2. outlived \subseteq CacheKeys /\ CacheKeys' = CacheKeys /\ asking \in [Asks -> CacheKeys]
  BY DEF CacheTypeOK, CacheKeys
<1>3. outlived' \subseteq CacheKeys
  <2>1. ASSUME NEW r \in Asks, \/ Ask(r) \/ PeekExact(r) \/ PeekAlike(r) \/ LookupExact(r)
                               \/ LookupAlike(r) \/ DropPlaceholder(r) \/ Verify(r)
                               \/ NotAdmitted(r) \/ Abandon(r) \/ EvictionLost(r)
        PROVE  outlived' = outlived
    BY <2>1 DEF Ask, PeekExact, PeekAlike, LookupExact, LookupAlike, DropPlaceholder, Verify,
                NotAdmitted, Abandon, EvictionLost, ghosts
  <2>2. ASSUME NEW r \in Asks, Admit(r) \/ Fail(r) \/ Evict(r) PROVE outlived' \subseteq CacheKeys
    BY <1>2, <2>2 DEF Admit, Fail, Evict, EvictionDone
  <2>3. CacheTick \/ Prune \/ LegacyRow \/ UNCHANGED cacheVars => outlived' = outlived
    BY DEF CacheTick, Prune, LegacyRow, cacheVars, ghosts
  <2> QED
    BY <1>2, <2>1, <2>2, <2>3 DEF CacheNext
<1>4. /\ now' \in 0..MaxNow /\ DOMAIN rows' \subseteq CacheKeys /\ (\A k \in DOMAIN rows' : rows'[k] \in Row)
      /\ asking' \in [Asks -> CacheKeys] /\ trusted' \in [CacheKeys -> SUBSET Solutions]
      /\ verified' \in [Asks -> Solutions \union {NoSolution}]
  BY <1>1 DEF CacheInv, TableOK, CacheKeys, Row
<1>5. place' \in [Asks -> Stages] /\ served' \in [Asks -> Solutions \union {NoSolution}]
  BY <1>1 DEF AlikeOnly
<1> QED
  BY <1>3, <1>4, <1>5 DEF CacheTypeOK, CacheKeys, Row

StorageInv ==
  /\ CacheInv /\ AlikeOnly /\ CacheTypeOK
  /\ SpendInv
  /\ MigrationInv
  /\ RecorderInv /\ RecorderTypeOK
  /\ IndexInv

LEMMA StorageInitInv == Init => StorageInv
<1> SUFFICES ASSUME Init PROVE StorageInv
  OBVIOUS
<1>1. CacheInit /\ SpendInit /\ MigrationInit /\ RecorderInit /\ ContextInit
  BY DEF Init
<1>2. CacheInv /\ SpendInv /\ MigrationInv /\ RecorderInv /\ IndexInv
  BY <1>1, CacheInitInv, SpendInitInv, MigrationInitInv, RecorderInitInv, ContextInitInv
<1>3. AlikeOnly /\ CacheTypeOK
  <2>1. DOMAIN rows = {}
    BY <1>1 DEF CacheInit
  <2>2. asking \in [Asks -> CacheKeys] /\ now \in 0..MaxNow /\ trusted \in [CacheKeys -> SUBSET Solutions]
    BY <1>2 DEF CacheInv, TableOK
  <2> QED
    BY <1>1, <2>1, <2>2 DEF CacheInit, AlikeOnly, CacheTypeOK, Stages
<1>4. RecorderTypeOK
  BY <1>1, RecorderAssumption DEF RecorderInit, RecorderTypeOK, WritingStages, Days
<1> QED
  BY <1>2, <1>3, <1>4 DEF StorageInv

LEMMA StorageKept == ASSUME StorageInv, [Next]_storageVars PROVE StorageInv'
<1>1. /\ [CacheNext]_cacheVars /\ [SpendNext]_spendVars /\ [MigrationNext]_migrationVars
      /\ [RecorderNext]_recorderVars /\ [ContextNext]_indexVars
  BY DEF Next, storageVars
<1>2. CacheInv' /\ AlikeOnly' /\ CacheTypeOK'
  BY <1>1, CacheStep, AlikeStep, OutlivedTyped DEF StorageInv
<1>3. SpendInv' /\ MigrationInv'
  BY <1>1, SpendInvKept, MigrationStep DEF StorageInv
<1>4. RecorderInv' /\ RecorderTypeOK' /\ IndexInv'
  BY <1>1, RecorderKept, RecorderTyped, IndexKept DEF StorageInv
<1> QED
  BY <1>2, <1>3, <1>4 DEF StorageInv

\* Whatever the components that keep something do, each in any order with any number of processes: every
\* row of the cache and of the ledger has its shape, the index holds only text, the layout is one the
\* migrations can leave, and the recorder's files are in the states it writes (store.rs:308-451,
\* 1493-1533, recorder.rs:86-227, contextidx.rs:378-396).
THEOREM StorageTyped == Spec => []StorageTypeOK
<1>1. StorageInv => StorageTypeOK
  BY DEF StorageInv, SpendInv, MigrationInv, IndexInv, StorageTypeOK
<1>2. StorageInv /\ [Next]_storageVars => StorageInv'
  BY StorageKept
<1> QED
  BY StorageInitInv, <1>1, <1>2, PTL DEF Spec
=============================================================================
