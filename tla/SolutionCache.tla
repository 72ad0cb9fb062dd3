--------------------------- MODULE SolutionCache ---------------------------
(***************************************************************************)
(* The verified-solution cache (src/src/store.rs) as Engine::run uses it   *)
(* (src/src/engine.rs): peeked to choose the route, looked up to answer,   *)
(* admitted to on success, evicted from on failure, bounded by an LRU and  *)
(* a time to live, matched exactly or by the words of the goal.            *)
(*                                                                         *)
(* Every store method holds the connection mutex, so each call is one      *)
(* action, and other runs of the process step in between: an answer is     *)
(* verified in one step and admitted in another, a run fails in one and    *)
(* evicts in another.  The writes are best effort (warn_persist).  Time is *)
(* what Utc::now answers, taken to be monotone; MaxNow bounds it.          *)
(***************************************************************************)
EXTENDS Integers, FiniteSets

CONSTANTS
  Asks,          \* concurrent runs
  Goals,         \* each goal is the set of its words that are not stop words
  Constraints,   \* sets of constraints a goal is asked under
  Solutions,     \* verified outputs, in the masked form that is stored
  Placeholders,  \* those that still hold a placeholder of the mask vault
  NoSolution,
  Threshold,     \* policy.semantic_cache_threshold in percent; 0 disables
  CacheTtl,      \* CACHE_TTL_SECS
  MaxEntries,    \* MAX_CACHE_SIZE
  Retention,     \* security.retention_days, in the unit of CacheTtl
  StoreMayFail,  \* whether the store may refuse to write
  MaxNow

ASSUME CacheAssumption ==
  /\ IsFiniteSet(Asks) /\ IsFiniteSet(Goals) /\ IsFiniteSet(Constraints)
  /\ Goals # {} /\ Constraints # {} /\ \A g \in Goals : IsFiniteSet(g)
  /\ Placeholders \subseteq Solutions /\ NoSolution \notin Solutions
  /\ Threshold \in 0..100 /\ StoreMayFail \in BOOLEAN
  /\ CacheTtl \in Nat /\ MaxEntries \in Nat \ {0} /\ Retention \in Nat /\ MaxNow \in Nat

VARIABLES
  now,
  rows,     \* solution_cache: a function on the keys it has rows for
  place,    \* where each run is
  asking,   \* its cache key: the goal and its constraints
  served,   \* the answer it was given from the cache
  verified,    \* the verified answer of a provider that it is about to admit
  \* For the properties only.
  trusted,  \* per key: outputs verified for it since its last failed run, or that
            \* another run had verified but not yet admitted when that run failed
  outlived  \* keys whose row, if any, is older than that failed run

ghosts == <<trusted, outlived>>
cacheVars == <<now, rows, place, asking, served, verified, ghosts>>

CacheKeys == Goals \X Constraints
Row == [out : Solutions, created : 0..MaxNow, used : 0..MaxNow]
Stages == {"idle", "peek", "peekAlike", "lookup", "lookupAlike", "drop", "execute", "admit",
           "failing", "served"}

CacheTypeOK ==
  /\ now \in 0..MaxNow
  /\ DOMAIN rows \subseteq CacheKeys /\ \A k \in DOMAIN rows : rows[k] \in Row
  /\ place \in [Asks -> Stages]
  /\ asking \in [Asks -> CacheKeys]
  /\ served \in [Asks -> Solutions \union {NoSolution}]
  /\ verified \in [Asks -> Solutions \union {NoSolution}]
  /\ trusted \in [CacheKeys -> SUBSET Solutions]
  /\ outlived \subseteq CacheKeys

CacheInit ==
  /\ now = 0
  /\ rows = <<>>
  /\ place = [r \in Asks |-> "idle"]
  /\ asking = [r \in Asks |-> CHOOSE k \in CacheKeys : TRUE]
  /\ served = [r \in Asks |-> NoSolution]
  /\ verified = [r \in Asks |-> NoSolution]
  /\ trusted = [k \in CacheKeys |-> {}]
  /\ outlived = {}

-----------------------------------------------------------------------------
(* Rows. *)

\* used is COALESCE(last_hit_at, created_at): the LRU order.
Keep(keys) == [k \in keys |-> rows[k]]
Without(keys) == Keep(DOMAIN rows \ keys)

Expired(k) == now - rows[k].created > CacheTtl
Stale == {k \in DOMAIN rows : Expired(k)}

\* Jaccard similarity in percent; two goals without words are alike.
Similarity(g, h) ==
  IF g = {} /\ h = {} THEN 100
  ELSE (100 * Cardinality(g \cap h)) \div Cardinality(g \union h)

\* Mutant: the first row that is alike enough, not the most alike.
BestAnyAlike(g) == {k \in DOMAIN rows \ Stale : Similarity(g, k[1]) >= Threshold}

\* The most similar live rows; of equals, the scan keeps the first, which is
\* the oldest.
Best(g) ==
  LET near == {k \in DOMAIN rows \ Stale : Similarity(g, k[1]) >= Threshold}
      nearest == {k \in near : \A j \in near : Similarity(g, k[1]) >= Similarity(g, j[1])}
  IN  {k \in nearest : \A j \in nearest : rows[k].created <= rows[j].created}

Touch(table, k) == [table EXCEPT ![k].used = now]
Move(r, to) == place' = [place EXCEPT ![r] = to]

-----------------------------------------------------------------------------
(* A run. *)

Ask(r) ==
  /\ place[r] \in {"idle", "served"}
  /\ \E k \in CacheKeys : asking' = [asking EXCEPT ![r] = k]
  /\ served' = [served EXCEPT ![r] = NoSolution]
  /\ Move(r, "peek")
  /\ UNCHANGED <<now, rows, verified, ghosts>>

\* peek_cached_solution, for the router (what it makes of a hit is Router's): an
\* expired row is deleted on read.
PeekExact(r) ==
  LET k == asking[r]
      live == k \in DOMAIN rows /\ ~Expired(k)
      hit == live /\ rows[k].out \notin Placeholders IN
  /\ place[r] = "peek"
  /\ rows' = IF k \in DOMAIN rows /\ ~live THEN Without({k}) ELSE rows
  /\ Move(r, IF ~hit /\ Threshold > 0 THEN "peekAlike" ELSE "lookup")
  /\ UNCHANGED <<now, asking, served, verified, ghosts>>

\* peek_semantic_cached_solution: the scan deletes every expired row.
PeekAlike(r) ==
  /\ place[r] = "peekAlike"
  /\ rows' = Without(Stale)
  /\ Move(r, "lookup")
  /\ UNCHANGED <<now, asking, served, verified, ghosts>>

Serve(r, out) ==
  /\ served' = [served EXCEPT ![r] = out]
  /\ Move(r, "served")

\* cached_solution: a hit is stamped.  A placeholder sends the run to evict
\* it; only a miss goes on to the semantic lookup.
LookupExact(r) ==
  LET k == asking[r]
      live == k \in DOMAIN rows /\ ~Expired(k) IN
  /\ place[r] = "lookup"
  /\ rows' = IF live THEN Touch(rows, k) ELSE Without({k})
  /\ \/ /\ ~live
        /\ Move(r, IF Threshold > 0 THEN "lookupAlike" ELSE "execute")
        /\ UNCHANGED served
     \/ /\ live /\ rows[k].out \in Placeholders
        /\ Move(r, "drop")
        /\ UNCHANGED served
     \/ /\ live /\ rows[k].out \notin Placeholders
        /\ Serve(r, rows[k].out)
  /\ UNCHANGED <<now, asking, verified, ghosts>>

\* semantic_cached_solution.
LookupAlike(r) ==
  /\ place[r] = "lookupAlike"
  /\ IF Best(asking[r][1]) = {}
     THEN /\ rows' = Without(Stale)
          /\ Move(r, "execute")
          /\ UNCHANGED served
     ELSE \E k \in Best(asking[r][1]) :
            /\ rows' = Touch(Without(Stale), k)
            /\ IF rows[k].out \in Placeholders
               THEN Move(r, "execute") /\ UNCHANGED served
               ELSE Serve(r, rows[k].out)
  /\ UNCHANGED <<now, asking, verified, ghosts>>

DropPlaceholder(r) ==
  /\ place[r] = "drop"
  /\ rows' = Without({asking[r]}) \/ (StoreMayFail /\ rows' = rows)
  /\ Move(r, "execute")
  /\ UNCHANGED <<now, asking, served, verified, ghosts>>

\* The least recently used rows beyond MaxEntries go.
Evicted(table) ==
  LET overflow == Cardinality(DOMAIN table) - MaxEntries IN
  IF overflow <= 0 THEN {table}
  ELSE {[k \in DOMAIN table \ old |-> table[k]] : old \in
          {old \in SUBSET DOMAIN table :
             /\ Cardinality(old) = overflow
             /\ \A k \in old, j \in DOMAIN table \ old : table[k].used <= table[j].used}}

\* cache_solution on a key that has a row replaces the output, and keeps
\* created_at and last_hit_at.
Stored(k, out) ==
  [j \in DOMAIN rows \union {k} |->
     IF j # k THEN rows[j]
     ELSE IF k \in DOMAIN rows THEN [rows[k] EXCEPT !.out = out]
     ELSE [out |-> out, created |-> now, used |-> now]]

\* An answer of a provider passes verification, and may be kept.
Verify(r) ==
  /\ place[r] = "execute"
  /\ Move(r, "admit")
  /\ \E out \in Solutions \ Placeholders :
       /\ verified' = [verified EXCEPT ![r] = out]
       /\ trusted' = [trusted EXCEPT ![asking[r]] = @ \union {out}]
  /\ UNCHANGED <<now, rows, asking, served, outlived>>

Admit(r) ==
  LET k == asking[r] IN
  /\ place[r] = "admit"
  /\ rows' \in Evicted(Stored(k, verified[r]))
  /\ outlived' = outlived \ {k}
  /\ verified' = [verified EXCEPT ![r] = NoSolution]
  /\ Move(r, "idle")
  /\ UNCHANGED <<now, asking, served, trusted>>

\* It was rescued, came from the mock adapter, or the store refuses the row.
NotAdmitted(r) ==
  /\ place[r] = "admit"
  /\ verified' = [verified EXCEPT ![r] = NoSolution]
  /\ Move(r, "idle")
  /\ UNCHANGED <<now, rows, asking, served, ghosts>>

\* No provider is called (there is none, the sentinel stops the run, a save is
\* refused), or the verified answer holds a placeholder and is not for reuse.
Abandon(r) ==
  /\ place[r] = "execute"
  /\ Move(r, "idle")
  /\ UNCHANGED <<now, rows, asking, served, verified, ghosts>>

\* Every provider failed: Failed is saved, evict_solution follows.
Fail(r) ==
  LET k == asking[r] IN
  /\ place[r] = "execute"
  /\ Move(r, "failing")
  /\ trusted' = [trusted EXCEPT ![k] =
                   {verified[q] : q \in {q \in Asks : place[q] = "admit" /\ asking[q] = k}}]
  /\ outlived' = outlived \union {k}
  /\ UNCHANGED <<now, rows, asking, served, verified>>

EvictionDone(r) ==
  /\ outlived' = outlived \ {asking[r]}
  /\ UNCHANGED trusted

\* Mutant: a failed run leaves the cached answer.
EvictNothing(r) ==
  /\ place[r] = "failing"
  /\ Move(r, "idle")
  /\ EvictionDone(r)
  /\ UNCHANGED <<now, rows, asking, served, verified>>

Evict(r) ==
  /\ place[r] = "failing"
  /\ rows' = Without({asking[r]})
  /\ EvictionDone(r)
  /\ Move(r, "idle")
  /\ UNCHANGED <<now, asking, served, verified>>

\* The save of Failed is refused, which ends the run before its eviction, or
\* the eviction is.
EvictionLost(r) ==
  /\ StoreMayFail
  /\ place[r] = "failing"
  /\ Move(r, "idle")
  /\ UNCHANGED <<now, rows, asking, served, verified, ghosts>>

-----------------------------------------------------------------------------
(* Time, and the process. *)

CacheTick ==
  /\ now < MaxNow
  /\ now' = now + 1
  /\ UNCHANGED <<rows, place, asking, served, verified, ghosts>>

\* A restart loses the runs; Engine::new prunes the rows that were created
\* before the retention window (0 keeps them for ever).
Prune ==
  /\ rows' = IF Retention = 0 THEN rows
             ELSE Without({k \in DOMAIN rows : rows[k].created < now - Retention})
  /\ place' = [r \in Asks |-> "idle"]
  /\ served' = [r \in Asks |-> NoSolution]
  /\ verified' = [r \in Asks |-> NoSolution]
  /\ UNCHANGED <<now, asking, ghosts>>

\* A row that an earlier build, or another caller of the store, left with a
\* placeholder in it.
LegacyRow ==
  /\ now = 0 /\ rows = <<>>
  /\ \E k \in CacheKeys, out \in Placeholders :
       rows' = [j \in {k} |-> [out |-> out, created |-> now, used |-> now]]
  /\ UNCHANGED <<now, place, asking, served, verified, ghosts>>

CacheNext ==
  \/ \E r \in Asks :
       \/ Ask(r) \/ PeekExact(r) \/ PeekAlike(r) \/ LookupExact(r) \/ LookupAlike(r)
       \/ DropPlaceholder(r) \/ Verify(r) \/ Admit(r) \/ NotAdmitted(r) \/ Abandon(r)
       \/ Fail(r) \/ Evict(r) \/ EvictionLost(r)
  \/ CacheTick \/ Prune \/ LegacyRow

CacheSpec == CacheInit /\ [][CacheNext]_cacheVars

-----------------------------------------------------------------------------
(* Properties. *)

\* A refuted answer is under a key only while the failed run has yet to evict it,
\* or could not.  Otherwise what the table holds was verified under its key since
\* the key's last failed run, or was in the hands of a run whose verification and
\* admission that failure fell between, or is a legacy row: the race lets through
\* what was in hand, and nothing older (engine.rs:880-947, 1255-1276, 1297-1304).
HoldsTrusted ==
  \A k \in DOMAIN rows \ outlived :
    rows[k].out \in trusted[k] \union Placeholders

\* What a run is served comes from a live row, first verified at most 7 days
\* ago however often it was hit or refreshed since; no live row is more alike
\* to the goal, and without the semantic cache it is the row of this very
\* request (engine.rs:590-641, store.rs:800-850, 1029-1038).
ServedBest ==
  [][\A r \in Asks : place[r] # "served" /\ place'[r] = "served" =>
       \E k \in DOMAIN rows :
         /\ rows[k].out = served'[r] /\ served'[r] \notin Placeholders
         /\ now - rows[k].created <= CacheTtl
         /\ Threshold = 0 => k = asking[r]
         /\ \A j \in DOMAIN rows : now - rows[j].created <= CacheTtl =>
              Similarity(asking[r][1], j[1]) <= Similarity(asking[r][1], k[1])
    ]_cacheVars
=============================================================================
