--------------------------- MODULE ProviderChain ---------------------------
(***************************************************************************)
(* Config::provider_chain (src/src/config.rs): the providers of a route in *)
(* the order they are configured.  The first routing rule that matches the *)
(* route gives a provider and a fallback; the fallback of the first rule   *)
(* of that fallback comes next, and so on until a provider is met twice;   *)
(* every enabled provider left over follows by priority.                   *)
(*                                                                         *)
(* A configuration is one that Config::validate lets through.              *)
(***************************************************************************)
EXTENDS Integers, Sequences, FiniteSets

CONSTANTS
  Names,     \* provider names a rule may hold, configured or not
  NoName,    \* the empty string
  Order(_),  \* sorts a set of providers by priority and name
  MaxRules   \* bound on the routing rules

ASSUME ChainAssumption ==
  /\ IsFiniteSet(Names) /\ NoName \notin Names /\ MaxRules \in Nat
  /\ \A S \in SUBSET Names : /\ Order(S) \in [1..Cardinality(S) -> S]
                             /\ {Order(S)[i] : i \in 1..Cardinality(S)} = S

VARIABLES
  config,   \* [providers, enabled, rules]
  walk,     \* "config", "rule", "follow", "rest" or "chained"
  fallback, \* the provider to follow, or NoName
  visited,  \* seen
  chain

chainVars == <<config, walk, fallback, visited, chain>>

Rule == [provider : Names, fallback : Names \union {NoName}, matches : BOOLEAN]

\* validate.
Valid(c) ==
  /\ c.enabled # {}
  /\ \A i \in DOMAIN c.rules : /\ c.rules[i].provider \in c.providers
                               /\ c.rules[i].fallback \in c.providers \union {NoName}

NoConfig == [providers |-> {}, enabled |-> {}, rules |-> <<>>]

ChainInit ==
  /\ config = NoConfig /\ walk = "config"
  /\ fallback = NoName /\ visited = {} /\ chain = <<>>

LoadConfig ==
  /\ walk = "config"
  /\ \E known \in SUBSET Names : \E on \in SUBSET known : \E n \in 0..MaxRules :
       \E list \in [1..n -> Rule] :
         config' = [providers |-> known, enabled |-> on, rules |-> list]
  /\ Valid(config')
  /\ walk' = "rule"
  /\ UNCHANGED <<fallback, visited, chain>>

-----------------------------------------------------------------------------
\* add: a configured provider is seen; one that is enabled joins the chain.
Add(p) ==
  /\ visited' = IF p \in config.providers THEN visited \union {p} ELSE visited
  /\ chain' = IF p \in config.enabled \ visited THEN Append(chain, p) ELSE chain

\* The first index of a rule with a property, or 0.
FirstRule(Test(_)) ==
  LET hits == {i \in DOMAIN config.rules : Test(config.rules[i])}
  IN IF hits = {} THEN 0 ELSE CHOOSE i \in hits : \A j \in hits : i <= j

Matches(rule) == rule.matches

MatchRule ==
  /\ walk = "rule"
  /\ LET i == FirstRule(Matches)
     IN IF i = 0
        THEN walk' = "rest" /\ UNCHANGED <<fallback, visited, chain>>
        ELSE /\ Add(config.rules[i].provider)
             /\ fallback' = config.rules[i].fallback
             /\ walk' = "follow"
  /\ UNCHANGED config

\* Mutant: the walk stops only when the rules name no further fallback.
FollowedEndless == fallback = NoName

Followed == fallback = NoName \/ fallback \in visited

FollowFallback ==
  /\ walk = "follow" /\ ~Followed
  /\ Add(fallback)
  /\ LET OfFallback(rule) == rule.provider = fallback
         i == FirstRule(OfFallback)
     IN fallback' = IF i = 0 THEN NoName ELSE config.rules[i].fallback
  /\ UNCHANGED <<config, walk>>

EndFollow ==
  /\ walk = "follow" /\ Followed
  /\ walk' = "rest"
  /\ UNCHANGED <<config, fallback, visited, chain>>

\* Mutant: what the rules have seen is not left out.
RestAll == Order(config.enabled)

Rest == Order(config.enabled \ visited)

AppendRest ==
  /\ walk = "rest"
  /\ chain' = chain \o Rest
  /\ walk' = "chained"
  /\ UNCHANGED <<config, fallback, visited>>

ChainNext == LoadConfig \/ MatchRule \/ FollowFallback \/ EndFollow \/ AppendRest

ChainSpec == ChainInit /\ [][ChainNext]_chainVars

-----------------------------------------------------------------------------
(* Properties. *)

\* However the rules point at each other, at themselves or at disabled
\* providers, the chain offers every enabled provider exactly once, and no other
\* (config.rs:465-520).
ChainIsComplete ==
  walk = "chained" =>
    /\ Len(chain) = Cardinality(config.enabled)
    /\ {chain[i] : i \in DOMAIN chain} = config.enabled

\* The walk along fallbacks ends: every step sees a provider it has not seen, so
\* there are no more steps than providers (config.rs:487-500).
WalkEnds ==
  [][walk = "follow" /\ walk' = "follow" =>
       Cardinality(visited') > Cardinality(visited)]_chainVars
=============================================================================
