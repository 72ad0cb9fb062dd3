------------------------------- MODULE MCCalls -------------------------------
(***************************************************************************)
(* Finite instances of the components that a call passes through on its    *)
(* way from the form to the provider and back, for TLC.  They share no     *)
(* variable, so one run checks them side by side: its states are those of  *)
(* each in turn, not their product.                                        *)
(***************************************************************************)
EXTENDS Workbench, ProviderChain, AttemptPlan, Bandit, Adapter, MaskCodec, JsonRescue, Verify,
        EditDistance, PrefixFit, SymbolScan, RunConsole, TLC

VARIABLE part

callsVars == <<part, routerVars, benchVars, chainVars, planVars, banditVars, adapterVars,
               codecVars, rescueVars, verifyVars, distanceVars, fitVars, symbolVars, consoleVars>>

Parts == {"router", "bench", "chain", "plan", "bandit", "adapter", "codec", "rescue", "verify",
          "distance", "fit", "symbols", "console"}

\* Providers of one priority, by name.
MCOrder(S) == SetToSortSeq(S, <)

\* The rule's provider is the last by priority; the others follow in their order.
MCChain == <<"pa", "pb", "pc">>
MCRank == <<3, 1, 2>>
MCPlaceholders == <<"k1", "k2", "k3", "k4">>

\* Characters that are one byte, two bytes, escaped with two, with six and with twelve.
Str(texts) == {Scalar("string", s) : s \in texts}
MCStrings == Str({<<>>, <<"a">>, <<"accent">>, <<"newline", "a">>, <<"unicode">>, <<"{", ",">>})
Scalars == MCStrings \union {Scalar("null", <<"n", "u", "l", "l">>)}
             \union {Scalar("number", n) : n \in {<<"0">>, <<"-", "1">>, <<"1", ".", "0", "1">>}}
Arrs(S) == {Scalar("array", s) : s \in UNION {[1..n -> S] : n \in 0..2}}
Objs(S) == {Scalar("object", s) :
              s \in {<<>>} \union {<<<<k, v>>>> : k \in {<<"a">>, <<"accent">>}, v \in S}
                     \union {<<<<(<<"a">>), v>>, <<(<<"newline">>), w>>>> : v, w \in S}}
Few == Str({<<"accent">>}) \union {Scalar("number", <<"-", "1">>)}
Nested == Arrs(Few) \union Objs(Few)
TooDeep == Scalar("array", <<Scalar("array", <<Scalar("array", <<>>)>>)>>)
Paired == Str({<<"pair">>, <<"a", "pair", "accent">>})
MCDocuments == Arrs(Scalars) \union Objs(Scalars) \union {TooDeep}
                 \union Arrs(Paired) \union Objs(Paired)
                 \union {Scalar("object", <<<<(<<"pair", "a">>), v>>>>) : v \in Paired}
                 \union {Scalar("array", <<v>>) : v \in Nested}
                 \union {Scalar("object", <<<<(<<"a">>), v>>>>) : v \in Nested}

\* Literals and comments with a bracket, a quote, an escape or the start of
\* another literal in them.
MCLiterals ==
  {<<"dq", "(", "dq">>, <<"dq", "bs", "dq", ")", "dq">>, <<"dq", "/", "/", "sq", "dq">>,
   <<"dq", "bs", "bs", "dq">>, <<"sq", "(", "sq">>, <<"sq", "dq", "sq">>,
   <<"sq", "bs", "sq", "sq">>, <<"/", "*", "(", "sq", "*", "/">>, <<"/", "*", "*", "/">>,
   <<"/", "/", "(", "dq", "nl">>, <<"r", "dq", "bs", "dq">>,
   <<"r", "#", "dq", "(", "dq", "(", "dq", "#">>,
   <<"r", "#", "#", "dq", ")", "dq", "#", "sq", "dq", "#", "#">>, <<"r", "dq", "/", "*", "dq">>}

\* Verification: outputs that look like code, and the commands configured.
MCFacts == {{"code", "diff"}, {"code", "placeholder"}, {}}
MCRouteCommands == [r \in {"PATCH"} |-> NoCommand]

\* Policies that differ in the threshold and in learning.
MCPolicy == [ask |-> 35, direct |-> 600, delegation |-> 2250, learned |-> TRUE]
MCRivals == {MCPolicy, [MCPolicy EXCEPT !.ask = 60, !.learned = FALSE]}

\* Tasks at the thresholds of confidence, one with a similar success behind it.
MCTask == [vague |-> 0, words |-> "some", trivial |-> FALSE, localized |-> TRUE,
           repetitive |-> FALSE, external |-> FALSE, conflict |-> FALSE, safety |-> FALSE,
           unspecified |-> FALSE]
MCSamples ==
  {[task |-> [MCTask EXCEPT !.vague = 1], tokens |-> 601, past |-> NoRoute],
   [task |-> [MCTask EXCEPT !.vague = 2], tokens |-> 601, past |-> "DIRECT"],
   [task |-> [MCTask EXCEPT !.trivial = TRUE, !.words = "few"], tokens |-> 600, past |-> NoRoute]}
MCStates == {Unknown, [Unknown EXCEPT !.solved = TRUE], [Unknown EXCEPT !.failed = TRUE]}
MCWritings == {[padding |-> 0, solved |-> FALSE], [padding |-> 1, solved |-> TRUE]}
MCExecutions == {[route |-> "PATCH", cost |-> 2], [route |-> "ASK", cost |-> 8]}

MCBraceLines == [declares : BOOLEAN, braces : {<<>>, <<"{">>, <<"}">>, <<"{", "}">>, <<"}", "{">>}]
MCIndentLines == {[declares |-> FALSE, blank |-> TRUE, indent |-> 0]}
                   \union [declares : BOOLEAN, blank : {FALSE}, indent : 0..2]

\* A component that is not the part of a behaviour has one initial state.
Init ==
  /\ part \in Parts
  /\ RouterInit /\ BenchInit /\ ChainInit /\ PlanInit /\ BanditInit
  /\ part = "console" \/ form = CHOOSE q \in Requests : TRUE
  /\ ConsoleInit
  /\ part = "fit" \/ symbols = 0
  /\ FitInit
  /\ part = "rescue" \/ document = TooDeep
  /\ part = "rescue" \/ lead = 0
  /\ RescueInit
  /\ part = "distance" \/ pat = <<"a">>
  /\ part = "distance" \/ txt = <<"a">>
  /\ DistanceInit
  /\ part = "codec" \/ prompt = <<>>
  /\ CodecInit
  /\ part = "verify" \/ pieces = <<>>
  /\ VerifyInit
  /\ part = "symbols" \/ (lang = "brace" /\ lines = <<[declares |-> FALSE, braces |-> <<>>]>>)
  /\ SymbolInit
  /\ part = "adapter" \/ reply = [status |-> 404, header |-> [form |-> "none", at |-> 0],
                                  size |-> 0, body |-> "garbled"]
  /\ part = "adapter" \/ profile = [n \in Profiles |->
                                      [adapter |-> "mock", key |-> FALSE, endpoint |-> FALSE]]
  /\ AdapterInit

Next ==
  /\ UNCHANGED part
  /\ \/ part = "router" /\ RouterNext
     \/ part = "bench" /\ BenchNext
     \/ part = "chain" /\ ChainNext
     \/ part = "plan" /\ PlanNext
     \/ part = "bandit" /\ BanditNext
     \/ part = "adapter" /\ AdapterNext
     \/ part = "codec" /\ CodecNext
     \/ part = "rescue" /\ RescueNext
     \/ part = "verify" /\ VerifyNext
     \/ part = "distance" /\ DistanceNext
     \/ part = "fit" /\ FitNext
     \/ part = "symbols" /\ SymbolNext
     \/ part = "console" /\ ConsoleNext
  /\ IF part = "router" THEN TRUE ELSE UNCHANGED routerVars
  /\ IF part = "bench" THEN TRUE ELSE UNCHANGED benchVars
  /\ IF part = "chain" THEN TRUE ELSE UNCHANGED chainVars
  /\ IF part = "plan" THEN TRUE ELSE UNCHANGED planVars
  /\ IF part = "bandit" THEN TRUE ELSE UNCHANGED banditVars
  /\ IF part = "adapter" THEN TRUE ELSE UNCHANGED adapterVars
  /\ IF part = "codec" THEN TRUE ELSE UNCHANGED codecVars
  /\ IF part = "rescue" THEN TRUE ELSE UNCHANGED rescueVars
  /\ IF part = "verify" THEN TRUE ELSE UNCHANGED verifyVars
  /\ IF part = "distance" THEN TRUE ELSE UNCHANGED distanceVars
  /\ IF part = "fit" THEN TRUE ELSE UNCHANGED fitVars
  /\ IF part = "symbols" THEN TRUE ELSE UNCHANGED symbolVars
  /\ IF part = "console" THEN TRUE ELSE UNCHANGED consoleVars

Spec == Init /\ [][Next]_callsVars
=============================================================================
