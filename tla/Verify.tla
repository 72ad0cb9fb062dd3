------------------------------- MODULE Verify -------------------------------
(***************************************************************************)
(* verify_output (src/src/verify.rs): the static checks of an output, the  *)
(* bracket balance among them, and then, for one that passes, the          *)
(* verification command of its route.                                      *)
(*                                                                         *)
(* What the other checks find in the text is a record of facts, chosen     *)
(* when the scan of the brackets is over.                                  *)
(***************************************************************************)
EXTENDS BraceScan

CONSTANTS
  CheckedRoutes,
  Facts,          \* sets of what the checks find in an output
  TestCommand,    \* verification_command, or NoCommand
  RouteCommands,  \* verification_commands: per route, where there is one
  Scores,         \* what a command may report: hundredths, or NaN
  NoCommand, NaN

ASSUME VerifyAssumption ==
  /\ Facts \subseteq SUBSET {"code", "diff", "question", "questions", "placeholder", "ellipsis"}
  /\ DOMAIN RouteCommands \subseteq CheckedRoutes /\ Scores \subseteq Int \union {NaN}

VARIABLE verdict  \* [route, facts, pass, tier, score], or <<>>

verifyVars == <<scanVars, verdict>>

VerifyInit == ScanInit /\ verdict = <<>>

Scan == ScanNext /\ UNCHANGED verdict

Truncated(facts) == depth # 0 /\ "code" \in facts

Issues(route, facts) ==
  {issue \in {"empty", "diff", "question", "braces", "placeholder", "ellipsis"} :
     CASE issue = "empty" -> pieces = <<>>
       [] issue = "diff" -> route = "PATCH" /\ "diff" \notin facts
       [] issue = "question" -> route = "ASK" /\ ("question" \notin facts \/ "questions" \in facts)
       [] issue = "braces" -> Truncated(facts)
       [] issue = "placeholder" -> route \in {"IMPLEMENT", "PATCH"} /\ "placeholder" \in facts
       [] issue = "ellipsis" -> "ellipsis" \in facts}

StaticCheck ==
  /\ ~More /\ verdict = <<>>
  /\ \E route \in CheckedRoutes, facts \in Facts :
       LET pass == Issues(route, facts) = {}
       IN verdict' = [route |-> route, facts |-> facts, pass |-> pass, tier |-> "static",
                      score |-> IF pass THEN 100 ELSE 0]
  /\ UNCHANGED scanVars

\* A route's own command comes before the common one, an empty one too.
CommandFor(route) ==
  IF route \in DOMAIN RouteCommands THEN RouteCommands[route] ELSE TestCommand

Clamped(score) == IF score = NaN THEN NaN
                  ELSE IF score < 0 THEN 0 ELSE IF score > 100 THEN 100 ELSE score

TestsDue == verdict # <<>> /\ verdict.pass /\ verdict.tier = "static"
            /\ CommandFor(verdict.route) # NoCommand

CommandPasses ==
  /\ TestsDue
  /\ \E score \in Scores \union {100} :
       verdict' = [verdict EXCEPT !.tier = "tests", !.score = Clamped(score)]
  /\ UNCHANGED scanVars

\* It exits with an error, or cannot be started.
CommandFails ==
  /\ TestsDue
  /\ verdict' = [verdict EXCEPT !.tier = "tests", !.pass = FALSE, !.score = 0]
  /\ UNCHANGED scanVars

VerifyNext == Scan \/ StaticCheck \/ CommandPasses \/ CommandFails
VerifySpec == VerifyInit /\ [][VerifyNext]_verifyVars

-----------------------------------------------------------------------------
\* The scan counts "Net {}/()/[] depth, ignoring string literals and line comments"
\* (verify.rs:234), and so an output is turned down as truncated for the brackets
\* of its code and for no other: whatever literals and comments stand between them
\* and in whatever order, code passes only if its brackets balance, an output with
\* no other fault is rejected by the static tier only if they do not, and no
\* command is run for one that was (verify.rs:35-186).
CountsCodeOnly ==
  /\ ~More => depth = Balance /\ mode = Code
  /\ verdict # <<>> =>
       /\ verdict.pass /\ "code" \in verdict.facts => Balance = 0
       /\ verdict.tier = "static" /\ ~verdict.pass
            /\ Issues(verdict.route, verdict.facts) \subseteq {"braces"} => Balance # 0
       /\ verdict.tier = "tests" => Issues(verdict.route, verdict.facts) = {}
=============================================================================
