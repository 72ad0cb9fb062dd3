------------------------------ MODULE Adapter ------------------------------
(***************************************************************************)
(* The provider adapters (src/src/provider.rs): how each is built from its *)
(* profile, how the body of a reply is read up to a limit, and what the    *)
(* engine is told.  The three wire formats are three pieces of code for    *)
(* one contract, so here one reply is read by all of them, each from the   *)
(* pieces the network hands it.                                            *)
(***************************************************************************)
EXTENDS Integers, FiniteSets

CONSTANTS
  Profiles,    \* names of provider profiles
  Limit,       \* bytes of a body that is read
  Hints,       \* what a Retry-After header may say, in seconds or as a date
  NoHint

ASSUME AdapterAssumption == Limit \in Nat

Wires == {"openai", "anthropic", "gemini"}
Adapters == Wires \union {"mock", "proxy", "proxy_ide", "unlisted"}

\* A Retry-After header, a date as the time from now; "text" parses as neither.
Headers == [form : {"seconds", "date"}, at : Hints] \union [form : {"none", "text"}, at : {0}]

\* What stands in a complete body: no JSON of the format, an error object, no candidate, a candidate
\* without a text part, one whose text is empty, one with text.
Bodies == {"garbled", "error", "empty", "hollow", "blank", "text"}

VARIABLES
  profile,     \* of each name: the adapter and whether a key and an endpoint are there
  reply,       \* what every provider answers
  got,         \* bytes of the body read, per name
  told         \* what execute returned, per name; "" before

adapterVars == <<profile, reply, got, told>>

Profile == [adapter : Adapters, key : BOOLEAN, endpoint : BOOLEAN]

\* Adapter::new, and the code that then talks to the provider.
Refused(p) ==
  \/ p.adapter \in Wires /\ ~p.key
  \/ p.adapter \in {"proxy", "proxy_ide"} /\ ~p.endpoint
  \/ p.adapter = "unlisted"
Wire(p) == IF p.adapter \in {"proxy", "proxy_ide"} THEN "openai" ELSE p.adapter

-----------------------------------------------------------------------------
RetryAfter(h) ==
  IF h.form = "seconds" \/ (h.form = "date" /\ h.at > 0) THEN h.at ELSE NoHint

Told(kind, after) == [kind |-> kind, after |-> after]
Other == Told("other", NoHint)
Untold == Told("", NoHint)

Classify(status, header) ==
  CASE status = 429 -> Told("rateLimited", RetryAfter(header))
    [] status \in {401, 403} -> Told("auth", NoHint)
    [] status >= 500 -> Told("unavailable", NoHint)
    [] OTHER -> Told("http", NoHint)

\* Mutant: the Gemini adapter forgets the error object and finds no candidate beside it.
DecodedErrorless(wire, body) ==
  IF body = "error" /\ wire = "gemini" THEN Told("answer", NoHint)
  ELSE CASE body \in {"garbled", "error", "empty"} -> Other
         [] body = "hollow" -> IF wire = "openai" THEN Told("answer", NoHint) ELSE Other
         [] body = "blank" -> IF wire = "anthropic" THEN Other ELSE Told("answer", NoHint)
         [] body = "text" -> Told("answer", NoHint)

\* The decoded body.  Only the Anthropic adapter, which keeps the text blocks alone, looks at the text; the
\* OpenAI one takes the first choice as it is, the Gemini one asks for a part.
Decoded(wire, body) ==
  CASE body \in {"garbled", "error", "empty"} -> Other
    [] body = "hollow" -> IF wire = "openai" THEN Told("answer", NoHint) ELSE Other
    [] body = "blank" -> IF wire = "anthropic" THEN Other ELSE Told("answer", NoHint)
    [] body = "text" -> Told("answer", NoHint)

-----------------------------------------------------------------------------
Reply == [status : {200, 404, 401, 429, 503}, header : Headers, size : 0..(Limit + 1), body : Bodies]

AdapterInit ==
  /\ reply \in {r \in Reply : /\ r.status # 429 => r.header.form = "none"
                              /\ r.status # 200 => r.size = 0 /\ r.body = "garbled"
                              /\ r.size = 0 => r.body = "garbled"}
  /\ profile \in [Profiles -> Profile]
  /\ got = [n \in Profiles |-> 0]
  /\ told = [n \in Profiles |-> Untold]

Pending(n) == told[n] = Untold /\ ~Refused(profile[n])
Tell(n, t) == told' = [told EXCEPT ![n] = t]

\* send() fails: no connection, or the time limit of the request.
SendFails(n) ==
  /\ Pending(n) /\ profile[n].adapter # "mock" /\ got[n] = 0
  /\ Tell(n, Told("unavailable", NoHint))
  /\ UNCHANGED <<profile, reply, got>>

\* A status other than 200 is classified without reading the body.
StatusFails(n) ==
  /\ Pending(n) /\ profile[n].adapter # "mock" /\ got[n] = 0
  /\ reply.status # 200
  /\ Tell(n, Classify(reply.status, reply.header))
  /\ UNCHANGED <<profile, reply, got>>

Reading(n) == Pending(n) /\ profile[n].adapter # "mock" /\ reply.status = 200

\* read_response_limit, one piece of the body.
Chunk(n) ==
  /\ Reading(n)
  /\ \E k \in 1..(reply.size - got[n]) :
       IF got[n] + k > Limit
       THEN Tell(n, Other) /\ got' = got
       ELSE got' = [got EXCEPT ![n] = @ + k] /\ told' = told
  /\ UNCHANGED <<profile, reply>>

ReadFails(n) ==
  /\ Reading(n) /\ got[n] < reply.size
  /\ Tell(n, Other)
  /\ UNCHANGED <<profile, reply, got>>

Decode(n) ==
  /\ Reading(n) /\ got[n] = reply.size
  /\ Tell(n, Decoded(Wire(profile[n]), reply.body))
  /\ UNCHANGED <<profile, reply, got>>

\* The mock counts its calls; fail_every_n is 0 unless a test sets it.
MockAnswers(n) ==
  /\ Pending(n) /\ profile[n].adapter = "mock"
  /\ Tell(n, Told("answer", NoHint))
  /\ UNCHANGED <<profile, reply, got>>

AdapterNext ==
  \E n \in Profiles :
    SendFails(n) \/ StatusFails(n) \/ Chunk(n) \/ ReadFails(n) \/ Decode(n) \/ MockAnswers(n)

AdapterSpec == AdapterInit /\ [][AdapterNext]_adapterVars

-----------------------------------------------------------------------------
\* The whole reply reached the adapter.
Heard(n) ==
  /\ told[n].kind \notin {"", "unavailable"} /\ profile[n].adapter # "mock"
  /\ reply.status = 200 => got[n] = reply.size

\* Failover reacts to the kind of the error alone, so the adapters must agree on it: two that heard the
\* same reply report the same, in whatever pieces it came, except that an answer without text is an
\* error to some; and a body over the limit is an answer to none.
SameVerdict ==
  /\ \A m, n \in Profiles : Heard(m) /\ Heard(n) =>
       \/ told[m] = told[n]
       \/ reply.status = 200 /\ reply.body \in {"hollow", "blank"}
            /\ {told[m].kind, told[n].kind} \subseteq {"answer", "other"}
  /\ \A n \in Profiles : profile[n].adapter # "mock" /\ told[n].kind = "answer" =>
       reply.status = 200 /\ reply.size <= Limit /\ reply.body \in {"hollow", "blank", "text"}
=============================================================================
