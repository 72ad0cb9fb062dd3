----------------------------- MODULE MaskCodec -----------------------------
(***************************************************************************)
(* The secret-masking codec (src/src/maskcodec.rs): rules applied one      *)
(* after the other to the prompt, a vault of what each placeholder stands  *)
(* for, and the single pass that restores an answer.                       *)
(*                                                                         *)
(* A prompt is a sequence of tokens.  Four rules stand for the seventeen:  *)
(* a key that is masked whole; an assignment, of which a capture group     *)
(* masks the value alone; a connection string, masked with all it holds;   *)
(* an address, of which the benign ones are passed over.                   *)
(***************************************************************************)
EXTENDS Integers, Sequences, SequencesExt, FiniteSets

CONSTANTS
  Keys,        \* what the specific rules recognise by its form
  Values,      \* what is secret only where it stands
  Addresses,
  Benign,      \* is_benign_ip
  Words,       \* everything else, also text in the form of a placeholder
  Placeholders,   \* a sequence: the placeholder of each value of counter
  MaxTokens

\* Placeholders are told apart by the counter; none looks like a secret.
ASSUME MaskAssumption ==
  /\ Benign \subseteq Addresses
  /\ MaxTokens \in Nat /\ Len(Placeholders) \in Nat \ {0} /\ Len(Placeholders) >= MaxTokens
  /\ DOMAIN Placeholders = 1..Len(Placeholders) /\ IsInjective(Placeholders)
  /\ Range(Placeholders) \cap (Keys \union Values \union Addresses \union {"assign", "uri", "host"}) = {}
  /\ (Keys \union Values \union Addresses \union Words) \cap {"assign", "uri", "host"} = {}

VARIABLES
  prompt,      \* what mask is called with
  masked,      \* out
  rule,        \* the rule of RULES that is applied
  pos,
  vault,       \* placeholder -> original; forward is its inverse
  restored     \* after k passes of unmask: restored[k + 1]

codecVars == <<prompt, masked, rule, pos, vault, restored>>

Rules == <<"key", "assignment", "connection", "address">>
MaxPasses == Len(Placeholders)
Marks == {"assign", "uri", "host"}
Token == Keys \union Values \union Addresses \union Words \union Marks

\* The first token, the end of the match and the tokens that are replaced.
Span(first, last, end) == [first |-> first, last |-> last, end |-> end]

\* What a value of an assignment or a connection string may be.  A placeholder is one: it has no quote
\* and no blank, and it is long enough.
Inner(s, k) == k <= Len(s) /\ s[k] \in Keys \union Values \union Range(Placeholders)

\* The spans rule r matches in s from p on.
Matching(r, s, p) ==
  LET at == p..Len(s)
  IN  CASE r = "key" -> {Span(k, k, k) : k \in {j \in at : s[j] \in Keys}}
        [] r = "assignment" ->
             {Span(k + 1, k + 1, k + 1) : k \in {j \in at : s[j] = "assign" /\ Inner(s, j + 1)}}
        [] r = "connection" ->
             {Span(k, k + 2, k + 2) :
                k \in {j \in at : s[j] = "uri" /\ Inner(s, j + 1) /\ j + 2 <= Len(s) /\ s[j + 2] = "host"}}
        [] r = "address" -> {Span(k, k, k) : k \in {j \in at : s[j] \in Addresses}}

\* Mutant: the whole match is replaced, and with it the name the value is assigned to.
ReplaceWhole(s, span, ph) ==
  LET start == IF span.first > 1 /\ s[span.first - 1] = "assign" THEN span.first - 1 ELSE span.first
  IN  SubSeq(s, 1, start - 1) \o <<ph>> \o SubSeq(s, span.last + 1, Len(s))

Replace(s, span, ph) == SubSeq(s, 1, span.first - 1) \o <<ph>> \o SubSeq(s, span.last + 1, Len(s))
Matched(s, span) == SubSeq(s, span.first, span.last)

Unmask(s) == FlattenSeq([k \in DOMAIN s |-> IF s[k] \in DOMAIN vault THEN vault[s[k]] ELSE <<s[k]>>])

-----------------------------------------------------------------------------
CodecInit ==
  /\ prompt \in UNION {[1..n -> Token] : n \in 0..MaxTokens}
  /\ masked = prompt
  /\ rule = 1 /\ pos = 1
  /\ vault = <<>>
  /\ restored = <<>>

Masking == rule <= Len(Rules)
Left == Matching(Rules[rule], masked, pos)
Leftmost == CHOOSE s \in Left : \A t \in Left : s.first <= t.first

\* captures_at finds nothing more: the next rule starts over.
EndRule ==
  /\ Masking /\ Left = {}
  /\ rule' = rule + 1 /\ pos' = 1
  /\ UNCHANGED <<prompt, masked, vault, restored>>

SkipBenign ==
  /\ Masking /\ Left # {}
  /\ Rules[rule] = "address" /\ masked[Leftmost.first] \in Benign
  /\ pos' = Leftmost.end + 1
  /\ UNCHANGED <<prompt, masked, rule, vault, restored>>

PlaceholderOf(original) ==
  IF \E ph \in DOMAIN vault : vault[ph] = original
  THEN CHOOSE ph \in DOMAIN vault : vault[ph] = original
  ELSE Placeholders[Cardinality(DOMAIN vault) + 1]

Mask ==
  /\ Masking /\ Left # {}
  /\ ~(Rules[rule] = "address" /\ masked[Leftmost.first] \in Benign)
  /\ LET original == Matched(masked, Leftmost)
         ph == PlaceholderOf(original)
     IN  /\ vault' = [q \in DOMAIN vault \union {ph} |-> IF q = ph THEN original ELSE vault[q]]
         /\ masked' = Replace(masked, Leftmost, ph)
         /\ pos' = Leftmost.first + 1
  /\ UNCHANGED <<prompt, rule, restored>>

\* The answer echoes the prompt, and is unmasked again and again.
Echo ==
  /\ ~Masking /\ Len(restored) < MaxPasses
  /\ restored' = Append(restored, Unmask(IF restored = <<>> THEN masked ELSE Last(restored)))
  /\ UNCHANGED <<prompt, masked, rule, pos, vault>>

CodecNext == EndRule \/ SkipBenign \/ Mask \/ Echo
CodecSpec == CodecInit /\ [][CodecNext]_codecVars

-----------------------------------------------------------------------------
\* No secret is on the wire, whichever rules overlap on it, and nothing is lost: as many passes as
\* there are placeholders give back a prompt that has no text in the form of a placeholder, and no
\* two placeholders stand for the same secret.
HiddenAndRestorable ==
  /\ ~Masking =>
       /\ \A k \in DOMAIN masked : masked[k] \notin Keys \union (Addresses \ Benign)
       /\ \A k \in DOMAIN masked : masked[k] \in Values => k = 1 \/ masked[k - 1] # "assign"
  /\ (\A k \in DOMAIN prompt : prompt[k] \notin Range(Placeholders))
       /\ Len(restored) = MaxPasses => Last(restored) = prompt
  /\ \A p, q \in DOMAIN vault : vault[p] = vault[q] => p = q

\* "lossless: unmask(mask(x)) == x for every detected span" (maskcodec.rs:14).
Lossless == restored # <<>> => restored[1] = prompt
=============================================================================
