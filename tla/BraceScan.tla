----------------------------- MODULE BraceScan -----------------------------
(***************************************************************************)
(* The bracket balance of verify.rs (src/src/verify.rs): one scan of the   *)
(* output with a mode per kind of literal and comment.  An unbalanced      *)
(* output is rejected as truncated, so a bracket of a literal or a comment *)
(* that is counted costs a paid answer, and one of the code that is missed *)
(* lets a truncated answer through.                                        *)
(*                                                                         *)
(* The output is written as pieces of source, each a sequence of character *)
(* atoms: "dq", "sq" and "bs" are the quotes and the backslash, "nl" the   *)
(* end of a line.                                                          *)
(***************************************************************************)
EXTENDS Integers, Sequences, SequencesExt, FiniteSets

CONSTANTS
  Atoms,      \* characters of the code that start no literal and no comment
  Literals,   \* string and character literals and comments, each whole
  MaxPieces,
  MaxHashes   \* no raw string of Literals has more

\* What the language takes for a whole literal: a quoted one ends at the first quote that is not
\* escaped, where `starts` are the positions of its characters and escapes, a comment at its first
\* end, and a raw string at the first quote that as many hashes follow as it was opened with.
QuotedLiteral(q, l) ==
  /\ Len(l) >= 2 /\ l[1] = q /\ l[Len(l)] = q
  /\ \E starts \in SUBSET (2..Len(l)) :
       /\ {2, Len(l)} \subseteq starts
       /\ \A k \in starts \ {Len(l)} :
            l[k] # q /\ (IF l[k] = "bs" THEN k + 2 ELSE k + 1) \in starts
BlockComment(l) ==
  /\ Len(l) >= 4 /\ l[1] = "/" /\ l[2] = "*" /\ l[Len(l) - 1] = "*" /\ l[Len(l)] = "/"
  /\ \A k \in 3..(Len(l) - 2) : ~(l[k] = "*" /\ l[k + 1] = "/")
Comment(l) ==
  /\ Len(l) >= 3 /\ l[1] = "/" /\ l[2] = "/" /\ l[Len(l)] = "nl"
  /\ \A k \in 1..(Len(l) - 1) : l[k] # "nl"
RawString(hashes, l) ==
  /\ Len(l) >= 2 * hashes + 3 /\ l[1] = "r"
  /\ l[hashes + 2] = "dq" /\ l[Len(l) - hashes] = "dq"
  /\ \A k \in 1..hashes : l[k + 1] = "#" /\ l[Len(l) - hashes + k] = "#"
  /\ \A k \in hashes + 3..(Len(l) - hashes - 1) :
       l[k] = "dq" => \E j \in 1..hashes : l[k + j] # "#"

ASSUME ScanAssumption ==
  /\ Atoms \cap {"dq", "sq", "bs", "/", "r", "#"} = {}
  /\ MaxHashes \in Nat /\ MaxPieces \in Nat
  /\ \A l \in Literals :
       /\ l \in Seq(Range(l))
       /\ \/ QuotedLiteral("dq", l) \/ QuotedLiteral("sq", l) \/ BlockComment(l) \/ Comment(l)
          \/ \E hashes \in 0..MaxHashes : RawString(hashes, l)

VARIABLES
  pieces,     \* the output, in pieces
  chars,      \* the iterator: the position after the last character taken
  depth,
  mode        \* the in_... flags: at most one is set; <<"raw", n>> with raw_hash_count n

scanVars == <<pieces, chars, depth, mode>>

Code == <<"code">>
Double == <<"double">>
Single == <<"single">>
Block == <<"block">>
Raw(hashes) == <<"raw", hashes>>

Opening == {"(", "{", "["}
Closing == {")", "}", "]"}
Source == {<<a>> : a \in Atoms} \union Literals

Output == FlattenSeq(pieces)
c == Output[chars]
Sees(k, char) == chars + k <= Len(Output) /\ Output[chars + k] = char

\* The number of hashes from the character after c on.
Hashes == CHOOSE n \in 0..(Len(Output) - chars) :
            /\ \A k \in 1..n : Sees(k, "#")
            /\ ~Sees(n + 1, "#")

ScanInit ==
  /\ pieces \in UNION {[1..n -> Source] : n \in 0..MaxPieces}
  /\ chars = 1 /\ depth = 0 /\ mode = Code

\* The next iteration starts after the k characters this one consumed.
Consume(k) == chars' = chars + k
More == chars <= Len(Output)

OpenBlock ==
  /\ More /\ mode = Code /\ c = "/" /\ Sees(1, "*")
  /\ mode' = Block
  /\ Consume(2)
  /\ UNCHANGED <<pieces, depth>>

InBlock ==
  /\ More /\ mode = Block
  /\ IF c = "*" /\ Sees(1, "/") THEN mode' = Code /\ Consume(2) ELSE mode' = mode /\ Consume(1)
  /\ UNCHANGED <<pieces, depth>>

StartsRaw == mode = Code /\ c = "r" /\ Sees(Hashes + 1, "dq")
OpenRaw ==
  /\ More /\ StartsRaw
  /\ mode' = Raw(Hashes)
  /\ Consume(Hashes + 2)
  /\ UNCHANGED <<pieces, depth>>

\* Mutant: any quote followed by a hash ends the string.
EndsRawSoon(hashes) == c = "dq" /\ (hashes > 0 => Hashes > 0)
EndsRaw(hashes) == c = "dq" /\ Hashes = hashes
InRaw ==
  /\ More
  /\ \E n \in 0..MaxHashes :
       /\ mode = Raw(n)
       /\ IF EndsRaw(n) THEN mode' = Code /\ Consume(n + 1) ELSE mode' = mode /\ Consume(1)
  /\ UNCHANGED <<pieces, depth>>

EndOfLine == CHOOSE j \in chars..Len(Output) + 1 :
               /\ j = Len(Output) + 1 \/ Output[j] = "nl"
               /\ \A k \in chars..(j - 1) : Output[k] # "nl"
LineComment ==
  /\ More /\ mode = Code /\ c = "/" /\ Sees(1, "/")
  /\ chars' = EndOfLine + 1
  /\ UNCHANGED <<pieces, depth, mode>>

Escape ==
  /\ More /\ mode \in {Double, Single} /\ c = "bs"
  /\ Consume(2)
  /\ UNCHANGED <<pieces, depth, mode>>

Toggled(m) == IF mode = m THEN Code ELSE m
Character ==
  /\ More /\ mode \in {Code, Double, Single}
  /\ ~(mode = Code /\ c = "/" /\ (Sees(1, "*") \/ Sees(1, "/")))
  /\ ~StartsRaw
  /\ ~(mode # Code /\ c = "bs")
  /\ mode' = CASE c = "dq" /\ mode # Single -> Toggled(Double)
               [] c = "sq" /\ mode # Double -> Toggled(Single)
               [] OTHER -> mode
  /\ depth' = CASE mode = Code /\ c \in Opening -> depth + 1
                [] mode = Code /\ c \in Closing -> depth - 1
                [] OTHER -> depth
  /\ Consume(1)
  /\ UNCHANGED pieces

ScanNext == OpenBlock \/ InBlock \/ OpenRaw \/ InRaw \/ LineComment \/ Escape \/ Character
ScanSpec == ScanInit /\ [][ScanNext]_scanVars

-----------------------------------------------------------------------------
\* The balance of the pieces that are code.
Pieces(S) == {k \in DOMAIN pieces : \E a \in S : pieces[k] = <<a>>}
Balance == Cardinality(Pieces(Opening)) - Cardinality(Pieces(Closing))
=============================================================================
