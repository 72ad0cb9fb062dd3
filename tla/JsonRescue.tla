----------------------------- MODULE JsonRescue -----------------------------
(***************************************************************************)
(* The truncated-JSON rescuer (src/src/jsonrescue.rs).  A document arrives *)
(* character by character; at each point the stream may stop and what has  *)
(* arrived is rescued.  Bytes are atoms: a two-byte character is "lead"    *)
(* then "cont", the quote and the backslash are "quote" and "esc".         *)
(***************************************************************************)
EXTENDS Integers, Sequences, SequencesExt, FiniteSets, TLC

CONSTANTS
  Documents,   \* the JSON objects and arrays a model may be writing; the keys of an object stay
               \* different when they are read without their surrogate pairs
  Leads,       \* numbers of prose characters before the first bracket
  MaxDepth     \* MAX_DEPTH

VARIABLES
  document,    \* what the model is writing
  lead,        \* prose before it
  arrived,     \* bytes of the answer that have arrived
  rescued      \* what the rescuer makes of them: NotJson, or a value

rescueVars == <<document, lead, arrived, rescued>>

NotJson == [kind |-> "notJson"]
Scalar(kind, s) == [kind |-> kind, it |-> s]

-----------------------------------------------------------------------------
(* What a value is written as, by an encoder the program does not contain. *)

\* "bad" is a backslash before a two-byte character: an escape JSON does not have.  "pair" is a
\* character beyond the basic plane, which JSON escapes as two surrogate halves.
CharBytes(c) ==
  CASE c = "newline" -> <<"esc", "n">>
    [] c = "unicode" -> <<"esc", "u", "0", "0", "0", "1">>
    [] c = "pair"    -> <<"esc", "u", "d", "8", "0", "0", "esc", "u", "d", "c", "0", "0">>
    [] c = "accent"  -> <<"lead", "cont">>
    [] c = "bad"     -> <<"esc", "lead", "cont">>
    [] OTHER         -> <<c>>

Quoted(s) == <<"quote">> \o FlattenSeq([k \in 1..Len(s) |-> CharBytes(s[k])]) \o <<"quote">>

Commas(parts) == FlattenSeq([k \in 1..Len(parts) |-> IF k = 1 THEN parts[k] ELSE <<",">> \o parts[k]])

\* An object is written as the sequence of its members, so the order of its keys is the writer's.
RECURSIVE Encode(_)
Encode(v) ==
  CASE v.kind = "string" -> Quoted(v.it)
    [] v.kind = "number" -> v.it
    [] v.kind = "null"   -> <<"n", "u", "l", "l">>
    [] v.kind = "array"  -> <<"[">> \o Commas([k \in 1..Len(v.it) |-> Encode(v.it[k])]) \o <<"]">>
    [] v.kind = "object" ->
         <<"{">> \o Commas([k \in 1..Len(v.it) |->
                              Quoted(v.it[k][1]) \o <<":">> \o Encode(v.it[k][2])]) \o <<"}">>

-----------------------------------------------------------------------------
(* The parser.  Each operator returns where it stopped, the value (NotJson  *)
(* for None) and whether every character it read began on a boundary.       *)

At(i, v, onBoundary) == [i |-> i, v |-> v, onBoundary |-> onBoundary]
Ended(b, i) == i > Len(b)

\* from_str_radix and char::from_u32 of four hexadecimal digits: half a pair is no character.
FromHex(hex) ==
  IF hex[1] = "d" /\ hex[2] \in {"8", "9", "a", "b", "c", "d", "e", "f"} THEN <<>> ELSE <<"unicode">>

RECURSIVE StringFrom(_, _, _)
StringFrom(b, i, out) ==
  IF Ended(b, i) THEN At(i, Scalar("string", out), TRUE)
  ELSE CASE b[i] = "quote" -> At(i + 1, Scalar("string", out), TRUE)
         [] b[i] = "esc" ->
              IF Ended(b, i + 1) THEN At(i + 1, Scalar("string", out), TRUE)
              ELSE IF b[i + 1] = "u"
                   THEN IF i + 5 > Len(b)
                        THEN At(Len(b) + 1, Scalar("string", out), TRUE)
                        ELSE StringFrom(b, i + 6, out \o FromHex(SubSeq(b, i + 2, i + 5)))
                   ELSE StringFrom(b, i + 2, IF b[i + 1] = "n" THEN Append(out, "newline") ELSE out)
         [] b[i] = "lead" -> StringFrom(b, i + 2, Append(out, "accent"))
         [] b[i] = "cont" -> At(Len(b) + 1, Scalar("string", out), FALSE)
         [] OTHER -> StringFrom(b, i + 1, Append(out, b[i]))

Literal(b, i) ==
  LET null == <<"n", "u", "l", "l">>
      rest == SubSeq(b, i, Len(b))
  IN  IF IsPrefix(null, rest) THEN At(i + 4, Scalar("null", null), TRUE)
      ELSE IF rest # <<>> /\ IsStrictPrefix(rest, null)
      THEN At(Len(b) + 1, Scalar("null", null), TRUE)
      ELSE At(i, NotJson, TRUE)

Digits == {"0", "1"}
NumberBytes == Digits \union {"-", "."}
\* What str::parse::<f64> accepts of these characters.
Parses(tok) ==
  LET body == IF tok # <<>> /\ tok[1] = "-" THEN Tail(tok) ELSE tok
  IN  /\ \E k \in 1..Len(body) : body[k] \in Digits
      /\ \A k \in 1..Len(body) : body[k] # "-"
      /\ Cardinality({k \in 1..Len(body) : body[k] = "."}) <= 1

\* "1." reads as 1.0, which is the number 1.
NumberOf(tok) == Scalar("number", IF Last(tok) = "." THEN Front(tok) ELSE tok)

\* Mutant: a token that does not parse as it stands is given up.
NumberUntrimmed(b, i) ==
  LET stop == CHOOSE j \in i..(Len(b) + 1) :
                /\ j > Len(b) \/ b[j] \notin NumberBytes
                /\ \A k \in i..(j - 1) : b[k] \in NumberBytes
      tok == SubSeq(b, i, stop - 1)
  IN  IF Last(tok) # "." /\ Parses(tok) THEN At(stop, NumberOf(tok), TRUE) ELSE At(stop, NotJson, TRUE)

Number(b, i) ==
  LET stop == CHOOSE j \in i..(Len(b) + 1) :
                /\ j > Len(b) \/ b[j] \notin NumberBytes
                /\ \A k \in i..(j - 1) : b[k] \in NumberBytes
      good == {j \in i..(stop - 1) : Parses(SubSeq(b, i, j))}
  IN  IF good = {} THEN At(stop, NotJson, TRUE)
      ELSE At(stop, NumberOf(SubSeq(b, i, CHOOSE j \in good : \A k \in good : k <= j)), TRUE)

RECURSIVE ValueAt(_, _, _), ArrayFrom(_, _, _, _), ObjectFrom(_, _, _, _)
ValueAt(b, i, depth) ==
  IF depth > MaxDepth \/ Ended(b, i) THEN At(i, NotJson, TRUE)
  ELSE CASE b[i] = "{" -> ObjectFrom(b, i + 1, depth, <<>>)
         [] b[i] = "[" -> ArrayFrom(b, i + 1, depth, <<>>)
         [] b[i] = "quote" -> StringFrom(b, i + 1, <<>>)
         [] b[i] = "n" -> Literal(b, i)
         [] b[i] \in Digits \union {"-"} -> Number(b, i)
         [] OTHER -> At(i, NotJson, TRUE)

ArrayFrom(b, i, depth, items) ==
  IF Ended(b, i) THEN At(i, Scalar("array", items), TRUE)
  ELSE CASE b[i] = "]" -> At(i + 1, Scalar("array", items), TRUE)
         [] b[i] = "," -> ArrayFrom(b, i + 1, depth, items)
         [] OTHER ->
              LET r == ValueAt(b, i, depth + 1)
              IN  IF r.v = NotJson \/ ~r.onBoundary
                  THEN At(r.i, Scalar("array", items), r.onBoundary)
                  ELSE ArrayFrom(b, r.i, depth, Append(items, r.v))

\* The members, in the order they were first written.
Insert(members, key, v) ==
  IF \E k \in DOMAIN members : members[k][1] = key
  THEN [k \in DOMAIN members |-> IF members[k][1] = key THEN <<key, v>> ELSE members[k]]
  ELSE Append(members, <<key, v>>)

ObjectFrom(b, i, depth, members) ==
  LET stop(j, aligned) == At(j, Scalar("object", members), aligned)
  IN  IF Ended(b, i) THEN stop(i, TRUE)
      ELSE CASE b[i] = "}" -> stop(i + 1, TRUE)
             [] b[i] = "," -> ObjectFrom(b, i + 1, depth, members)
             [] b[i] = "quote" ->
                  LET k == StringFrom(b, i + 1, <<>>)
                      r == ValueAt(b, k.i + 1, depth + 1)
                  IN  IF ~k.onBoundary \/ Ended(b, k.i) THEN stop(k.i, k.onBoundary)
                      ELSE IF b[k.i] # ":" THEN stop(k.i, TRUE)
                      ELSE IF r.v = NotJson \/ ~r.onBoundary THEN stop(r.i, r.onBoundary)
                      ELSE ObjectFrom(b, r.i, depth, Insert(members, k.v.it, r.v))
             [] OTHER -> stop(i, TRUE)

-----------------------------------------------------------------------------
(* rescue, and the stream it is called on.                                 *)

Answer == [k \in 1..lead |-> "x"] \o Encode(document)
Brackets(b) == {k \in 1..Len(b) : b[k] \in {"{", "["}}
Body(b) == SubSeq(b, CHOOSE k \in Brackets(b) : \A j \in Brackets(b) : k <= j, Len(b))

\* A whole document is intact: serde_json reads it, and no proper prefix of it.  The strict parse is
\* not modelled apart from that, so a document with a "bad" character goes to the lenient parser.
RECURSIVE WellFormed(_)
WellFormed(v) ==
  CASE v.kind = "string" -> \A k \in DOMAIN v.it : v.it[k] # "bad"
    [] v.kind = "array"  -> \A k \in DOMAIN v.it : WellFormed(v.it[k])
    [] v.kind = "object" -> \A k \in DOMAIN v.it : WellFormed(v.it[k][2])
    [] OTHER -> TRUE

Parsed(b) == IF Brackets(b) = {} THEN At(1, NotJson, TRUE) ELSE ValueAt(Body(b), 1, 0)

Rescue(b) ==
  LET p == Parsed(b)
  IN  IF b = Answer /\ WellFormed(document) THEN document
      ELSE IF p.v = NotJson THEN NotJson
      ELSE IF ~Ended(Body(b), p.i) THEN NotJson
      ELSE p.v

RescueInit ==
  /\ document \in Documents
  /\ lead \in Leads
  /\ arrived = 0
  /\ rescued = NotJson

\* The next character arrives, whole: the answer is a string.
Receive ==
  /\ arrived < Len(Answer)
  /\ LET width == IF Answer[arrived + 1] = "lead" THEN 2 ELSE 1
     IN  /\ arrived' = arrived + width
         /\ rescued' = Rescue(SubSeq(Answer, 1, arrived + width))
  /\ UNCHANGED <<document, lead>>

RescueNext == Receive
RescueSpec == RescueInit /\ [][RescueNext]_rescueVars

-----------------------------------------------------------------------------
RECURSIVE Within(_, _)
\* v is w cut short: a string or a number by characters, a container by its last members.
Within(v, w) ==
  /\ v.kind = w.kind
  /\ CASE v.kind = "array" ->
            /\ Len(v.it) <= Len(w.it)
            /\ \A k \in DOMAIN v.it : IF k < Len(v.it) THEN v.it[k] = w.it[k] ELSE Within(v.it[k], w.it[k])
       [] v.kind = "object" ->
            /\ Len(v.it) <= Len(w.it)
            /\ \A k \in DOMAIN v.it : /\ v.it[k][1] = w.it[k][1]
                                      /\ IF k < Len(v.it) THEN v.it[k][2] = w.it[k][2]
                                         ELSE Within(v.it[k][2], w.it[k][2])
       [] OTHER -> IsPrefix(v.it, w.it)

RECURSIVE Depth(_)
Depth(v) ==
  LET inner == CASE v.kind = "array"  -> {Depth(v.it[k]) : k \in DOMAIN v.it}
                 [] v.kind = "object" -> {Depth(v.it[k][2]) : k \in DOMAIN v.it}
                 [] OTHER -> {}
      deepest(S) == CHOOSE d \in S : \A e \in S : e <= d
  IN  IF v.kind \notin {"array", "object"} THEN 0 ELSE 1 + (IF inner = {} THEN 0 ELSE deepest(inner) )

Shallow == Depth(document) <= MaxDepth

\* v as the lenient parser reads it: the halves of a surrogate pair are decoded one by one and dropped.
Unpaired(s) == SelectSeq(s, LAMBDA c : c # "pair")
RECURSIVE WithoutPairs(_)
WithoutPairs(v) ==
  [v EXCEPT !.it = CASE v.kind = "string" -> Unpaired(v.it)
                     [] v.kind = "array"  -> [k \in DOMAIN v.it |-> WithoutPairs(v.it[k])]
                     [] v.kind = "object" ->
                          [k \in DOMAIN v.it |-> <<Unpaired(v.it[k][1]), WithoutPairs(v.it[k][2])>>]
                     [] OTHER -> v.it]

\* "It only closes what the model opened" (jsonrescue.rs:14): from its first bracket on, every proper
\* prefix of a document is rescued, to the document cut short; what is missing inside that is exactly
\* the characters escaped as surrogate pairs; a longer prefix gives back everything that a shorter one
\* gave; and the whole document, which is read strictly, is given back with its pairs.
ClosesWhatWasOpened ==
  [][Shallow /\ WellFormed(document) =>
       /\ arrived' \in (lead + 1)..(Len(Answer) - 1) =>
            rescued' # NotJson /\ Within(rescued', WithoutPairs(document))
       /\ rescued # NotJson => rescued' # NotJson /\ Within(rescued, WithoutPairs(rescued'))
       /\ arrived' = Len(Answer) => rescued' = document]_rescueVars

\* The SAFETY comment of the string scanner (jsonrescue.rs:227): the cursor is only ever on the first
\* byte of a character, so the unchecked conversion of the rest is sound.
ReadsOnBoundary == Parsed(SubSeq(Answer, 1, arrived)).onBoundary
=============================================================================
