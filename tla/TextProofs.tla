----------------------------- MODULE TextProofs -----------------------------
(***************************************************************************)
(* Texts that are cut to a budget, scanned for declarations, masked and    *)
(* restored, and scanned for brackets.                                     *)
(***************************************************************************)
EXTENDS PrefixFit, SymbolScan, MaskCodec, Verify, SetProofs, SequenceTheorems

-----------------------------------------------------------------------------
(***************************************************************************)
(* The budget fit, for every number of symbols, every count and every      *)
(* budget.                                                                 *)
(***************************************************************************)

\* The middle of a non-empty interval is in it.
LEMMA MidInside == ASSUME NEW a \in Int, NEW b \in Int, a <= b
                   PROVE  (a + b) \div 2 \in Int /\ a <= (a + b) \div 2 /\ (a + b) \div 2 <= b
  OBVIOUS

\* At the start everything is open: nothing is excluded but the empty prefix, which fits.
LEMMA FitInitInv == FitInit => FitInv
<1> SUFFICES ASSUME FitInit PROVE FitInv
  OBVIOUS
<1>1. symbols \in Nat /\ counts \in [Lengths -> Nat]
  BY FitAssumption DEF FitInit, Lengths
<1>2. 0 \in Lengths /\ counts[0] = 0
  BY <1>1 DEF FitInit, Lengths
<1>3. Fits(0)
  BY <1>2, FitAssumption DEF Fits
<1> QED
  BY <1>1, <1>2, <1>3 DEF FitInit, FitInv, FitTypeOK, Lengths

\* A probe moves low past what fits or high below what does not; the count grows, so all on that side
\* of the middle goes with it.
LEMMA FitProbeInv == FitInv /\ Probe => FitInv'
<1> SUFFICES ASSUME FitInv, Probe PROVE FitInv'
  OBVIOUS
<1>1. /\ symbols' = symbols /\ counts' = counts /\ symbols \in Nat /\ counts \in [Lengths -> Nat]
      /\ low \in 1..(symbols + 1) /\ high \in 0..symbols /\ low <= high
  BY DEF FitInv, FitTypeOK, Probe, Searching
<1>2. Mid \in Int /\ low <= Mid /\ Mid <= high /\ Mid \in Lengths /\ Lengths' = Lengths
  BY <1>1, MidInside DEF Mid, Lengths
<1>3. Grows /\ Grows'
  BY <1>1 DEF FitInv, Grows, Lengths
<1>4. CASE Fits(Mid)
  <2>1. bestPrefix' = Mid /\ low' = Mid + 1 /\ high' = high
    BY <1>4 DEF Probe
  <2>2. FitTypeOK'
    BY <1>1, <1>2, <2>1 DEF FitTypeOK, Lengths
  <2>3. bestPrefix' = low' - 1 /\ Fits(bestPrefix)'
    BY <1>1, <1>2, <1>4, <2>1 DEF Fits
  <2>4. (\A k \in Lengths : k > high => ~Fits(k))'
    BY <1>1, <1>2, <2>1 DEF FitInv, Fits
  <2> QED
    BY <1>3, <2>2, <2>3, <2>4 DEF FitInv
<1>5. CASE ~Fits(Mid)
  <2>1. high' = Mid - 1 /\ bestPrefix' = bestPrefix /\ low' = low
    BY <1>5 DEF Probe
  <2>2. FitTypeOK'
    BY <1>1, <1>2, <2>1 DEF FitInv, FitTypeOK, Lengths
  <2>3. bestPrefix' = low' - 1 /\ Fits(bestPrefix)'
    BY <1>1, <2>1 DEF FitInv, Fits
  <2>4. ASSUME NEW k \in Lengths, k > Mid - 1 PROVE ~Fits(k)
    <3>1. k \in Int /\ Mid <= k
      BY <1>1, <1>2, <2>4 DEF Lengths
    <3>2. counts[Mid] <= counts[k] /\ counts[Mid] \in Nat /\ counts[k] \in Nat
      BY <1>1, <1>2, <1>3, <2>4, <3>1 DEF Grows
    <3> QED
      BY <1>5, <3>2, FitAssumption DEF Fits
  <2>5. (\A k \in Lengths : k > high => ~Fits(k))'
    BY <1>1, <1>2, <2>1, <2>4 DEF Fits
  <2> QED
    BY <1>3, <2>2, <2>3, <2>5 DEF FitInv
<1> QED
  BY <1>4, <1>5

\* The search for the context never leaves the budget, and ends with the longest prefix that fits.
THEOREM FitsAndLargest == FitSpec => []FindsLargest
<1>1. FitInit => FitInv
  BY FitInitInv
<1>2. FitInv /\ [FitNext]_fitVars => FitInv'
  <2>1. ASSUME FitInv, UNCHANGED fitVars PROVE FitInv'
    BY <2>1 DEF fitVars, FitInv, FitTypeOK, Grows, Fits, Lengths
  <2> QED
    BY <2>1, FitProbeInv DEF FitNext
<1>3. FitInv => FindsLargest
  <2> SUFFICES ASSUME FitInv PROVE FindsLargest
    OBVIOUS
  <2>1. bestPrefix = low - 1 /\ Fits(bestPrefix) /\ low \in Int /\ high \in Int
    BY DEF FitInv, FitTypeOK
  <2>2. ASSUME ~Searching, NEW k \in Lengths, Fits(k) PROVE k <= bestPrefix
    BY <2>1, <2>2 DEF FitInv, FitTypeOK, Lengths, Searching
  <2> QED
    BY <2>1, <2>2 DEF FindsLargest
<1> QED
  BY <1>1, <1>2, <1>3, PTL DEF FitSpec
-----------------------------------------------------------------------------
(***************************************************************************)
(* No declaration is lost between the symbols a file is cut into, for any  *)
(* lines, any window and any bound on the lines.                           *)
(***************************************************************************)

LinesOK ==
  \/ lang = "brace" /\ lines \in UNION {[1..n -> BraceLines] : n \in 1..MaxLines}
  \/ lang = "python" /\ lines \in UNION {[1..n -> IndentLines] : n \in 1..MaxLines}

SymbolTypeOK ==
  /\ LinesOK
  /\ Len(lines) \in Nat /\ DOMAIN lines = 1..Len(lines)
  /\ at \in 1..Len(lines) + 1
  /\ blocks \in Seq(Nat \X Nat)

\* Where a block may end.
Ends(from) == from..LowerOf(from + Window, Len(lines))

\* Symbols are in the order of their declarations, the last of them before the scan.
InOrder ==
  /\ \A m \in DOMAIN blocks : blocks[m][1] \in 1..at - 1 /\ blocks[m][2] \in Ends(blocks[m][1])
  /\ \A m, n \in DOMAIN blocks : m < n => blocks[m][1] < blocks[n][1]

\* By braces the scan is past every symbol; by indentation every symbol is what
\* the indentation says.
AsScanned ==
  /\ lang = "brace" =>
       /\ \A m \in DOMAIN blocks : blocks[m][2] < at
       /\ \A m, n \in DOMAIN blocks : m < n => blocks[m][2] < blocks[n][1]
       /\ \A i \in 1..at - 1 :
            lines[i].declares => \E m \in DOMAIN blocks : i \in blocks[m][1]..blocks[m][2]
  /\ lang = "python" =>
       /\ \A m \in DOMAIN blocks :
            lines[blocks[m][1]].declares /\ blocks[m][2] = IndentBlockEnd(blocks[m][1])
       /\ \A i \in 1..at - 1 :
            lines[i].declares => \E m \in DOMAIN blocks : blocks[m][1] = i

SymbolScanInv == SymbolTypeOK /\ InOrder /\ AsScanned

LEMMA ScanNumbers ==
  ASSUME SymbolTypeOK
  PROVE  /\ Len(lines) \in Nat /\ DOMAIN lines = 1..Len(lines)
         /\ at \in Nat /\ 1 <= at /\ at <= Len(lines) + 1
         /\ Window \in Nat /\ 0 < Window
<1>1. Window \in Nat /\ 0 < Window
  BY SymbolAssumption
<1>2. Len(lines) \in Nat /\ DOMAIN lines = 1..Len(lines) /\ at \in 1..Len(lines) + 1
  BY DEF SymbolTypeOK
<1> QED
  BY <1>1, <1>2

LEMMA LineTypes ==
  ASSUME SymbolTypeOK, lang = "python"
  PROVE  \A i \in DOMAIN lines : /\ lines[i].indent \in Nat
                                 /\ lines[i].declares => ~lines[i].blank
<1>1. \A i \in DOMAIN lines : lines[i] \in IndentLines
  BY DEF SymbolTypeOK, LinesOK
<1> QED
  BY <1>1, SymbolAssumption

LEMMA LowerOfIs ==
  ASSUME NEW x \in Int, NEW y \in Int
  PROVE  LowerOf(x, y) \in {x, y} /\ LowerOf(x, y) <= x /\ LowerOf(x, y) <= y
BY DEF LowerOf

LEMMA BraceEnds ==
  ASSUME SymbolTypeOK, NEW from \in DOMAIN lines
  PROVE  BraceBlockEnd(from) \in Ends(from)
<1> DEFINE last == LowerOf(from + Window - 1, Len(lines))
           closing == {j \in from..last : ScanTo(from, j).closed}
           unopened == \/ from + Lookahead <= last /\ ~ScanTo(from, from + Lookahead).opened
                       \/ ~ScanTo(from, last).opened
           end == IF unopened THEN from
                  ELSE IF closing # {} THEN CHOOSE j \in closing : \A k \in closing : j <= k
                  ELSE LowerOf(from + Window, Len(lines))
<1>1. from \in Nat /\ Len(lines) \in Nat /\ from <= Len(lines) /\ Window \in Nat /\ 0 < Window
  BY ScanNumbers
<1>2. /\ last \in Nat /\ last <= from + Window - 1 /\ last <= Len(lines)
      /\ LowerOf(from + Window, Len(lines)) \in Nat
      /\ from <= LowerOf(from + Window, Len(lines)) /\ last <= LowerOf(from + Window, Len(lines))
  BY <1>1 DEF LowerOf
<1>3. BraceBlockEnd(from) = end
  BY DEF BraceBlockEnd
<1>4. closing \in SUBSET Nat /\ closing \subseteq from..last
  BY <1>1, <1>2
<1> HIDE DEF closing, unopened
<1>5. closing # {} => (CHOOSE j \in closing : \A k \in closing : j <= k) \in closing
  BY <1>4, LeastOf
<1>6. end \in {from, LowerOf(from + Window, Len(lines))} \union closing
  BY <1>5
<1>7. closing \subseteq from..LowerOf(from + Window, Len(lines))
  BY <1>1, <1>2, <1>4
<1>8. {from, LowerOf(from + Window, Len(lines))} \subseteq from..LowerOf(from + Window, Len(lines))
  BY <1>1, <1>2
<1> HIDE DEF end
<1>9. end \in from..LowerOf(from + Window, Len(lines))
  BY <1>6, <1>7, <1>8
<1> QED
  BY <1>3, <1>9 DEF Ends

-----------------------------------------------------------------------------
(* Blocks by indentation. *)

\* The lines with text within the window of a declaration, and those of its block.
Reach(from) == from + 1..LowerOf(from + Window - 1, Len(lines))
Text(from) == {j \in Reach(from) : ~lines[j].blank}
Body(from) == {j \in Text(from) : \A k \in Text(from) : k <= j => lines[k].indent > lines[from].indent}

LEMMA IndentEnds ==
  ASSUME SymbolTypeOK, NEW from \in DOMAIN lines
  PROVE  /\ IndentBlockEnd(from) \in {from} \union Body(from)
         /\ \A j \in Body(from) : j <= IndentBlockEnd(from)
         /\ IndentBlockEnd(from) \in Ends(from)
<1> DEFINE end == IF Body(from) = {} THEN from
                  ELSE CHOOSE j \in Body(from) : \A k \in Body(from) : k <= j
<1>1. from \in Nat /\ Len(lines) \in Nat /\ from <= Len(lines) /\ Window \in Nat /\ 0 < Window
  BY ScanNumbers
<1>2. IndentBlockEnd(from) = end
  BY DEF IndentBlockEnd, Body, Text, Reach
<1>3. /\ LowerOf(from + Window, Len(lines)) \in Nat /\ from <= LowerOf(from + Window, Len(lines))
      /\ LowerOf(from + Window - 1, Len(lines)) \in Nat
      /\ LowerOf(from + Window - 1, Len(lines)) <= LowerOf(from + Window, Len(lines))
  BY <1>1 DEF LowerOf
<1>4. Body(from) \subseteq from + 1..LowerOf(from + Window - 1, Len(lines))
  BY DEF Body, Text, Reach
<1>5. Body(from) \in SUBSET Nat /\ Body(from) \subseteq 0..LowerOf(from + Window - 1, Len(lines))
  BY <1>1, <1>3, <1>4
<1>6. Body(from) # {} => \E j \in Body(from) : \A k \in Body(from) : k <= j
  BY <1>3, <1>5, GreatestOf
<1>7. end \in {from} \union Body(from) /\ \A j \in Body(from) : j <= end
  BY <1>6
<1> HIDE DEF end
<1>8. end \in from..LowerOf(from + Window, Len(lines))
  BY <1>1, <1>3, <1>4, <1>7
<1> QED
  BY <1>2, <1>7, <1>8 DEF Ends

\* Of two declarations the later one has its block inside the block of the earlier
\* one, apart from it, or on beyond the window of the earlier one.
LEMMA IndentNests ==
  ASSUME SymbolTypeOK, lang = "python",
         NEW a \in DOMAIN lines, NEW b \in DOMAIN lines, a < b, lines[b].declares
  PROVE  \/ IndentBlockEnd(a) < b
         \/ IndentBlockEnd(b) <= IndentBlockEnd(a)
         \/ IndentBlockEnd(b) > a + Window - 1
<1> DEFINE ea == IndentBlockEnd(a)
           eb == IndentBlockEnd(b)
<1> SUFFICES ASSUME ~(ea < b), ~(eb <= ea), ~(eb > a + Window - 1) PROVE FALSE
  OBVIOUS
<1>1. /\ a \in Nat /\ b \in Nat /\ Len(lines) \in Nat /\ a <= Len(lines) /\ b <= Len(lines)
      /\ Window \in Nat /\ 0 < Window /\ DOMAIN lines = 1..Len(lines)
  BY ScanNumbers
<1>2. \A i \in DOMAIN lines : lines[i].indent \in Nat /\ (lines[i].declares => ~lines[i].blank)
  BY LineTypes
<1>3. /\ ea \in {a} \union Body(a) /\ \A j \in Body(a) : j <= ea
      /\ eb \in {b} \union Body(b)
  BY IndentEnds
<1>4. \A from, j \in Nat :
        j \in Reach(from) <=> from < j /\ j <= from + Window - 1 /\ j <= Len(lines)
  BY <1>1 DEF Reach, LowerOf
<1>5. \A from, j \in Nat : j \in Text(from) <=> j \in Reach(from) /\ ~lines[j].blank
  BY <1>1, <1>4 DEF Text, Reach
<1>6. Body(a) \subseteq Text(a) /\ Body(b) \subseteq Text(b)
      /\ Text(a) \subseteq Nat /\ Text(b) \subseteq Nat
  BY <1>1 DEF Body, Text, Reach
<1> HIDE DEF ea, eb
<1>7. ea \in Nat /\ eb \in Nat /\ b <= ea /\ ea < eb /\ eb <= a + Window - 1
  BY <1>1, <1>3, <1>6
<1>8. ea \in Body(a) /\ eb \in Body(b)
  BY <1>1, <1>3, <1>7
<1>9. b \in Text(a)
  <2>1. ea <= a + Window - 1 /\ ea <= Len(lines)
    BY <1>4, <1>5, <1>6, <1>7, <1>8, <1>1
  <2> QED
    BY <2>1, <1>1, <1>2, <1>4, <1>5, <1>7
<1>10. lines[b].indent > lines[a].indent
  BY <1>7, <1>8, <1>9 DEF Body
<1>11. eb \in Text(a)
  <2>1. eb <= Len(lines) /\ ~lines[eb].blank
    BY <1>1, <1>4, <1>5, <1>6, <1>7, <1>8
  <2> QED
    BY <2>1, <1>1, <1>4, <1>5, <1>7
<1>12. ASSUME NEW k \in Text(a), k <= eb PROVE lines[k].indent > lines[a].indent
  <2>1. k \in Nat /\ k \in DOMAIN lines
    BY <1>1, <1>4, <1>5, <1>6
  <2>2. CASE k <= ea
    BY <2>2, <1>8, <1>12 DEF Body
  <2>3. CASE ea < k
    <3>1. k \in Reach(b)
      <4>1. eb <= b + Window - 1
        BY <1>1, <1>4, <1>5, <1>6, <1>7, <1>8
      <4> QED
        BY <4>1, <2>1, <2>3, <1>1, <1>4, <1>7, <1>12
    <3>2. k \in Text(b)
      BY <3>1, <2>1, <1>1, <1>5, <1>6, <1>12
    <3>3. lines[k].indent > lines[b].indent
      BY <3>2, <1>8, <1>12 DEF Body
    <3> QED
      BY <3>3, <2>1, <1>1, <1>2, <1>10
  <2> QED
    BY <2>1, <2>2, <2>3, <1>7
<1>13. eb \in Body(a)
  BY <1>11, <1>12 DEF Body
<1> QED
  BY <1>3, <1>7, <1>13

-----------------------------------------------------------------------------
(* The scan. *)

LEMMA SymbolInitInv == SymbolInit => SymbolScanInv
<1> SUFFICES ASSUME SymbolInit PROVE SymbolScanInv
  OBVIOUS
<1>1. PICK n \in 1..MaxLines : lines \in [1..n -> BraceLines] \/ lines \in [1..n -> IndentLines]
  BY DEF SymbolInit
<1>2. Len(lines) \in Nat /\ DOMAIN lines = 1..Len(lines) /\ Len(lines) >= 1
  <2>1. n \in Nat /\ n >= 1
    BY SymbolAssumption
  <2>2. DOMAIN lines = 1..n /\ lines \in Seq(BraceLines \union IndentLines)
    BY <1>1, <2>1
  <2> QED
    BY <2>1, <2>2
<1>3. at = 1 /\ blocks = <<>> /\ DOMAIN blocks = {}
  BY DEF SymbolInit
<1>4. SymbolTypeOK
  BY <1>2, <1>3 DEF SymbolTypeOK, LinesOK, SymbolInit
<1>5. InOrder /\ AsScanned
  BY <1>3 DEF InOrder, AsScanned
<1> QED
  BY <1>4, <1>5 DEF SymbolScanInv

\* What a scan does at a line: it may take a block from there to end, and goes on.
Takes(end) == /\ lines[at].declares
              /\ blocks' = Append(blocks, <<at, end>>)
Passes == ~lines[at].declares /\ blocks' = blocks
Stays == UNCHANGED <<lang, lines>>

LEMMA BlockTaken ==
  ASSUME SymbolScanInv, NEW end \in Nat, Takes(end)
  PROVE  /\ blocks' \in Seq(Nat \X Nat)
         /\ DOMAIN blocks' = DOMAIN blocks \union {Len(blocks) + 1}
         /\ \A m \in DOMAIN blocks : m < Len(blocks) + 1 /\ m \in Nat /\ blocks'[m] = blocks[m]
         /\ blocks'[Len(blocks) + 1] = <<at, end>>
         /\ blocks'[Len(blocks) + 1][1] = at /\ blocks'[Len(blocks) + 1][2] = end
         /\ \A m, n \in DOMAIN blocks' : m < n => m \in DOMAIN blocks
<1>1. blocks \in Seq(Nat \X Nat) /\ <<at, end>> \in Nat \X Nat
  BY DEF SymbolScanInv, SymbolTypeOK
<1>2. /\ Append(blocks, <<at, end>>) \in Seq(Nat \X Nat)
      /\ DOMAIN blocks = 1..Len(blocks) /\ Len(blocks) \in Nat
      /\ DOMAIN Append(blocks, <<at, end>>) = 1..Len(blocks) + 1
      /\ \A m \in 1..Len(blocks) : Append(blocks, <<at, end>>)[m] = blocks[m]
      /\ Append(blocks, <<at, end>>)[Len(blocks) + 1] = <<at, end>>
  BY <1>1
<1>3. blocks' = Append(blocks, <<at, end>>)
  BY DEF Takes
<1>4. 1..Len(blocks) + 1 = 1..Len(blocks) \union {Len(blocks) + 1}
  BY <1>2
<1> QED
  BY <1>2, <1>3, <1>4


LEMMA SymbolInvTypes ==
  ASSUME SymbolScanInv
  PROVE  /\ \A m \in DOMAIN blocks : /\ blocks[m][1] \in Nat /\ blocks[m][2] \in Nat
                                     /\ 1 <= blocks[m][1] /\ blocks[m][1] < at
         /\ DOMAIN blocks = 1..Len(blocks) /\ Len(blocks) \in Nat
<1>1. blocks \in Seq(Nat \X Nat)
  BY DEF SymbolScanInv, SymbolTypeOK
<1>2. DOMAIN blocks = 1..Len(blocks) /\ Len(blocks) \in Nat
      /\ \A m \in DOMAIN blocks : blocks[m] \in Nat \X Nat
  BY <1>1
<1>3. \A m \in DOMAIN blocks : blocks[m][1] \in Nat /\ blocks[m][2] \in Nat
  BY <1>2
<1>4. \A m \in DOMAIN blocks : blocks[m][1] \in 1..at - 1
  BY DEF SymbolScanInv, InOrder
<1>5. at \in Nat
  BY ScanNumbers DEF SymbolScanInv
<1> QED
  BY <1>2, <1>3, <1>4, <1>5

\* The symbols stay in order.
LEMMA OrderKept ==
  ASSUME SymbolScanInv, Stays, NEW end \in Nat, NEW next \in Nat, at < next, at' = next,
         at \in DOMAIN lines,
         Passes \/ (Takes(end) /\ end \in Ends(at))
  PROVE  InOrder'
<1>1. CASE Passes
  <2>1. \A m \in DOMAIN blocks : blocks[m][1] \in 1..next - 1
    BY SymbolInvTypes, ScanNumbers DEF SymbolScanInv
  <2> QED
    BY <1>1, <2>1 DEF Passes, Stays, InOrder, SymbolScanInv, Ends
<1>2. CASE Takes(end) /\ end \in Ends(at)
  <2>0. /\ DOMAIN blocks' = DOMAIN blocks \union {Len(blocks) + 1}
        /\ \A m \in DOMAIN blocks : blocks'[m] = blocks[m]
        /\ blocks'[Len(blocks) + 1][1] = at /\ blocks'[Len(blocks) + 1][2] = end
    BY <1>2, BlockTaken
  <2>1. \A m \in DOMAIN blocks' : blocks'[m][1] \in 1..next - 1
    <3>1. \A m \in DOMAIN blocks : blocks[m][1] \in 1..next - 1
      BY SymbolInvTypes, ScanNumbers DEF SymbolScanInv
    <3>2. at \in 1..next - 1
      BY ScanNumbers DEF SymbolScanInv
    <3> QED
      BY <2>0, <3>1, <3>2
  <2>2. \A m \in DOMAIN blocks' : blocks'[m][2] \in Ends(blocks'[m][1])
    <3>1. \A m \in DOMAIN blocks : blocks[m][2] \in Ends(blocks[m][1])
      BY DEF SymbolScanInv, InOrder
    <3> QED
      BY <1>2, <2>0, <3>1
  <2>3. \A from : Ends(from)' = Ends(from)
    BY DEF Ends, Stays
  <2>4. ASSUME NEW m \in DOMAIN blocks', NEW n \in DOMAIN blocks', m < n
        PROVE  blocks'[m][1] < blocks'[n][1]
    <3>1. m \in DOMAIN blocks
      BY <1>2, <2>4, BlockTaken
    <3>2. CASE n \in DOMAIN blocks
      BY <1>2, <2>4, <3>1, <3>2, BlockTaken DEF SymbolScanInv, InOrder
    <3>3. CASE n = Len(blocks) + 1
      BY <1>2, <3>1, <3>3, BlockTaken, SymbolInvTypes
    <3> QED
      BY <1>2, <2>4, <3>2, <3>3, BlockTaken
  <2> QED
    BY <2>1, <2>2, <2>3, <2>4 DEF InOrder
<1> QED
  BY <1>1, <1>2

LEMMA SymbolTypesKept ==
  ASSUME SymbolScanInv, Stays, at' \in 1..Len(lines) + 1, blocks' \in Seq(Nat \X Nat)
  PROVE  SymbolTypeOK'
BY DEF SymbolScanInv, SymbolTypeOK, LinesOK, Stays

LEMMA BraceStep == ASSUME SymbolScanInv, ExtractBraceBlock PROVE SymbolScanInv'
<1> DEFINE end == BraceBlockEnd(at)
<1>1. /\ at \in Nat /\ 1 <= at /\ at <= Len(lines) /\ Len(lines) \in Nat
      /\ at \in DOMAIN lines /\ Window \in Nat /\ 0 < Window /\ SymbolTypeOK
  BY ScanNumbers DEF ExtractBraceBlock, SymbolScanInv
<1>2. end \in Ends(at)
  BY <1>1, BraceEnds
<1>3. Ends(at) = at..LowerOf(at + Window, Len(lines)) /\ LowerOf(at + Window, Len(lines)) <= Len(lines)
      /\ LowerOf(at + Window, Len(lines)) \in Int
  BY <1>1 DEF Ends, LowerOf
<1>4. /\ Stays /\ lang = "brace"
      /\ \/ Takes(end) /\ at' = end + 1
         \/ Passes /\ at' = at + 1
  BY DEF ExtractBraceBlock, Stays, Takes, Passes, AfterBlock
<1> HIDE DEF end
<1>5. end \in Nat /\ at <= end /\ end <= Len(lines)
  BY <1>1, <1>2, <1>3
<1>6. at' \in Nat /\ at < at' /\ at' <= Len(lines) + 1
  BY <1>1, <1>4, <1>5
<1>7. InOrder'
  <2>1. PICK next \in Nat : at' = next /\ at < next
    BY <1>6
  <2> QED
    BY <2>1, <1>1, <1>2, <1>4, <1>5, OrderKept
<1>8. SymbolTypeOK'
  <2>1. blocks' \in Seq(Nat \X Nat)
    BY <1>4, <1>5, BlockTaken DEF SymbolScanInv, SymbolTypeOK, Passes
  <2>2. at' \in 1..Len(lines) + 1
    BY <1>1, <1>6
  <2> QED
    BY <2>1, <2>2, <1>4, SymbolTypesKept
<1>9. lang' # "python"
  BY <1>4 DEF Stays
<1>10. CASE Passes /\ at' = at + 1
  <2>1. \A m \in DOMAIN blocks : blocks[m][2] < at'
    BY <1>1, <1>4, <1>10, SymbolInvTypes DEF SymbolScanInv, AsScanned
  <2>2. \A i \in 1..at' - 1 : i \in 1..at - 1 \/ i = at
    BY <1>1, <1>10
  <2> QED
    BY <2>1, <2>2, <1>4, <1>7, <1>8, <1>9, <1>10 DEF SymbolScanInv, AsScanned, Passes, Stays
<1>11. CASE Takes(end) /\ at' = end + 1
  <2>1. \A m \in DOMAIN blocks' : blocks'[m][2] < at'
    <3>1. /\ DOMAIN blocks' = DOMAIN blocks \union {Len(blocks) + 1}
          /\ \A m \in DOMAIN blocks : blocks'[m] = blocks[m]
          /\ blocks'[Len(blocks) + 1][2] = end
      BY <1>5, <1>11, BlockTaken
    <3>2. \A m \in DOMAIN blocks : blocks[m][2] < at /\ blocks[m][2] \in Nat
      BY <1>4, SymbolInvTypes DEF SymbolScanInv, AsScanned
    <3> QED
      BY <3>1, <3>2, <1>1, <1>5, <1>11
  <2>2. ASSUME NEW m \in DOMAIN blocks', NEW n \in DOMAIN blocks', m < n
        PROVE  blocks'[m][2] < blocks'[n][1]
    <3>1. m \in DOMAIN blocks
      BY <1>5, <1>11, <2>2, BlockTaken
    <3>2. CASE n \in DOMAIN blocks
      BY <1>4, <1>5, <1>11, <2>2, <3>1, <3>2, BlockTaken DEF SymbolScanInv, AsScanned
    <3>3. CASE n = Len(blocks) + 1
      BY <1>4, <1>5, <1>11, <3>1, <3>3, BlockTaken, SymbolInvTypes DEF SymbolScanInv, AsScanned
    <3> QED
      BY <1>5, <1>11, <2>2, <3>2, <3>3, BlockTaken
  <2>3. ASSUME NEW i \in 1..at' - 1, lines'[i].declares
        PROVE  \E m \in DOMAIN blocks' : i \in blocks'[m][1]..blocks'[m][2]
    <3>1. lines' = lines
      BY <1>4 DEF Stays
    <3>2. CASE i \in 1..at - 1
      <4>1. PICK m \in DOMAIN blocks : i \in blocks[m][1]..blocks[m][2]
        BY <1>4, <2>3, <3>1, <3>2 DEF SymbolScanInv, AsScanned
      <4> QED
        BY <4>1, <1>5, <1>11, BlockTaken
    <3>3. CASE i \in at..end
      BY <3>3, <1>5, <1>11, BlockTaken
    <3> QED
      BY <3>2, <3>3, <1>1, <1>5, <1>11
  <2> QED
    BY <2>1, <2>2, <2>3, <1>7, <1>8, <1>9 DEF SymbolScanInv, AsScanned
<1> QED
  BY <1>4, <1>10, <1>11

LEMMA IndentStep == ASSUME SymbolScanInv, ExtractIndentBlock PROVE SymbolScanInv'
<1> DEFINE end == IndentBlockEnd(at)
<1>1. /\ at \in Nat /\ 1 <= at /\ at <= Len(lines) /\ Len(lines) \in Nat
      /\ at \in DOMAIN lines /\ Window \in Nat /\ 0 < Window /\ SymbolTypeOK
  BY ScanNumbers DEF ExtractIndentBlock, SymbolScanInv
<1>2. end \in Ends(at)
  BY <1>1, IndentEnds
<1>3. Ends(at) = at..LowerOf(at + Window, Len(lines)) /\ LowerOf(at + Window, Len(lines)) \in Int
  BY <1>1 DEF Ends, LowerOf
<1>4. /\ Stays /\ lang = "python" /\ at' = at + 1
      /\ Takes(end) \/ Passes
  BY DEF ExtractIndentBlock, Stays, Takes, Passes
<1>5. \A from : IndentBlockEnd(from)' = IndentBlockEnd(from)
  BY <1>4 DEF Stays, IndentBlockEnd
<1>6. end = IndentBlockEnd(at)
  OBVIOUS
<1> HIDE DEF end
<1>7. end \in Nat /\ at <= end
  BY <1>1, <1>2, <1>3
<1>8. InOrder'
  <2>1. PICK next \in Nat : at' = next /\ at < next
    BY <1>1, <1>4
  <2> QED
    BY <2>1, <1>1, <1>2, <1>4, <1>7, OrderKept
<1>9. SymbolTypeOK'
  <2>1. blocks' \in Seq(Nat \X Nat)
    BY <1>4, <1>7, BlockTaken DEF SymbolScanInv, SymbolTypeOK, Passes
  <2>2. at' \in 1..Len(lines) + 1
    BY <1>1, <1>4
  <2> QED
    BY <2>1, <2>2, <1>4, SymbolTypesKept
<1>10. \A i \in 1..at' - 1 : i \in 1..at - 1 \/ i = at
  BY <1>1, <1>4
<1>11. lang' = "python" /\ lines' = lines
  BY <1>4 DEF Stays
<1>12. CASE Passes
  <2>1. blocks' = blocks /\ ~lines[at].declares
    BY <1>12 DEF Passes
  <2>2. \A m \in DOMAIN blocks : /\ lines[blocks[m][1]].declares
                                 /\ blocks[m][2] = IndentBlockEnd(blocks[m][1])
    BY <1>4 DEF SymbolScanInv, AsScanned
  <2>3. \A i \in 1..at - 1 : lines[i].declares => \E m \in DOMAIN blocks : blocks[m][1] = i
    BY <1>4 DEF SymbolScanInv, AsScanned
  <2>4. \A i \in 1..at' - 1 : lines[i].declares => \E m \in DOMAIN blocks' : blocks'[m][1] = i
    BY <2>1, <2>3, <1>10
  <2>5. \A m \in DOMAIN blocks' : /\ lines[blocks'[m][1]].declares
                                  /\ blocks'[m][2] = IndentBlockEnd(blocks'[m][1])
    BY <2>1, <2>2
  <2> QED
    BY <2>4, <2>5, <1>5, <1>8, <1>9, <1>11 DEF SymbolScanInv, AsScanned
<1>13. CASE Takes(end)
  <2>1. ASSUME NEW m \in DOMAIN blocks'
        PROVE  lines[blocks'[m][1]].declares /\ blocks'[m][2] = IndentBlockEnd(blocks'[m][1])
    BY <1>4, <1>6, <1>7, <1>13, BlockTaken DEF SymbolScanInv, AsScanned, Takes
  <2>2. ASSUME NEW i \in 1..at' - 1, lines[i].declares
        PROVE  \E m \in DOMAIN blocks' : blocks'[m][1] = i
    <3>1. CASE i \in 1..at - 1
      <4>1. PICK m \in DOMAIN blocks : blocks[m][1] = i
        BY <1>4, <2>2, <3>1 DEF SymbolScanInv, AsScanned
      <4> QED
        BY <4>1, <1>7, <1>13, BlockTaken
    <3>2. CASE i = at
      BY <3>2, <1>7, <1>13, BlockTaken
    <3> QED
      BY <3>1, <3>2, <1>10
  <2> QED
    BY <2>1, <2>2, <1>5, <1>8, <1>9, <1>11 DEF SymbolScanInv, AsScanned
<1> QED
  BY <1>4, <1>12, <1>13

LEMMA SymbolKept == ASSUME SymbolScanInv, [SymbolNext]_symbolVars PROVE SymbolScanInv'
<1>1. CASE UNCHANGED symbolVars
  <2>1. UNCHANGED <<lang, lines, at, blocks>>
    BY <1>1 DEF symbolVars
  <2>2. SymbolTypeOK' /\ InOrder'
    BY <2>1 DEF SymbolScanInv, SymbolTypeOK, LinesOK, InOrder, Ends
  <2>3. \A from : IndentBlockEnd(from)' = IndentBlockEnd(from)
    BY <2>1 DEF IndentBlockEnd
  <2>4. CASE lang = "brace"
    BY <2>1, <2>2, <2>4 DEF SymbolScanInv, AsScanned
  <2>5. CASE lang = "python"
    <3>1. \A m \in DOMAIN blocks' : /\ lines[blocks'[m][1]].declares
                                    /\ blocks'[m][2] = IndentBlockEnd(blocks'[m][1])
      BY <2>1, <2>5 DEF SymbolScanInv, AsScanned
    <3>2. \A i \in 1..at' - 1 : lines[i].declares => \E m \in DOMAIN blocks' : blocks'[m][1] = i
      BY <2>1, <2>5 DEF SymbolScanInv, AsScanned
    <3> QED
      BY <2>1, <2>2, <2>3, <2>5, <3>1, <3>2 DEF SymbolScanInv, AsScanned
  <2> QED
    BY <2>4, <2>5 DEF SymbolScanInv, SymbolTypeOK, LinesOK
<1> QED
  BY <1>1, BraceStep, IndentStep DEF SymbolNext

LEMMA InvCovers == SymbolScanInv => DeclarationsCovered
<1> SUFFICES ASSUME SymbolScanInv PROVE DeclarationsCovered
  OBVIOUS
<1>1. /\ Len(lines) \in Nat /\ at \in Nat /\ 1 <= at /\ at <= Len(lines) + 1
      /\ DOMAIN lines = 1..Len(lines) /\ Window \in Nat /\ 0 < Window /\ SymbolTypeOK
  BY ScanNumbers DEF SymbolScanInv
<1>2. lang \in {"brace", "python"}
  BY DEF SymbolScanInv, SymbolTypeOK, LinesOK
<1>3. ToSet(blocks) = {blocks[m] : m \in DOMAIN blocks}
  BY DEF ToSet
<1>4. \A n \in 1..LowerOf(at - 1, Len(lines)) : n \in 1..at - 1
  BY <1>1 DEF LowerOf
<1>5. \A n \in 1..LowerOf(at - 1, Len(lines)) : lines[n].declares =>
        IF lang = "python" THEN \E b \in ToSet(blocks) : b[1] = n
        ELSE \E m \in DOMAIN blocks : n \in blocks[m][1]..blocks[m][2]
  BY <1>2, <1>3, <1>4 DEF SymbolScanInv, AsScanned
<1>6. ASSUME NEW m \in DOMAIN blocks, NEW n \in DOMAIN blocks, m < n
      PROVE  \/ blocks[m][2] < blocks[n][1]
             \/ /\ lang = "python"
                /\ \/ Inside(blocks[n], blocks[m])
                   \/ blocks[n][2] > blocks[m][1] + Window - 1
  <2>1. CASE lang = "brace"
    BY <1>6, <2>1 DEF SymbolScanInv, AsScanned
  <2>2. CASE lang = "python"
    <3>1. /\ blocks[m][1] \in Nat /\ 1 <= blocks[m][1] /\ blocks[m][1] < at
          /\ blocks[n][1] \in Nat /\ 1 <= blocks[n][1] /\ blocks[n][1] < at
      BY SymbolInvTypes
    <3>2. blocks[m][1] \in DOMAIN lines /\ blocks[n][1] \in DOMAIN lines
      BY <3>1, <1>1
    <3>3. blocks[m][1] < blocks[n][1]
      BY <1>6 DEF SymbolScanInv, InOrder
    <3>4. /\ blocks[m][2] = IndentBlockEnd(blocks[m][1])
          /\ blocks[n][2] = IndentBlockEnd(blocks[n][1]) /\ lines[blocks[n][1]].declares
      BY <2>2 DEF SymbolScanInv, AsScanned
    <3>5. \/ blocks[m][2] < blocks[n][1]
          \/ blocks[n][2] <= blocks[m][2]
          \/ blocks[n][2] > blocks[m][1] + Window - 1
      BY <2>2, <3>2, <3>3, <3>4, <1>1, IndentNests
    <3> QED
      BY <2>2, <3>1, <3>3, <3>5 DEF Inside
  <2> QED
    BY <2>1, <2>2, <1>2
<1>7. \A b \in ToSet(blocks) : b[2] \in b[1]..LowerOf(b[1] + Window, Len(lines))
  BY <1>3 DEF SymbolScanInv, InOrder, Ends
<1> QED
  BY <1>5, <1>6, <1>7 DEF DeclarationsCovered

\* Every declaration the scan has passed is in the index, in exactly one symbol by
\* braces and as a symbol of its own by indentation, and symbols nest or are apart
\* within the window (contextidx.rs:93-128, 169-247).
THEOREM EveryDeclaration == SymbolSpec => []DeclarationsCovered
<1>1. SymbolInit => SymbolScanInv
  BY SymbolInitInv
<1>2. SymbolScanInv /\ [SymbolNext]_symbolVars => SymbolScanInv'
  BY SymbolKept
<1>3. SymbolScanInv => DeclarationsCovered
  BY InvCovers
<1> QED
  BY <1>1, <1>2, <1>3, PTL DEF SymbolSpec

-----------------------------------------------------------------------------
(***************************************************************************)
(* Sequences of sequences.  The part of the flattened sequence that the    *)
(* first n of them make up is a value of the function FlattenSeq is        *)
(* defined with; that function exists, so its parts can be put together    *)
(* one by one.                                                             *)
(***************************************************************************)

Flattens(g, seqs, n) == g = [k \in 1..n |-> IF k = 1 THEN seqs[k] ELSE g[k - 1] \o seqs[k]]
FlatFcn(seqs) == CHOOSE g : Flattens(g, seqs, Len(seqs))
UpTo(seqs, n) == IF n = 0 THEN <<>> ELSE FlatFcn(seqs)[n]

LEMMA FlatExists == ASSUME NEW seqs, Len(seqs) \in Nat PROVE Flattens(FlatFcn(seqs), seqs, Len(seqs))
<1> DEFINE N == {n \in Nat : \E g : Flattens(g, seqs, n)}
<1>1. 0 \in N
  <2> DEFINE g == [k \in 1..0 |-> seqs[k]]
  <2>1. Flattens(g, seqs, 0)
    BY DEF Flattens
  <2> QED
    BY <2>1
<1>2. ASSUME NEW n \in N PROVE n + 1 \in N
  <2>1. PICK g : Flattens(g, seqs, n)
    OBVIOUS
  <2> DEFINE h == [k \in 1..(n + 1) |-> IF k = n + 1
                                        THEN (IF k = 1 THEN seqs[k] ELSE g[k - 1] \o seqs[k])
                                        ELSE g[k]]
  <2>2. \A k \in 1..n : h[k] = g[k] /\ k # n + 1 /\ k \in 1..(n + 1)
    OBVIOUS
  <2>3. \A k \in 1..n : g[k] = IF k = 1 THEN seqs[k] ELSE g[k - 1] \o seqs[k]
    BY <2>1 DEF Flattens
  <2>4. \A k \in 1..(n + 1) : h[k] = IF k = 1 THEN seqs[k] ELSE h[k - 1] \o seqs[k]
    <3> SUFFICES ASSUME NEW k \in 1..(n + 1)
                 PROVE  h[k] = IF k = 1 THEN seqs[k] ELSE h[k - 1] \o seqs[k]
      OBVIOUS
    <3>1. k # 1 => k - 1 \in 1..n /\ h[k - 1] = g[k - 1]
      BY <2>2
    <3>2. CASE k = n + 1
      BY <3>1, <3>2
    <3>3. CASE k # n + 1
      <4>1. k \in 1..n
        BY <3>3
      <4> HIDE DEF h
      <4> QED
        BY <2>2, <2>3, <3>1, <4>1
    <3> QED
      BY <3>2, <3>3
  <2>5. Flattens(h, seqs, n + 1)
    <3>1. h = [k \in 1..(n + 1) |-> h[k]]
      OBVIOUS
    <3> HIDE DEF h
    <3> QED
      BY <2>4, <3>1 DEF Flattens
  <2> QED
    BY <2>5
<1> HIDE DEF N
<1>3. N = Nat
  <2>1. N \subseteq Nat
    BY DEF N
  <2> QED
    BY <1>1, <1>2, <2>1, NatSetInduction
<1>4. \E g : Flattens(g, seqs, Len(seqs))
  BY <1>3 DEF N
<1> QED
  BY <1>4 DEF FlatFcn

\* The parts of a flattened sequence: the next one ends with the next of the sequences.
LEMMA UpToIs ==
  ASSUME NEW S, NEW seqs \in Seq(Seq(S))
  PROVE  /\ UpTo(seqs, 0) = <<>>
         /\ \A n \in 1..Len(seqs) : UpTo(seqs, n) = UpTo(seqs, n - 1) \o seqs[n]
         /\ \A n \in 0..Len(seqs) : UpTo(seqs, n) \in Seq(S)
         /\ FlattenSeq(seqs) = UpTo(seqs, Len(seqs))
<1>0. Len(seqs) \in Nat /\ \A n \in 1..Len(seqs) : seqs[n] \in Seq(S)
  BY LenProperties, ElementOfSeq
<1>1. \A n \in 1..Len(seqs) :
        FlatFcn(seqs)[n] = IF n = 1 THEN seqs[n] ELSE FlatFcn(seqs)[n - 1] \o seqs[n]
  <2> DEFINE step == [n \in 1..Len(seqs) |-> IF n = 1 THEN seqs[n] ELSE FlatFcn(seqs)[n - 1] \o seqs[n]]
  <2>1. FlatFcn(seqs) = step
    <3>1. Flattens(FlatFcn(seqs), seqs, Len(seqs))
      BY <1>0, FlatExists
    <3> QED
      BY <3>1 DEF Flattens
  <2>2. \A n \in 1..Len(seqs) : step[n] = IF n = 1 THEN seqs[n] ELSE FlatFcn(seqs)[n - 1] \o seqs[n]
    OBVIOUS
  <2> HIDE DEF step
  <2> QED
    BY <2>1, <2>2
<1>2. UpTo(seqs, 0) = <<>> /\ \A n \in 1..Len(seqs) : UpTo(seqs, n) = UpTo(seqs, n - 1) \o seqs[n]
  <2> SUFFICES ASSUME NEW n \in 1..Len(seqs) PROVE UpTo(seqs, n) = UpTo(seqs, n - 1) \o seqs[n]
    BY DEF UpTo
  <2>1. CASE n = 1
    <3>1. seqs[n] = <<>> \o seqs[n]
      BY <1>0, ConcatEmptySeq
    <3> QED
      BY <1>1, <2>1, <3>1 DEF UpTo
  <2>2. CASE n # 1
    <3>1. n \in Int /\ n # 0 /\ n - 1 # 0
      BY <1>0, <2>2
    <3> QED
      BY <1>1, <2>2, <3>1 DEF UpTo
  <2> QED
    BY <2>1, <2>2
<1>3. \A n \in 0..Len(seqs) : UpTo(seqs, n) \in Seq(S)
  <2> DEFINE N == {n \in Nat : n <= Len(seqs) => UpTo(seqs, n) \in Seq(S)}
  <2>1. 0 \in N
    BY <1>2, EmptySeq
  <2>2. ASSUME NEW n \in N PROVE n + 1 \in N
    <3> SUFFICES ASSUME n + 1 <= Len(seqs) PROVE UpTo(seqs, n + 1) \in Seq(S)
      OBVIOUS
    <3>1. UpTo(seqs, n) \in Seq(S) /\ n + 1 \in 1..Len(seqs) /\ n + 1 - 1 = n
      BY <1>0
    <3>2. UpTo(seqs, n + 1) = UpTo(seqs, n) \o seqs[n + 1] /\ seqs[n + 1] \in Seq(S)
      <4>1. PICK m : m = n + 1 /\ m - 1 = n /\ m \in 1..Len(seqs)
        BY <3>1
      <4>2. UpTo(seqs, m) = UpTo(seqs, m - 1) \o seqs[m] /\ seqs[m] \in Seq(S)
        BY <1>0, <1>2, <4>1
      <4> QED
        BY <4>1, <4>2
    <3>3. UpTo(seqs, n) \o seqs[n + 1] \in Seq(S)
      BY <3>1, <3>2, ConcatProperties
    <3> QED
      BY <3>2, <3>3
  <2> HIDE DEF N
  <2>3. N = Nat
    <3>1. N \subseteq Nat
      BY DEF N
    <3> QED
      BY <2>1, <2>2, <3>1, NatSetInduction
  <2> QED
    BY <1>0, <2>3 DEF N
<1>4. CASE Len(seqs) = 0
  <2>1. seqs = <<>>
    BY <1>4, EmptySeq
  <2> QED
    BY <1>2, <1>3, <1>4, <2>1 DEF FlattenSeq, UpTo
<1>5. CASE Len(seqs) # 0
  <2>1. FlattenSeq(seqs) = FlatFcn(seqs)[Len(seqs)]
    BY <1>5 DEF FlattenSeq, FlatFcn, Flattens
  <2> QED
    BY <1>2, <1>3, <1>5, <2>1 DEF UpTo
<1> QED
  BY <1>4, <1>5

\* Sequences that begin alike have these parts in common.
LEMMA UpToSame ==
  ASSUME NEW S, NEW seqs \in Seq(Seq(S)), NEW others \in Seq(Seq(S)), NEW m \in Nat,
         m <= Len(seqs), m <= Len(others), \A k \in 1..m : seqs[k] = others[k]
  PROVE  UpTo(seqs, m) = UpTo(others, m)
<1> DEFINE N == {n \in Nat : n <= m => UpTo(seqs, n) = UpTo(others, n)}
<1>0. /\ Len(seqs) \in Nat /\ \A k \in 1..Len(seqs) : UpTo(seqs, k) = UpTo(seqs, k - 1) \o seqs[k]
      /\ Len(others) \in Nat
      /\ \A k \in 1..Len(others) : UpTo(others, k) = UpTo(others, k - 1) \o others[k]
  <2>1. \A k \in 1..Len(seqs) : UpTo(seqs, k) = UpTo(seqs, k - 1) \o seqs[k]
    BY UpToIs
  <2>2. \A k \in 1..Len(others) : UpTo(others, k) = UpTo(others, k - 1) \o others[k]
    BY UpToIs
  <2> QED
    BY <2>1, <2>2, LenProperties
<1>1. 0 \in N
  BY DEF UpTo
<1>2. ASSUME NEW n \in N PROVE n + 1 \in N
  <2> SUFFICES ASSUME n + 1 <= m PROVE UpTo(seqs, n + 1) = UpTo(others, n + 1)
    OBVIOUS
  <2>1. UpTo(seqs, n) = UpTo(others, n) /\ seqs[n + 1] = others[n + 1] /\ n + 1 - 1 = n
        /\ n + 1 \in 1..Len(seqs) /\ n + 1 \in 1..Len(others)
    BY <1>0
  <2>2. PICK j : j = n + 1 /\ j - 1 = n /\ j \in 1..Len(seqs) /\ j \in 1..Len(others)
    BY <2>1
  <2>3. UpTo(seqs, j) = UpTo(seqs, j - 1) \o seqs[j] /\ UpTo(others, j) = UpTo(others, j - 1) \o others[j]
    BY <1>0, <2>2
  <2> QED
    BY <2>1, <2>2, <2>3
<1> HIDE DEF N
<1>3. N = Nat
  <2>1. N \subseteq Nat
    BY DEF N
  <2> QED
    BY <1>1, <1>2, <2>1, NatSetInduction
<1> QED
  BY <1>3 DEF N

\* A function on the first n numbers is a sequence.
LEMMA FcnIsSeq == ASSUME NEW S, NEW n \in Nat, NEW f \in [1..n -> S] PROVE f \in Seq(S) /\ Len(f) = n
  OBVIOUS

\* Induction over sequences: a set that the empty one is in, and with each one all that are longer by
\* one element, has them all.
LEMMA SeqSetInduction ==
  ASSUME NEW S, NEW Good, <<>> \in Good,
         \A s \in Seq(S) : s \in Good => \A x \in S : Append(s, x) \in Good
  PROVE  Seq(S) \subseteq Good
<1> DEFINE N == {n \in Nat : \A s \in Seq(S) : Len(s) = n => s \in Good}
<1>1. 0 \in N
  BY EmptySeq
<1>2. ASSUME NEW n \in N PROVE n + 1 \in N
  <2> SUFFICES ASSUME NEW s \in Seq(S), Len(s) = n + 1 PROVE s \in Good
    OBVIOUS
  <2>1. s # <<>>
    BY EmptySeq
  <2>2. PICK t \in Seq(S), x \in S : s = Append(t, x)
    BY <2>1, SequenceEmptyOrAppend
  <2>3. Len(t) = n
    BY <2>2, AppendProperties, LenProperties
  <2> QED
    BY <2>2, <2>3
<1> HIDE DEF N
<1>3. N = Nat
  <2>1. N \subseteq Nat
    BY DEF N
  <2> QED
    BY <1>1, <1>2, <2>1, NatSetInduction
<1> QED
  BY <1>3, LenProperties DEF N

-----------------------------------------------------------------------------
(***************************************************************************)
(* Texts with placeholders.  Expand(f, s) is s with each element that f is *)
(* defined for replaced by what f has for it, which is how unmask restores *)
(* an answer.                                                              *)
(***************************************************************************)

Meaning(f, x) == IF x \in DOMAIN f THEN f[x] ELSE <<x>>
Expand(f, s) == FlattenSeq([k \in DOMAIN s |-> Meaning(f, s[k])])

\* One element more adds what it stands for.
LEMMA ExpandAppend ==
  ASSUME NEW f, NEW A, NEW B, \A x \in A : Meaning(f, x) \in Seq(B), NEW s \in Seq(A), NEW x \in A
  PROVE  /\ Expand(f, s) \in Seq(B)
         /\ Expand(f, Append(s, x)) = Expand(f, s) \o Meaning(f, x)
<1> DEFINE t == Append(s, x)
           seqs == [k \in DOMAIN s |-> Meaning(f, s[k])]
           longer == [k \in DOMAIN t |-> Meaning(f, t[k])]
<1>1. /\ Len(s) \in Nat /\ DOMAIN s = 1..Len(s) /\ \A k \in 1..Len(s) : s[k] \in A
      /\ t \in Seq(A) /\ Len(t) = Len(s) + 1 /\ DOMAIN t = 1..Len(t)
      /\ \A k \in 1..Len(s) : t[k] = s[k]
      /\ t[Len(s) + 1] = x
  BY LenProperties, ElementOfSeq, AppendProperties
<1>2. \A k \in 1..Len(t) : t[k] \in A
  BY <1>1, ElementOfSeq
<1> HIDE DEF t
<1>3. seqs \in [1..Len(s) -> Seq(B)] /\ longer \in [1..Len(t) -> Seq(B)]
  BY <1>1, <1>2
<1>4. \A k \in 1..Len(s) : seqs[k] = longer[k]
  BY <1>1
<1>5. longer[Len(t)] = Meaning(f, x)
  BY <1>1
<1>6. Expand(f, s) = FlattenSeq(seqs) /\ Expand(f, t) = FlattenSeq(longer)
  BY DEF Expand
<1> HIDE DEF seqs, longer
<1>7. seqs \in Seq(Seq(B)) /\ longer \in Seq(Seq(B)) /\ Len(seqs) = Len(s) /\ Len(longer) = Len(t)
  <2>1. seqs \in Seq(Seq(B)) /\ Len(seqs) = Len(s)
    BY <1>1, <1>3, FcnIsSeq
  <2>2. Len(t) \in Nat
    BY <1>1
  <2>3. longer \in Seq(Seq(B)) /\ Len(longer) = Len(t)
    BY <1>3, <2>2, FcnIsSeq
  <2> QED
    BY <2>1, <2>3
<1>8. FlattenSeq(seqs) = UpTo(seqs, Len(s)) /\ FlattenSeq(longer) = UpTo(longer, Len(t))
      /\ UpTo(seqs, Len(s)) \in Seq(B)
  <2>1. Len(s) \in 0..Len(seqs)
    BY <1>1, <1>7
  <2> QED
    BY <1>7, <2>1, UpToIs
<1>9. UpTo(longer, Len(t)) = UpTo(longer, Len(s)) \o longer[Len(t)]
  <2>1. Len(t) \in 1..Len(longer) /\ Len(t) - 1 = Len(s)
    BY <1>1, <1>7
  <2> QED
    BY <1>7, <2>1, UpToIs
<1>10. UpTo(longer, Len(s)) = UpTo(seqs, Len(s))
  <2>1. Len(s) <= Len(seqs) /\ Len(s) <= Len(longer)
    BY <1>1, <1>7
  <2> QED
    BY <1>1, <1>4, <1>7, <2>1, UpToSame
<1> QED
  BY <1>5, <1>6, <1>8, <1>9, <1>10 DEF t

LEMMA ExpandEmpty == ASSUME NEW f PROVE Expand(f, <<>>) = <<>>
<1>1. \A g : [k \in DOMAIN <<>> |-> g[k]] = <<>>
  OBVIOUS
<1>2. [k \in DOMAIN <<>> |-> Meaning(f, <<>>[k])] = <<>>
  OBVIOUS
<1> QED
  BY <1>2 DEF Expand, FlattenSeq

LEMMA ExpandType ==
  ASSUME NEW f, NEW A, NEW B, \A x \in A : Meaning(f, x) \in Seq(B), NEW s \in Seq(A)
  PROVE  Expand(f, s) \in Seq(B)
<1>1. CASE s = <<>>
  BY <1>1, ExpandEmpty, EmptySeq
<1>2. CASE s # <<>>
  <2>1. PICK t \in Seq(A), x \in A : s = Append(t, x)
    BY <1>2, SequenceEmptyOrAppend
  <2>2. Expand(f, t) \in Seq(B) /\ Expand(f, s) = Expand(f, t) \o Meaning(f, x)
    BY <2>1, ExpandAppend
  <2> QED
    BY <2>2, ConcatProperties
<1> QED
  BY <1>1, <1>2

\* Expanding goes part by part.
LEMMA ExpandConcat ==
  ASSUME NEW f, NEW A, NEW B, \A x \in A : Meaning(f, x) \in Seq(B), NEW s \in Seq(A), NEW t \in Seq(A)
  PROVE  Expand(f, s \o t) = Expand(f, s) \o Expand(f, t)
<1> DEFINE Good == {u \in Seq(A) : Expand(f, s \o u) = Expand(f, s) \o Expand(f, u)}
<1>0. Expand(f, s) \in Seq(B)
  BY ExpandType
<1>1. <<>> \in Good
  BY <1>0, ExpandEmpty, EmptySeq, ConcatEmptySeq
<1>2. ASSUME NEW u \in Seq(A), u \in Good, NEW x \in A PROVE Append(u, x) \in Good
  <2>1. Append(u, x) \in Seq(A) /\ Append(u, x) = u \o <<x>>
    BY AppendProperties, AppendIsConcat
  <2>2. s \o u \in Seq(A) /\ <<x>> \in Seq(A)
    BY ConcatProperties
  <2>3. s \o Append(u, x) = Append(s \o u, x)
    <3>1. (s \o u) \o <<x>> = s \o (u \o <<x>>)
      <4>1. u \in Seq(A) /\ s \in Seq(A) /\ <<x>> \in Seq(A)
        BY <2>2
      <4> QED
        BY <4>1, ConcatAssociative, SMTT(40)
    <3>2. Append(s \o u, x) = (s \o u) \o <<x>>
      BY <2>2, AppendIsConcat
    <3> QED
      BY <2>1, <3>1, <3>2
  <2>4. Expand(f, s \o Append(u, x)) = Expand(f, s \o u) \o Meaning(f, x)
    BY <2>2, <2>3, ExpandAppend
  <2>5. Expand(f, Append(u, x)) = Expand(f, u) \o Meaning(f, x) /\ Expand(f, u) \in Seq(B)
    BY ExpandAppend
  <2>6. Expand(f, s \o u) = Expand(f, s) \o Expand(f, u)
    BY <1>2
  <2>7. (Expand(f, s) \o Expand(f, u)) \o Meaning(f, x)
          = Expand(f, s) \o (Expand(f, u) \o Meaning(f, x))
    <3>1. Expand(f, s) \in Seq(B) /\ Expand(f, u) \in Seq(B) /\ Meaning(f, x) \in Seq(B)
      BY <1>0, <2>5
    <3> QED
      BY <3>1, ConcatAssociative, SMTT(40)
  <2>8. Expand(f, s \o Append(u, x)) = Expand(f, s) \o Expand(f, Append(u, x))
    <3> HIDE DEF Good
    <3> QED
      BY <2>4, <2>5, <2>6, <2>7
  <2> QED
    BY <2>1, <2>8
<1> HIDE DEF Good
<1>3. Seq(A) \subseteq Good
  BY <1>1, <1>2, SeqSetInduction
<1> QED
  BY <1>3 DEF Good

\* Where two functions have the same for every element, the results are the same.
LEMMA ExpandSame ==
  ASSUME NEW f, NEW g, NEW A, NEW B, \A x \in A : Meaning(f, x) \in Seq(B) /\ Meaning(g, x) = Meaning(f, x),
         NEW s \in Seq(A)
  PROVE  Expand(g, s) = Expand(f, s)
<1>1. DOMAIN s = 1..Len(s) /\ \A k \in 1..Len(s) : s[k] \in A
  BY LenProperties, ElementOfSeq
<1>2. [k \in DOMAIN s |-> Meaning(g, s[k])] = [k \in DOMAIN s |-> Meaning(f, s[k])]
  BY <1>1
<1> QED
  BY <1>2 DEF Expand

\* What has nothing to be expanded is left alone.
LEMMA ExpandPlain ==
  ASSUME NEW f, NEW A, A \cap DOMAIN f = {}, NEW s \in Seq(A) PROVE Expand(f, s) = s
<1> DEFINE Good == {u \in Seq(A) : Expand(f, u) = u}
<1>0. \A x \in A : Meaning(f, x) = <<x>> /\ Meaning(f, x) \in Seq(A)
  BY DEF Meaning
<1>1. <<>> \in Good
  BY ExpandEmpty, EmptySeq
<1>2. ASSUME NEW u \in Seq(A), u \in Good, NEW x \in A PROVE Append(u, x) \in Good
  <2>1. Expand(f, Append(u, x)) = Expand(f, u) \o Meaning(f, x)
    <3>1. \A y \in A : Meaning(f, y) \in Seq(A)
      BY <1>0
    <3> QED
      BY <3>1, ExpandAppend
  <2>2. Append(u, x) \in Seq(A) /\ Append(u, x) = u \o <<x>>
    BY AppendProperties, AppendIsConcat
  <2>3. Expand(f, u) = u /\ Meaning(f, x) = <<x>>
    BY <1>0, <1>2
  <2> QED
    BY <2>1, <2>2, <2>3
<1> HIDE DEF Good
<1>3. Seq(A) \subseteq Good
  BY <1>1, <1>2, SeqSetInduction
<1> QED
  BY <1>3 DEF Good

\* Two expansions in one: what g puts in is expanded to what f has for the element itself.
Agree(f, g, A, B, D) ==
  /\ \A x \in A : Meaning(f, x) \in Seq(B) /\ Meaning(g, x) \in Seq(D)
  /\ \A y \in D : Meaning(f, y) \in Seq(B)
  /\ \A x \in A : Expand(f, Meaning(g, x)) = Meaning(f, x)

LEMMA ExpandExpand ==
  ASSUME NEW f, NEW g, NEW A, NEW B, NEW D, NEW s \in Seq(A), Agree(f, g, A, B, D)
  PROVE  Expand(f, Expand(g, s)) = Expand(f, s)
<1>0. /\ \A x \in A : Meaning(f, x) \in Seq(B)
      /\ \A x \in A : Meaning(g, x) \in Seq(D)
      /\ \A y \in D : Meaning(f, y) \in Seq(B)
      /\ \A x \in A : Expand(f, Meaning(g, x)) = Meaning(f, x)
  BY DEF Agree
<1> DEFINE Good == {u \in Seq(A) : Expand(f, Expand(g, u)) = Expand(f, u)}
<1>1. <<>> \in Good
  BY ExpandEmpty, EmptySeq
<1>2. ASSUME NEW u \in Seq(A), u \in Good, NEW x \in A PROVE Append(u, x) \in Good
  <2>1. Expand(g, u) \in Seq(D) /\ Expand(g, Append(u, x)) = Expand(g, u) \o Meaning(g, x)
    BY <1>0, ExpandAppend
  <2>2. Expand(f, Expand(g, u) \o Meaning(g, x)) = Expand(f, Expand(g, u)) \o Expand(f, Meaning(g, x))
    BY <1>0, <2>1, ExpandConcat
  <2>3. Expand(f, Append(u, x)) = Expand(f, u) \o Meaning(f, x)
    BY <1>0, ExpandAppend
  <2> QED
    BY <1>0, <1>2, <2>1, <2>2, <2>3, AppendProperties
<1> HIDE DEF Good
<1>3. Seq(A) \subseteq Good
  BY <1>1, <1>2, SeqSetInduction
<1> QED
  BY <1>3 DEF Good

-----------------------------------------------------------------------------
(***************************************************************************)
(* The masking codec, for every prompt, every set of secrets and every     *)
(* number of placeholders.                                                 *)
(***************************************************************************)

Issued == Cardinality(DOMAIN vault)
Numbered(n) == {Placeholders[k] : k \in 1..n}
Wire == Token \union Range(Placeholders)
Plain == Token \ Range(Placeholders)
Below(n) == Plain \union Numbered(n)

\* The tokens of the text that a rule may still mask something for: each costs a placeholder at most.
Maskable ==
  {k \in DOMAIN masked :
     \/ masked[k] \in Keys \union Addresses \union {"uri"}
     \/ masked[k] = "assign" /\ (rule < 2 \/ (rule = 2 /\ k >= pos))}

MaskTypes ==
  /\ prompt \in Seq(Token) /\ masked \in Seq(Wire)
  /\ rule \in 1..5 /\ pos \in 1..(Len(masked) + 1)
  /\ Issued \in Nat /\ Issued + Cardinality(Maskable) <= MaxTokens
  /\ vault \in [Numbered(Issued) -> Seq(Wire)]
  /\ restored \in Seq(Seq(Wire)) /\ (Masking => restored = <<>>)

\* What a rule hides is hidden before pos while it is applied, and everywhere when it has been.
HiddenSoFar ==
  /\ \A k \in DOMAIN masked : masked[k] \in Keys => rule = 1 /\ k >= pos
  /\ \A k \in DOMAIN masked :
       masked[k] \in Values /\ k > 1 /\ masked[k - 1] = "assign" => rule = 1 \/ (rule = 2 /\ k > pos)
  /\ \A k \in DOMAIN masked : masked[k] \in Addresses \ Benign => rule < 4 \/ (rule = 4 /\ k >= pos)

OneSecretEach == \A p, q \in DOMAIN vault : vault[p] = vault[q] => p = q

\* A placeholder stands for a text with none but earlier ones in it, so there is one text without any
\* that it stands for in the end, and a pass of unmask rids an answer of the latest.
Restores(full) ==
  /\ masked \in Seq(Below(Issued)) /\ Expand(full, masked) = prompt
  /\ \A m \in 1..Issued : /\ vault[Placeholders[m]] \in Seq(Below(m - 1))
                          /\ full[Placeholders[m]] = Expand(full, vault[Placeholders[m]])
  /\ \A k \in 1..Len(restored) : restored[k] \in Seq(Below(Issued - k)) /\ Expand(full, restored[k]) = prompt
NothingLost == prompt \in Seq(Plain) => \E full \in [Numbered(Issued) -> Seq(Plain)] : Restores(full)

MaskInv == MaskTypes /\ HiddenSoFar /\ OneSecretEach /\ NothingLost

\* There are as many placeholders as their numbers, and they are finite in number.
LEMMA NumberedIs ==
  ASSUME NEW n \in Nat, n <= Len(Placeholders)
  PROVE  IsFiniteSet(Numbered(n)) /\ Cardinality(Numbered(n)) = n
<1> DEFINE N == {m \in Nat : m <= Len(Placeholders) =>
                               IsFiniteSet(Numbered(m)) /\ Cardinality(Numbered(m)) = m}
<1>1. 0 \in N
  <2>1. Numbered(0) = {}
    BY DEF Numbered
  <2> QED
    BY <2>1, FS_EmptySet
<1>2. ASSUME NEW m \in N PROVE m + 1 \in N
  <2> SUFFICES ASSUME m + 1 <= Len(Placeholders)
               PROVE  IsFiniteSet(Numbered(m + 1)) /\ Cardinality(Numbered(m + 1)) = m + 1
    OBVIOUS
  <2>0. Len(Placeholders) \in Nat /\ DOMAIN Placeholders = 1..Len(Placeholders)
        /\ \A a, b \in DOMAIN Placeholders : Placeholders[a] = Placeholders[b] => a = b
    BY MaskAssumption DEF IsInjective
  <2>1. IsFiniteSet(Numbered(m)) /\ Cardinality(Numbered(m)) = m
    BY <2>0
  <2>2. Numbered(m + 1) = Numbered(m) \union {Placeholders[m + 1]}
    BY DEF Numbered
  <2>3. Placeholders[m + 1] \notin Numbered(m)
    BY <2>0 DEF Numbered
  <2>4. /\ IsFiniteSet(Numbered(m) \union {Placeholders[m + 1]})
        /\ Cardinality(Numbered(m) \union {Placeholders[m + 1]}) = Cardinality(Numbered(m)) + 1
    BY <2>1, <2>3, FS_AddElement
  <2> QED
    BY <2>1, <2>2, <2>4
<1> HIDE DEF N
<1>3. N = Nat
  <2>1. N \subseteq Nat
    BY DEF N
  <2> QED
    BY <1>1, <1>2, <2>1, NatSetInduction
<1> QED
  BY <1>3 DEF N

\* A sequence, cut before a and after b.
Parts(A, s, a, b) ==
  /\ SubSeq(s, 1, a - 1) \in Seq(A) /\ Len(SubSeq(s, 1, a - 1)) = a - 1
  /\ \A k \in 1..(a - 1) : SubSeq(s, 1, a - 1)[k] = s[k]
  /\ SubSeq(s, a, b) \in Seq(A)
  /\ SubSeq(s, b + 1, Len(s)) \in Seq(A) /\ Len(SubSeq(s, b + 1, Len(s))) = Len(s) - b
  /\ \A k \in 1..(Len(s) - b) : SubSeq(s, b + 1, Len(s))[k] = s[b + k]
  /\ s = SubSeq(s, 1, a - 1) \o SubSeq(s, a, b) \o SubSeq(s, b + 1, Len(s))

LEMMA PartsIs ==
  ASSUME NEW A, NEW s \in Seq(A), NEW a \in 1..Len(s), NEW b \in a..Len(s) PROVE Parts(A, s, a, b)
<1> DEFINE u == SubSeq(s, 1, a - 1)
           v == SubSeq(s, b + 1, Len(s))
           w == SubSeq(s, a, b)
<1>0. Len(s) \in Nat /\ DOMAIN s = 1..Len(s) /\ a \in Int /\ b \in Int /\ 1 <= a /\ a <= b /\ b <= Len(s)
      /\ \A k \in 1..Len(s) : s[k] \in A
  BY LenProperties, ElementOfSeq
<1>1. u \in Seq(A) /\ Len(u) = a - 1 /\ \A k \in 1..(a - 1) : u[k] = s[k]
  <2>1. \A k \in 1..(a - 1) : s[k] \in A
    BY <1>0
  <2>2. 1 \in Int /\ a - 1 \in Int
    BY <1>0
  <2>3. /\ u \in Seq(A) /\ Len(u) = IF 1 <= a - 1 THEN a - 1 - 1 + 1 ELSE 0
        /\ \A k \in 1..(a - 1 - 1 + 1) : u[k] = s[1 + k - 1]
    BY <2>1, <2>2, SubSeqProperties
  <2> HIDE DEF u
  <2> QED
    BY <1>0, <2>3
<1>2. w \in Seq(A)
  <2>1. \A k \in a..b : s[k] \in A
    BY <1>0
  <2> QED
    BY <1>0, <2>1, SubSeqProperties
<1>3. v \in Seq(A) /\ Len(v) = Len(s) - b /\ \A k \in 1..(Len(s) - b) : v[k] = s[b + k]
  <2>1. \A k \in (b + 1)..Len(s) : s[k] \in A
    BY <1>0
  <2>2. b + 1 \in Int /\ Len(s) \in Int
    BY <1>0
  <2>3. /\ v \in Seq(A) /\ Len(v) = IF b + 1 <= Len(s) THEN Len(s) - (b + 1) + 1 ELSE 0
        /\ \A k \in 1..(Len(s) - (b + 1) + 1) : v[k] = s[b + 1 + k - 1]
    BY <2>1, <2>2, SubSeqProperties
  <2>4. Len(v) = Len(s) - b
    <3> HIDE DEF v
    <3>1. CASE b + 1 <= Len(s)
      <4>1. Len(v) = Len(s) - (b + 1) + 1
        BY <2>3, <3>1
      <4> QED
        BY <1>0, <4>1
    <3>2. CASE ~(b + 1 <= Len(s))
      <4>1. b = Len(s)
        <5>1. b \in Int /\ Len(s) \in Nat /\ b <= Len(s)
          BY <1>0
        <5> QED
          BY <3>2, <5>1
      <4>2. Len(v) = 0
        BY <2>3, <3>2
      <4> QED
        BY <1>0, <4>1, <4>2
    <3> QED
      BY <3>1, <3>2
  <2>5. Len(s) - (b + 1) + 1 = Len(s) - b /\ \A k \in 1..(Len(s) - b) : b + 1 + k - 1 = b + k
    BY <1>0
  <2> HIDE DEF v
  <2> QED
    BY <2>3, <2>4, <2>5
<1>4. s = u \o w \o v
  <2>1. SubSeq(s, 1, a - 1) \o SubSeq(s, a, b) = SubSeq(s, 1, b)
    <3>1. 1 \in 1..(Len(s) + 1) /\ a - 1 \in (1 - 1)..Len(s) /\ b \in (a - 1)..Len(s) /\ a - 1 + 1 = a
      BY <1>0
    <3> QED
      BY <3>1, ConcatAdjacentSubSeq
  <2>2. SubSeq(s, 1, b) \o SubSeq(s, b + 1, Len(s)) = SubSeq(s, 1, Len(s))
    <3>1. 1 \in 1..(Len(s) + 1) /\ b \in (1 - 1)..Len(s) /\ Len(s) \in b..Len(s)
      BY <1>0
    <3> QED
      BY <3>1, ConcatAdjacentSubSeq
  <2> QED
    BY <2>1, <2>2, SubSeqFull
<1> QED
  BY <1>1, <1>2, <1>3, <1>4 DEF Parts

\* A part of a sequence that is replaced by one element.
Spliced(s, a, b, x) == SubSeq(s, 1, a - 1) \o <<x>> \o SubSeq(s, b + 1, Len(s))
Replaced(s, a, b, x, r) ==
  /\ Len(r) = Len(s) - (b - a) /\ DOMAIN r = 1..Len(r) /\ DOMAIN s = 1..Len(s)
  /\ \A k \in 1..(a - 1) : r[k] = s[k]
  /\ r[a] = x
  /\ \A k \in (a + 1)..Len(r) : k + (b - a) \in 1..Len(s) /\ r[k] = s[k + (b - a)]

LEMMA ReplaceIs ==
  ASSUME NEW A, NEW s \in Seq(A), NEW a \in 1..Len(s), NEW b \in a..Len(s), NEW x \in A
  PROVE  /\ Spliced(s, a, b, x) \in Seq(A) /\ Replaced(s, a, b, x, Spliced(s, a, b, x))
<1> DEFINE u == SubSeq(s, 1, a - 1)
           v == SubSeq(s, b + 1, Len(s))
           r == Spliced(s, a, b, x)
<1>0. Len(s) \in Nat /\ DOMAIN s = 1..Len(s) /\ a \in Int /\ b \in Int /\ 1 <= a /\ a <= b /\ b <= Len(s)
      /\ \A k \in 1..Len(s) : s[k] \in A
  BY LenProperties, ElementOfSeq
<1>1. u \in Seq(A) /\ Len(u) = a - 1 /\ \A k \in 1..(a - 1) : u[k] = s[k]
  <2>1. Parts(A, s, a, b)
    BY PartsIs
  <2> QED
    BY <2>1 DEF Parts
<1>3. v \in Seq(A) /\ Len(v) = Len(s) - b /\ \A k \in 1..(Len(s) - b) : v[k] = s[b + k]
  <2>1. Parts(A, s, a, b)
    BY PartsIs
  <2> QED
    BY <2>1 DEF Parts
<1>7. r = (u \o <<x>>) \o v
  BY DEF Spliced
<1> HIDE DEF u, v, r
<1>5. <<x>> \in Seq(A) /\ Len(<<x>>) = 1 /\ <<x>>[1] = x
  OBVIOUS
<1>6. /\ u \o <<x>> \in Seq(A) /\ Len(u \o <<x>>) = a
      /\ \A k \in 1..a : (u \o <<x>>)[k] = IF k <= a - 1 THEN u[k] ELSE <<x>>[k - (a - 1)]
  <2>1. /\ u \o <<x>> \in Seq(A) /\ Len(u \o <<x>>) = Len(u) + Len(<<x>>)
        /\ \A k \in 1..(Len(u) + Len(<<x>>)) :
             (u \o <<x>>)[k] = IF k <= Len(u) THEN u[k] ELSE <<x>>[k - Len(u)]
    BY <1>1, <1>5, ConcatProperties
  <2>2. Len(u) + Len(<<x>>) = a
    BY <1>0, <1>1, <1>5
  <2> QED
    BY <1>1, <2>1, <2>2
<1>8. /\ r \in Seq(A) /\ Len(r) = a + (Len(s) - b)
      /\ \A k \in 1..(a + (Len(s) - b)) : r[k] = IF k <= a THEN (u \o <<x>>)[k] ELSE v[k - a]
  <2>1. /\ r \in Seq(A) /\ Len(r) = Len(u \o <<x>>) + Len(v)
        /\ \A k \in 1..(Len(u \o <<x>>) + Len(v)) :
             r[k] = IF k <= Len(u \o <<x>>) THEN (u \o <<x>>)[k] ELSE v[k - Len(u \o <<x>>)]
    <3>1. u \o <<x>> \in Seq(A) /\ v \in Seq(A)
      BY <1>3, <1>6
    <3>2. PICK w1 \in Seq(A) : w1 = u \o <<x>>
      BY <3>1
    <3>3. /\ w1 \o v \in Seq(A) /\ Len(w1 \o v) = Len(w1) + Len(v)
          /\ \A k \in 1..(Len(w1) + Len(v)) : (w1 \o v)[k] = IF k <= Len(w1) THEN w1[k] ELSE v[k - Len(w1)]
      BY <3>1, ConcatProperties
    <3> QED
      BY <1>7, <3>2, <3>3
  <2> QED
    BY <1>3, <1>6, <2>1
<1>9. DOMAIN r = 1..Len(r)
  BY <1>8, LenProperties
<1>10. \A k \in 1..(a - 1) : r[k] = s[k]
  <2> SUFFICES ASSUME NEW k \in 1..(a - 1) PROVE r[k] = s[k]
    OBVIOUS
  <2>1. k <= a - 1 /\ k <= a /\ k \in 1..a /\ k \in 1..(a + (Len(s) - b))
    BY <1>0
  <2>2. r[k] = (u \o <<x>>)[k] /\ (u \o <<x>>)[k] = u[k]
    BY <1>6, <1>8, <2>1
  <2> QED
    BY <1>1, <2>2
<1>11. r[a] = x
  <2>1. a \in 1..(a + (Len(s) - b)) /\ a \in 1..a /\ a <= a /\ ~(a <= a - 1) /\ a - (a - 1) = 1
    BY <1>0
  <2>2. r[a] = (u \o <<x>>)[a]
    BY <1>8, <2>1
  <2>3. (u \o <<x>>)[a] = <<x>>[1]
    BY <1>6, <2>1
  <2> QED
    BY <1>5, <2>2, <2>3
<1>12. \A k \in (a + 1)..Len(r) : k + (b - a) \in 1..Len(s) /\ r[k] = s[k + (b - a)]
  <2> SUFFICES ASSUME NEW k \in (a + 1)..Len(r) PROVE k + (b - a) \in 1..Len(s) /\ r[k] = s[k + (b - a)]
    OBVIOUS
  <2>1. k \in Int /\ k > a /\ k <= a + (Len(s) - b) /\ k - a \in 1..(Len(s) - b) /\ b + (k - a) = k + (b - a)
    BY <1>0, <1>8
  <2>2. k \in 1..(a + (Len(s) - b)) /\ ~(k <= a)
    BY <1>0, <1>8
  <2>3. r[k] = v[k - a]
    BY <1>8, <2>2
  <2>4. v[k - a] = s[b + (k - a)]
    BY <1>3, <2>1
  <2> QED
    BY <1>0, <2>1, <2>3, <2>4
<1>13. Len(r) = Len(s) - (b - a)
  BY <1>0, <1>8
<1> QED
  BY <1>0, <1>8, <1>9, <1>10, <1>11, <1>12, <1>13 DEF Replaced, r

\* Before the first rule nothing is masked, and there is a placeholder for each token.
LEMMA CodecInitInv == CodecInit => MaskInv
<1> SUFFICES ASSUME CodecInit PROVE MaskInv
  OBVIOUS
<1>1. PICK n \in 0..MaxTokens : prompt \in [1..n -> Token]
  BY DEF CodecInit
<1>2. /\ masked = prompt /\ rule = 1 /\ pos = 1 /\ vault = <<>> /\ restored = <<>>
      /\ MaxTokens \in Nat /\ n \in Nat /\ n <= MaxTokens
  BY <1>1, MaskAssumption DEF CodecInit
<1>3. prompt \in Seq(Token) /\ Len(prompt) = n /\ prompt \in Seq(Wire)
  <2>1. prompt \in Seq(Token) /\ Len(prompt) = n
    BY <1>1, <1>2, SMT
  <2>2. Token \subseteq Wire
    BY DEF Wire
  <2> QED
    BY <2>1, <2>2, SeqMonotonic
<1>4. DOMAIN vault = {} /\ Issued = 0 /\ Numbered(Issued) = {}
  <2>1. DOMAIN vault = {}
    BY <1>2
  <2>2. Issued = 0
    BY <2>1, FS_EmptySet DEF Issued
  <2> QED
    BY <2>1, <2>2 DEF Numbered
<1>5. Cardinality(Maskable) \in Nat /\ Cardinality(Maskable) <= MaxTokens
  <2>1. Maskable \subseteq 1..n
    BY <1>1, <1>2 DEF Maskable
  <2>2. IsFiniteSet(1..n) /\ Cardinality(1..n) <= n
    BY <1>2, FS_Interval
  <2>3. IsFiniteSet(Maskable) /\ Cardinality(Maskable) <= Cardinality(1..n)
    BY <2>1, <2>2, FS_Subset
  <2>4. Cardinality(Maskable) \in Nat /\ Cardinality(1..n) \in Nat
    BY <2>2, <2>3, FS_CardinalityType
  <2> QED
    BY <1>2, <2>2, <2>3, <2>4
<1>6. MaskTypes
  <2>1. vault \in [Numbered(Issued) -> Seq(Wire)]
    BY <1>2, <1>4
  <2>2. restored \in Seq(Seq(Wire))
    BY <1>2, EmptySeq
  <2> QED
    BY <1>2, <1>3, <1>4, <1>5, <2>1, <2>2 DEF MaskTypes
<1>7. HiddenSoFar
  BY <1>1, <1>2 DEF HiddenSoFar
<1>8. OneSecretEach
  BY <1>4 DEF OneSecretEach
<1>9. NothingLost
  <2> SUFFICES ASSUME prompt \in Seq(Plain)
               PROVE  \E full \in [Numbered(Issued) -> Seq(Plain)] : Restores(full)
    BY DEF NothingLost
  <2> DEFINE full == [ph \in Numbered(Issued) |-> <<>>]
  <2>1. full \in [Numbered(Issued) -> Seq(Plain)] /\ DOMAIN full = {}
    BY <1>4
  <2>2. Below(Issued) = Plain
    BY <1>4 DEF Below
  <2>3. Expand(full, prompt) = prompt
    <3> HIDE DEF full
    <3> QED
      BY <2>1, ExpandPlain
  <2>4. Restores(full)
    <3> HIDE DEF full
    <3> QED
      BY <1>2, <1>4, <2>2, <2>3 DEF Restores
  <2> QED
    BY <2>1, <2>4
<1> QED
  BY <1>6, <1>7, <1>8, <1>9 DEF MaskInv

\* The tokens that may be masked are finite in number.
LEMMA MaskableFinite ==
  ASSUME MaskTypes
  PROVE  IsFiniteSet(Maskable) /\ Cardinality(Maskable) \in Nat /\ Len(masked) \in Nat
         /\ DOMAIN masked = 1..Len(masked)
<1>1. Len(masked) \in Nat /\ DOMAIN masked = 1..Len(masked)
  BY LenProperties DEF MaskTypes
<1>2. Maskable \subseteq 1..Len(masked) /\ IsFiniteSet(1..Len(masked))
  BY <1>1, FS_Interval DEF Maskable
<1> QED
  BY <1>1, <1>2, FS_Subset, FS_CardinalityType

\* What each rule matches.
LEMMA LeftIs ==
  ASSUME MaskTypes, Masking
  PROVE  /\ rule = 1 => Left = {Span(k, k, k) : k \in {j \in pos..Len(masked) : masked[j] \in Keys}}
         /\ rule = 2 => Left = {Span(k + 1, k + 1, k + 1) :
                                  k \in {j \in pos..Len(masked) : masked[j] = "assign" /\ Inner(masked, j + 1)}}
         /\ rule = 3 => Left = {Span(k, k + 2, k + 2) :
                                  k \in {j \in pos..Len(masked) :
                                           masked[j] = "uri" /\ Inner(masked, j + 1)
                                           /\ j + 2 <= Len(masked) /\ masked[j + 2] = "host"}}
         /\ rule = 4 => Left = {Span(k, k, k) : k \in {j \in pos..Len(masked) : masked[j] \in Addresses}}
         /\ rule \in 1..4
         /\ Rules[rule] = "address" <=> rule = 4
<1>1. rule \in 1..4
  BY DEF MaskTypes, Masking, Rules
<1>2. rule = 1 => Rules[rule] = "key"
  BY DEF Rules
<1>3. rule = 2 => Rules[rule] = "assignment"
  BY DEF Rules
<1>4. rule = 3 => Rules[rule] = "connection"
  BY DEF Rules
<1>5. rule = 4 => Rules[rule] = "address"
  BY DEF Rules
<1> QED
  BY <1>1, <1>2, <1>3, <1>4, <1>5 DEF Left, Matching

\* The match that is taken starts at k, the first place from pos on at which the rule matches.
Taken(k) ==
  \/ rule = 1 /\ masked[k] \in Keys /\ Leftmost = Span(k, k, k)
  \/ rule = 2 /\ masked[k] = "assign" /\ k + 1 <= Len(masked) /\ Leftmost = Span(k + 1, k + 1, k + 1)
  \/ rule = 3 /\ masked[k] = "uri" /\ k + 2 <= Len(masked) /\ Leftmost = Span(k, k + 2, k + 2)
  \/ rule = 4 /\ masked[k] \in Addresses /\ Leftmost = Span(k, k, k)
Earliest(k) ==
  \A j \in pos..Len(masked) :
    /\ rule = 1 /\ masked[j] \in Keys => k <= j
    /\ rule = 2 /\ masked[j] = "assign" /\ j + 1 <= Len(masked) /\ masked[j + 1] \in Values => k <= j
    /\ rule = 4 /\ masked[j] \in Addresses => k <= j

LEMMA TakenIs ==
  ASSUME MaskTypes, Masking, Left # {}
  PROVE  \E k \in pos..Len(masked) : Taken(k) /\ Earliest(k)
<1>1. Len(masked) \in Nat /\ pos \in Nat /\ rule \in 1..4
  BY LeftIs, MaskableFinite DEF MaskTypes
<1>2. \A s \in Left : s.first \in Nat
  BY <1>1, LeftIs DEF Span
<1>3. Leftmost \in Left /\ \A t \in Left : Leftmost.first <= t.first
  <2> DEFINE F == {s.first : s \in Left}
  <2>1. F \in SUBSET Nat /\ F # {}
    BY <1>2
  <2>2. PICK m \in F : \A k \in F : m <= k
    <3> HIDE DEF F
    <3> QED
      BY <2>1, LeastOf
  <2>3. \E s \in Left : \A t \in Left : s.first <= t.first
    BY <2>2
  <2> QED
    BY <2>3 DEF Leftmost
<1>4. CASE rule = 1
  <2>1. PICK k \in pos..Len(masked) : masked[k] \in Keys /\ Leftmost = Span(k, k, k)
    BY <1>3, <1>4, LeftIs
  <2>2. \A j \in pos..Len(masked) : masked[j] \in Keys => Span(j, j, j) \in Left
    BY <1>4, LeftIs
  <2>3. \A j \in pos..Len(masked) : masked[j] \in Keys => k <= j
    BY <1>3, <2>1, <2>2 DEF Span
  <2> QED
    BY <1>4, <2>1, <2>3 DEF Taken, Earliest
<1>5. CASE rule = 2
  <2>1. PICK k \in pos..Len(masked) : masked[k] = "assign" /\ Inner(masked, k + 1)
                                      /\ Leftmost = Span(k + 1, k + 1, k + 1)
    BY <1>3, <1>5, LeftIs
  <2>2. \A j \in pos..Len(masked) :
          masked[j] = "assign" /\ Inner(masked, j + 1) => Span(j + 1, j + 1, j + 1) \in Left
    BY <1>5, LeftIs
  <2>3. \A j \in pos..Len(masked) :
          masked[j] = "assign" /\ j + 1 <= Len(masked) /\ masked[j + 1] \in Values => k <= j
    <3> SUFFICES ASSUME NEW j \in pos..Len(masked), masked[j] = "assign", j + 1 <= Len(masked),
                        masked[j + 1] \in Values
                 PROVE  k <= j
      OBVIOUS
    <3>1. Span(j + 1, j + 1, j + 1) \in Left
      BY <2>2 DEF Inner
    <3>2. k + 1 <= j + 1
      BY <1>3, <2>1, <3>1 DEF Span
    <3> QED
      BY <1>1, <3>2
  <2> QED
    BY <1>5, <2>1, <2>3 DEF Taken, Earliest, Inner
<1>6. CASE rule = 3
  BY <1>3, <1>6, LeftIs DEF Taken, Earliest
<1>7. CASE rule = 4
  <2>1. PICK k \in pos..Len(masked) : masked[k] \in Addresses /\ Leftmost = Span(k, k, k)
    BY <1>3, <1>7, LeftIs
  <2>2. \A j \in pos..Len(masked) : masked[j] \in Addresses => Span(j, j, j) \in Left
    BY <1>7, LeftIs
  <2>3. \A j \in pos..Len(masked) : masked[j] \in Addresses => k <= j
    BY <1>3, <2>1, <2>2 DEF Span
  <2> QED
    BY <1>7, <2>1, <2>3 DEF Taken, Earliest
<1> QED
  BY <1>1, <1>4, <1>5, <1>6, <1>7

\* Where text, vault and answers stay as they are, so does what they are restored to.
LEMMA RestoredSame ==
  ASSUME NothingLost, UNCHANGED <<prompt, masked, vault, restored>> PROVE NothingLost'
  BY DEF NothingLost, Restores, Issued

LEMMA EndRuleKept == ASSUME MaskInv, EndRule PROVE MaskInv'
<1>1. /\ MaskTypes /\ HiddenSoFar /\ OneSecretEach /\ NothingLost
      /\ Masking /\ Left = {} /\ rule' = rule + 1 /\ pos' = 1
      /\ UNCHANGED <<prompt, masked, vault, restored>>
  BY DEF MaskInv, EndRule
<1>2. rule \in 1..4 /\ pos \in Nat /\ Len(masked) \in Nat /\ DOMAIN masked = 1..Len(masked)
  BY <1>1, LeftIs, MaskableFinite DEF MaskTypes
<1>3. Maskable' \subseteq Maskable
  BY <1>1, <1>2 DEF Maskable
<1>4. MaskTypes'
  <2>1. Cardinality(Maskable') <= Cardinality(Maskable) /\ Cardinality(Maskable) \in Nat
        /\ Cardinality(Maskable') \in Nat
    BY <1>1, <1>3, MaskableFinite, FS_Subset, FS_CardinalityType
  <2>2. Issued' = Issued
    BY <1>1 DEF Issued
  <2>3. Issued' + Cardinality(Maskable') <= MaxTokens
    BY <1>1, <2>1, <2>2, MaskAssumption DEF MaskTypes
  <2> HIDE DEF Issued, Maskable
  <2>4. (Masking => restored = <<>>)'
    BY <1>1 DEF MaskTypes, Masking
  <2>5. (rule \in 1..5 /\ pos \in 1..(Len(masked) + 1))'
    BY <1>1, <1>2
  <2> QED
    BY <1>1, <2>2, <2>3, <2>4, <2>5 DEF MaskTypes
<1>5. HiddenSoFar'
  <2>1. \A k \in DOMAIN masked : masked[k] \in Keys => rule = 1 /\ k >= pos
    BY <1>1 DEF HiddenSoFar
  <2>2. \A k \in DOMAIN masked : masked[k] \notin Keys
    BY <1>1, <1>2, <2>1, LeftIs
  <2>3. \A k \in DOMAIN masked :
          masked[k] \in Values /\ k > 1 /\ masked[k - 1] = "assign" => rule' = 2
    <3> SUFFICES ASSUME NEW k \in DOMAIN masked, masked[k] \in Values, k > 1, masked[k - 1] = "assign",
                        rule # 1
                 PROVE  FALSE
      BY <1>1
    <3>1. rule = 2 /\ k > pos
      BY <1>1 DEF HiddenSoFar
    <3>2. k - 1 \in pos..Len(masked) /\ Inner(masked, k - 1 + 1)
      BY <1>2, <3>1 DEF Inner
    <3> QED
      BY <1>1, <3>1, <3>2, LeftIs
  <2>4. \A k \in DOMAIN masked : masked[k] \in Addresses \ Benign => rule' <= 4
    <3> SUFFICES ASSUME NEW k \in DOMAIN masked, masked[k] \in Addresses \ Benign, rule = 4
                 PROVE  FALSE
      BY <1>1, <1>2
    <3>1. k >= pos
      BY <1>1 DEF HiddenSoFar
    <3> QED
      BY <1>1, <1>2, <3>1, LeftIs
  <2> QED
    BY <1>1, <1>2, <2>2, <2>3, <2>4 DEF HiddenSoFar
<1>6. OneSecretEach'
  BY <1>1 DEF OneSecretEach
<1> QED
  BY <1>1, <1>4, <1>5, <1>6, RestoredSame DEF MaskInv

LEMMA SkipBenignKept == ASSUME MaskInv, SkipBenign PROVE MaskInv'
<1>1. /\ MaskTypes /\ HiddenSoFar /\ OneSecretEach /\ NothingLost
      /\ Masking /\ Left # {} /\ Rules[rule] = "address" /\ masked[Leftmost.first] \in Benign
      /\ pos' = Leftmost.end + 1
      /\ UNCHANGED <<prompt, masked, rule, vault, restored>>
  BY DEF MaskInv, SkipBenign
<1>2. rule = 4 /\ pos \in Nat /\ pos >= 1 /\ Len(masked) \in Nat /\ DOMAIN masked = 1..Len(masked)
  BY <1>1, LeftIs, MaskableFinite DEF MaskTypes
<1>3. PICK k \in pos..Len(masked) : Taken(k) /\ Earliest(k)
  BY <1>1, TakenIs
<1>4. Leftmost = Span(k, k, k) /\ pos' = k + 1 /\ masked[k] \in Benign
  BY <1>1, <1>2, <1>3 DEF Taken, Span
<1>5. Maskable' = Maskable
  BY <1>1, <1>2 DEF Maskable
<1>6. MaskTypes'
  <2>1. Issued' = Issued /\ (Masking => restored = <<>>)'
    BY <1>1 DEF Issued, MaskTypes, Masking
  <2>2. (rule \in 1..5 /\ pos \in 1..(Len(masked) + 1))'
    BY <1>1, <1>2, <1>4
  <2> HIDE DEF Issued, Maskable
  <2> QED
    BY <1>1, <1>5, <2>1, <2>2 DEF MaskTypes
<1>7. HiddenSoFar'
  <2>1. \A j \in DOMAIN masked : masked[j] \in Addresses \ Benign => j >= k + 1
    <3> SUFFICES ASSUME NEW j \in DOMAIN masked, masked[j] \in Addresses \ Benign PROVE j >= k + 1
      OBVIOUS
    <3>1. j >= pos
      BY <1>1, <1>2 DEF HiddenSoFar
    <3>2. k <= j
      BY <1>2, <1>3, <3>1 DEF Earliest
    <3> QED
      BY <1>2, <1>4, <3>2
  <2> QED
    BY <1>1, <1>2, <1>4, <2>1 DEF HiddenSoFar
<1>8. OneSecretEach'
  BY <1>1 DEF OneSecretEach
<1> QED
  BY <1>1, <1>6, <1>7, <1>8, RestoredSame DEF MaskInv

\* What one masking does: the text from a to b is now a placeholder, an earlier one that stands for the
\* same text or, if there is none, the next; k is where the rule matched.
MaskedAt(k, a, b, ph) ==
  /\ k \in pos..Len(masked) /\ a \in 1..Len(masked) /\ b \in a..Len(masked)
  /\ a = IF rule = 2 THEN k + 1 ELSE k
  /\ pos' = a + 1
  /\ k \in Maskable /\ (rule = 2 => masked[k] = "assign")
  /\ ph \in Range(Placeholders)
  /\ masked' = SubSeq(masked, 1, a - 1) \o <<ph>> \o SubSeq(masked, b + 1, Len(masked))
  /\ DOMAIN vault' = DOMAIN vault \union {ph} /\ vault'[ph] = SubSeq(masked, a, b)
  /\ vault' = [q \in DOMAIN vault' |-> vault'[q]]
  /\ \A q \in DOMAIN vault : vault'[q] = vault[q]
  /\ \/ ph \in DOMAIN vault /\ vault[ph] = SubSeq(masked, a, b)
     \/ /\ ph \notin DOMAIN vault /\ Issued < MaxTokens /\ ph = Placeholders[Issued + 1]
        /\ \A q \in DOMAIN vault : vault[q] # SubSeq(masked, a, b)

LEMMA MaskIs ==
  ASSUME MaskInv, Mask
  PROVE  \E k, a, b, ph : MaskedAt(k, a, b, ph) /\ Earliest(k)
<1>1. /\ MaskTypes /\ Masking /\ Left # {}
      /\ vault' = [q \in DOMAIN vault \union {PlaceholderOf(Matched(masked, Leftmost))} |->
                   IF q = PlaceholderOf(Matched(masked, Leftmost)) THEN Matched(masked, Leftmost)
                   ELSE vault[q]]
      /\ masked' = Replace(masked, Leftmost, PlaceholderOf(Matched(masked, Leftmost)))
      /\ pos' = Leftmost.first + 1
  BY DEF MaskInv, Mask
<1>2. /\ rule \in 1..4 /\ pos \in Nat /\ pos >= 1 /\ Len(masked) \in Nat /\ DOMAIN masked = 1..Len(masked)
      /\ IsFiniteSet(Maskable) /\ Cardinality(Maskable) \in Nat
  BY <1>1, LeftIs, MaskableFinite DEF MaskTypes
<1>3. PICK k \in pos..Len(masked) : Taken(k) /\ Earliest(k)
  BY <1>1, TakenIs
<1> DEFINE a == Leftmost.first
           b == Leftmost.last
           original == SubSeq(masked, a, b)
           ph == PlaceholderOf(original)
<1>4. /\ a \in 1..Len(masked) /\ b \in a..Len(masked)
      /\ a = IF rule = 2 THEN k + 1 ELSE k
  BY <1>2, <1>3 DEF Taken, Span
<1>5. k \in Maskable /\ (rule = 2 => masked[k] = "assign")
  BY <1>2, <1>3 DEF Taken, Maskable
<1>6. Matched(masked, Leftmost) = original
  BY DEF Matched
<1> HIDE DEF original
<1>7. /\ masked' = SubSeq(masked, 1, a - 1) \o <<ph>> \o SubSeq(masked, b + 1, Len(masked))
      /\ vault' = [q \in DOMAIN vault \union {ph} |-> IF q = ph THEN original ELSE vault[q]]
  BY <1>1, <1>6 DEF Replace
<1>8. Issued \in Nat /\ Issued < MaxTokens /\ MaxTokens <= Len(Placeholders)
  <2>1. Cardinality(Maskable) # 0
    BY <1>2, <1>5, FS_EmptySet
  <2>2. Issued \in Nat /\ Issued + Cardinality(Maskable) <= MaxTokens
    BY <1>1 DEF MaskTypes
  <2> HIDE DEF Maskable, Issued
  <2> QED
    BY <1>2, <2>1, <2>2, MaskAssumption
<1>9. DOMAIN vault = Numbered(Issued) /\ Numbered(Issued) \subseteq Range(Placeholders)
  <2>1. DOMAIN vault = Numbered(Issued)
    BY <1>1 DEF MaskTypes
  <2>2. \A j \in 1..Issued : j \in DOMAIN Placeholders
    BY <1>8, MaskAssumption
  <2> QED
    BY <2>1, <2>2 DEF Numbered, Range
<1>10. \/ ph \in DOMAIN vault /\ vault[ph] = original
       \/ /\ ph \notin DOMAIN vault /\ ph = Placeholders[Issued + 1]
          /\ \A q \in DOMAIN vault : vault[q] # original
  <2>1. CASE \E q \in DOMAIN vault : vault[q] = original
    BY <2>1 DEF PlaceholderOf
  <2>2. CASE ~\E q \in DOMAIN vault : vault[q] = original
    <3>1. ph = Placeholders[Issued + 1]
      BY <2>2 DEF PlaceholderOf, Issued
    <3>2. \A j \in 1..Issued : Placeholders[j] # Placeholders[Issued + 1]
      <4>1. \A j \in 1..Issued : j \in DOMAIN Placeholders /\ Issued + 1 \in DOMAIN Placeholders
                                 /\ j # Issued + 1
        BY <1>8, MaskAssumption
      <4> QED
        BY <4>1, MaskAssumption DEF IsInjective
    <3>3. Placeholders[Issued + 1] \notin DOMAIN vault
      BY <1>9, <3>2 DEF Numbered
    <3> QED
      BY <2>2, <3>1, <3>3
  <2> QED
    BY <2>1, <2>2
<1>11. ph \in Range(Placeholders)
  <2>1. Issued + 1 \in DOMAIN Placeholders
    BY <1>8, MaskAssumption
  <2> QED
    BY <1>9, <1>10, <2>1 DEF Range
<1> HIDE DEF a, b, ph
<1>12. /\ DOMAIN vault' = DOMAIN vault \union {ph} /\ vault'[ph] = original
       /\ vault' = [q \in DOMAIN vault' |-> vault'[q]]
       /\ \A q \in DOMAIN vault \ {ph} : vault'[q] = vault[q]
  BY <1>7
<1>13. \A q \in DOMAIN vault : vault'[q] = vault[q]
  BY <1>10, <1>12
<1>14. pos' = a + 1
  BY <1>1 DEF a
<1>15. MaskedAt(k, a, b, ph)
  BY <1>3, <1>4, <1>5, <1>7, <1>8, <1>10, <1>11, <1>12, <1>13, <1>14 DEF MaskedAt, original
<1> QED
  BY <1>3, <1>15

\* The text after it: what stood after b has moved.
LEMMA MaskedText ==
  ASSUME MaskInv, Mask, NEW k, NEW a, NEW b, NEW ph, MaskedAt(k, a, b, ph)
  PROVE  /\ masked' \in Seq(Wire) /\ Len(masked') = Len(masked) - (b - a) /\ Len(masked) \in Nat
         /\ DOMAIN masked' = 1..Len(masked') /\ DOMAIN masked = 1..Len(masked)
         /\ \A j \in 1..(a - 1) : masked'[j] = masked[j]
         /\ masked'[a] = ph
         /\ \A j \in (a + 1)..Len(masked') : j + (b - a) \in 1..Len(masked) /\ masked'[j] = masked[j + (b - a)]
         /\ ph \notin Keys \union Values \union Addresses \union {"assign", "uri", "host"}
         /\ a \in Nat /\ b \in Nat /\ a >= 1 /\ a <= b /\ b <= Len(masked) /\ k \in Nat /\ pos \in Nat
         /\ k >= pos /\ pos >= 1 /\ rule \in 1..4
<1>0. MaskTypes /\ Masking
  BY DEF MaskInv, Mask
<1>1. masked \in Seq(Wire) /\ ph \in Wire /\ pos \in 1..(Len(masked) + 1)
  BY <1>0 DEF MaskTypes, MaskedAt, Wire
<1>2. Len(masked) \in Nat /\ rule \in 1..4
  BY <1>0, <1>1, LenProperties, LeftIs
<1>3. /\ a \in 1..Len(masked) /\ b \in a..Len(masked) /\ k \in pos..Len(masked)
      /\ masked' = SubSeq(masked, 1, a - 1) \o <<ph>> \o SubSeq(masked, b + 1, Len(masked))
  BY DEF MaskedAt
<1>4. ph \notin Keys \union Values \union Addresses \union {"assign", "uri", "host"}
  BY MaskAssumption DEF MaskedAt
<1>5. /\ a \in Nat /\ b \in Nat /\ a >= 1 /\ a <= b /\ b <= Len(masked) /\ k \in Nat /\ pos \in Nat
      /\ k >= pos /\ pos >= 1
  BY <1>1, <1>2, <1>3
<1>6. /\ masked' \in Seq(Wire) /\ Len(masked') = Len(masked) - (b - a)
      /\ DOMAIN masked' = 1..Len(masked') /\ DOMAIN masked = 1..Len(masked)
      /\ \A j \in 1..(a - 1) : masked'[j] = masked[j]
      /\ masked'[a] = ph
      /\ \A j \in (a + 1)..Len(masked') : j + (b - a) \in 1..Len(masked) /\ masked'[j] = masked[j + (b - a)]
  <2>1. masked' = Spliced(masked, a, b, ph)
    BY <1>3 DEF Spliced
  <2>2. Spliced(masked, a, b, ph) \in Seq(Wire) /\ Replaced(masked, a, b, ph, Spliced(masked, a, b, ph))
    BY <1>1, <1>3, ReplaceIs
  <2> QED
    BY <2>1, <2>2 DEF Replaced
<1> QED
  BY <1>2, <1>4, <1>5, <1>6

\* A placeholder more at most, and a token less that may be masked.
LEMMA MaskTypesKept ==
  ASSUME MaskInv, Mask, NEW k, NEW a, NEW b, NEW ph, MaskedAt(k, a, b, ph)
  PROVE  /\ MaskTypes'
         /\ Issued' = IF ph \in DOMAIN vault THEN Issued ELSE Issued + 1
<1> DEFINE d == b - a
<1>1. /\ MaskTypes /\ Masking /\ MaskedAt(k, a, b, ph)
      /\ prompt' = prompt /\ rule' = rule /\ restored' = restored
  BY DEF MaskInv, Mask
<1>2. /\ masked' \in Seq(Wire) /\ Len(masked') = Len(masked) - d /\ Len(masked) \in Nat
      /\ DOMAIN masked' = 1..Len(masked') /\ DOMAIN masked = 1..Len(masked)
      /\ \A j \in 1..(a - 1) : masked'[j] = masked[j]
      /\ masked'[a] = ph
      /\ \A j \in (a + 1)..Len(masked') : j + d \in 1..Len(masked) /\ masked'[j] = masked[j + d]
      /\ ph \notin Keys \union Values \union Addresses \union {"assign", "uri", "host"}
      /\ a \in Nat /\ b \in Nat /\ a >= 1 /\ a <= b /\ b <= Len(masked) /\ k \in Nat /\ pos \in Nat
      /\ k >= pos /\ pos >= 1 /\ rule \in 1..4 /\ d \in Nat
  BY <1>1, MaskedText
<1> HIDE DEF d
<1>3. /\ IsFiniteSet(Maskable) /\ Cardinality(Maskable) \in Nat /\ k \in Maskable
      /\ a = IF rule = 2 THEN k + 1 ELSE k
      /\ pos' = a + 1
  BY <1>1, MaskableFinite DEF MaskedAt
<1>4. \A j \in Maskable' : (IF j < a THEN j ELSE j + d) \in Maskable \ {k}
  <2> SUFFICES ASSUME NEW j \in Maskable' PROVE (IF j < a THEN j ELSE j + d) \in Maskable \ {k}
    OBVIOUS
  <2>1. /\ j \in 1..Len(masked')
        /\ \/ masked'[j] \in Keys \union Addresses \union {"uri"}
           \/ masked'[j] = "assign" /\ (rule < 2 \/ (rule = 2 /\ j >= a + 1))
    BY <1>1, <1>2, <1>3 DEF Maskable
  <2>2. j # a
    BY <1>2, <2>1
  <2>3. CASE j < a
    <3>1. j \in 1..Len(masked) /\ masked[j] = masked'[j]
      BY <1>2, <2>1, <2>3
    <3>2. ~(rule = 2 /\ j >= a + 1)
      BY <1>2, <2>1, <2>3
    <3>3. j \in Maskable
      BY <1>2, <2>1, <3>1, <3>2 DEF Maskable
    <3>4. j # k
      <4>1. CASE rule = 2
        <5>1. masked[j] \in Keys \union Addresses \union {"uri"}
          BY <2>1, <3>1, <3>2, <4>1
        <5>2. masked[k] = "assign"
          BY <1>1, <4>1 DEF MaskedAt
        <5> QED
          BY <5>1, <5>2, MaskAssumption
      <4>2. CASE rule # 2
        BY <1>3, <2>3, <4>2
      <4> QED
        BY <4>1, <4>2
    <3> QED
      BY <2>3, <3>3, <3>4
  <2>4. CASE j > a
    <3>1. j \in (a + 1)..Len(masked') /\ j + d \in 1..Len(masked) /\ masked'[j] = masked[j + d]
          /\ j + d > a /\ ~(j < a)
      BY <1>2, <2>1, <2>4
    <3>2. k <= a
      BY <1>2, <1>3
    <3>3. rule = 2 => j + d >= pos
      BY <1>2, <3>1, <3>2
    <3>4. j + d \in Maskable
      BY <1>2, <2>1, <3>1, <3>3 DEF Maskable
    <3>5. j + d # k
      BY <1>2, <3>1, <3>2
    <3> QED
      BY <3>1, <3>4, <3>5
  <2> QED
    BY <1>2, <2>1, <2>2, <2>3, <2>4
<1>5. Cardinality(Maskable') <= Cardinality(Maskable) - 1 /\ Cardinality(Maskable') \in Nat
  <2> DEFINE f == [j \in Maskable' |-> IF j < a THEN j ELSE j + d]
             T == Maskable \ {k}
  <2>1. Maskable' \subseteq Int
    BY <1>2 DEF Maskable
  <2>2. f \in [Maskable' -> T]
    BY <1>4
  <2>3. \A i, j \in Maskable' : f[i] = f[j] => i = j
    BY <1>2, <2>1
  <2>4. f \in Injection(Maskable', T)
    <3>1. DOMAIN f = Maskable'
      BY <2>2
    <3> HIDE DEF f, T
    <3> QED
      BY <2>2, <2>3, <3>1 DEF Injection, IsInjective
  <2>5. IsFiniteSet(T) /\ Cardinality(T) = Cardinality(Maskable) - 1
    BY <1>3, FS_RemoveElement
  <2> HIDE DEF f, T
  <2>6. IsFiniteSet(Maskable') /\ Cardinality(Maskable') <= Cardinality(T)
    BY <2>4, <2>5, FS_Injection
  <2> QED
    BY <2>5, <2>6, FS_CardinalityType
<1>6. /\ DOMAIN vault = Numbered(Issued) /\ Issued \in Nat /\ MaxTokens \in Nat
      /\ Issued + Cardinality(Maskable) <= MaxTokens
      /\ MaxTokens <= Len(Placeholders)
  BY <1>1, MaskAssumption DEF MaskTypes
<1>7. /\ DOMAIN vault' = DOMAIN vault \union {ph} /\ vault'[ph] = SubSeq(masked, a, b)
      /\ vault' = [q \in DOMAIN vault' |-> vault'[q]]
      /\ \A q \in DOMAIN vault : vault'[q] = vault[q]
      /\ ph \notin DOMAIN vault => Issued < MaxTokens /\ ph = Placeholders[Issued + 1]
  BY <1>1 DEF MaskedAt
<1>8. /\ Issued' = IF ph \in DOMAIN vault THEN Issued ELSE Issued + 1
      /\ DOMAIN vault' = Numbered(Issued')
      /\ Issued' <= Issued + 1 /\ Issued' \in Nat
  <2>1. CASE ph \in DOMAIN vault
    <3>1. DOMAIN vault' = DOMAIN vault
      BY <1>7, <2>1
    <3> QED
      BY <1>6, <2>1, <3>1 DEF Issued
  <2>2. CASE ph \notin DOMAIN vault
    <3>1. Issued + 1 \in Nat /\ Issued + 1 <= Len(Placeholders)
      <4> HIDE DEF Issued
      <4> QED
        BY <1>6, <1>7, <2>2, MaskAssumption
    <3>2. DOMAIN vault' = Numbered(Issued + 1)
      <4>1. ph = Placeholders[Issued + 1]
        BY <1>7, <2>2
      <4>2. Numbered(Issued + 1) = Numbered(Issued) \union {Placeholders[Issued + 1]}
        <5> HIDE DEF Issued
        <5> QED
          BY <1>6 DEF Numbered
      <4> QED
        BY <1>6, <1>7, <4>1, <4>2
    <3>3. Issued' = Cardinality(Numbered(Issued + 1))
      BY <3>2 DEF Issued
    <3>4. Issued' = Issued + 1
      BY <3>1, <3>3, NumberedIs
    <3> HIDE DEF Issued
    <3> QED
      BY <1>6, <2>2, <3>2, <3>4
  <2> QED
    BY <2>1, <2>2
<1>9. (vault \in [Numbered(Issued) -> Seq(Wire)])'
  <2>1. masked \in Seq(Wire) /\ vault \in [Numbered(Issued) -> Seq(Wire)]
    BY <1>1 DEF MaskTypes
  <2>2. a \in 1..Len(masked) /\ b \in a..Len(masked)
    BY <1>2
  <2>3. SubSeq(masked, a, b) \in Seq(Wire)
    <3>1. Parts(Wire, masked, a, b)
      BY <2>1, <2>2, PartsIs
    <3> QED
      BY <3>1 DEF Parts
  <2>4. \A q \in DOMAIN vault' : vault'[q] \in Seq(Wire)
    BY <1>6, <1>7, <2>1, <2>3
  <2> HIDE DEF Issued
  <2> QED
    BY <1>7, <1>8, <2>4
<1>10. (rule \in 1..5 /\ pos \in 1..(Len(masked) + 1))'
  <2>1. a + 1 \in 1..(Len(masked) - d + 1)
    BY <1>2 DEF d
  <2> QED
    BY <1>1, <1>2, <1>3, <2>1
<1>11. (Issued + Cardinality(Maskable) <= MaxTokens)'
  <2> HIDE DEF Issued, Maskable
  <2> QED
    BY <1>3, <1>5, <1>6, <1>8
<1>12. (Masking => restored = <<>>)' /\ (restored \in Seq(Seq(Wire)))' /\ (prompt \in Seq(Token))'
  BY <1>1 DEF MaskTypes, Masking
<1>13. (masked \in Seq(Wire))' /\ (Issued \in Nat)'
  BY <1>2, <1>8
<1> QED
  BY <1>8, <1>9, <1>10, <1>11, <1>12, <1>13 DEF MaskTypes

LEMMA MaskHides ==
  ASSUME MaskInv, Mask, NEW k, NEW a, NEW b, NEW ph, MaskedAt(k, a, b, ph), Earliest(k)
  PROVE  HiddenSoFar'
<1> DEFINE d == b - a
<1>1. HiddenSoFar /\ rule' = rule /\ pos' = a + 1 /\ a = (IF rule = 2 THEN k + 1 ELSE k)
  BY DEF MaskInv, Mask, MaskedAt
<1>2. /\ Len(masked') = Len(masked) - d /\ Len(masked) \in Nat
      /\ DOMAIN masked' = 1..Len(masked') /\ DOMAIN masked = 1..Len(masked)
      /\ \A j \in 1..(a - 1) : masked'[j] = masked[j]
      /\ masked'[a] = ph
      /\ \A j \in (a + 1)..Len(masked') : j + d \in 1..Len(masked) /\ masked'[j] = masked[j + d]
      /\ ph \notin Keys \union Values \union Addresses \union {"assign", "uri", "host"}
      /\ a \in Nat /\ b \in Nat /\ a >= 1 /\ a <= b /\ b <= Len(masked) /\ k \in Nat /\ pos \in Nat
      /\ k >= pos /\ pos >= 1 /\ rule \in 1..4 /\ d \in Nat
  BY MaskedText
<1> HIDE DEF d
<1>3. ASSUME NEW j \in DOMAIN masked', masked'[j] \in Keys PROVE rule = 1 /\ j >= a + 1
  <2>1. j # a /\ j \in Nat /\ j >= 1 /\ j <= Len(masked')
    BY <1>2, <1>3
  <2>2. CASE j < a
    <3>1. j \in DOMAIN masked /\ masked[j] \in Keys
      BY <1>2, <1>3, <2>1, <2>2
    <3>2. rule = 1 /\ j >= pos
      BY <1>1, <3>1 DEF HiddenSoFar
    <3>3. j \in pos..Len(masked)
      BY <1>2, <2>1, <3>1, <3>2
    <3>4. k <= j
      BY <3>1, <3>2, <3>3 DEF Earliest
    <3> QED
      BY <1>1, <1>2, <2>1, <2>2, <3>2, <3>4
  <2>3. CASE j > a
    <3>1. j + d \in DOMAIN masked /\ masked[j + d] \in Keys
      <4>1. j \in (a + 1)..Len(masked')
        BY <1>2, <2>1, <2>3
      <4> QED
        BY <1>2, <1>3, <4>1
    <3> QED
      BY <1>1, <1>2, <2>1, <2>3, <3>1 DEF HiddenSoFar
  <2> QED
    BY <1>2, <2>1, <2>2, <2>3
<1>4. ASSUME NEW j \in DOMAIN masked', masked'[j] \in Values, j > 1, masked'[j - 1] = "assign"
      PROVE  rule = 1 \/ (rule = 2 /\ j > a + 1)
  <2>1. j # a /\ j - 1 # a /\ j \in Nat /\ j - 1 >= 1 /\ j <= Len(masked')
    BY <1>2, <1>4
  <2>2. CASE j < a
    <3>1. j \in DOMAIN masked /\ masked[j] \in Values /\ masked[j - 1] = "assign"
      BY <1>2, <1>4, <2>1, <2>2
    <3>2. rule = 1 \/ (rule = 2 /\ j > pos)
      BY <1>1, <1>4, <3>1 DEF HiddenSoFar
    <3>3. rule # 2
      <4> SUFFICES ASSUME rule = 2 PROVE FALSE
        OBVIOUS
      <4>1. j - 1 \in pos..Len(masked) /\ j - 1 + 1 = j /\ j <= Len(masked)
        <5>1. /\ j \in Nat /\ pos \in Nat /\ Len(masked) \in Nat /\ a \in Nat /\ a <= Len(masked)
          BY <1>2, <2>1
        <5>2. j > pos /\ j < a
          BY <2>2, <3>2
        <5> QED
          BY <5>1, <5>2
      <4>2. k <= j - 1
        BY <3>1, <4>1 DEF Earliest
      <4> QED
        BY <1>1, <1>2, <2>1, <2>2, <4>2
    <3> QED
      BY <3>2, <3>3
  <2>3. CASE j > a
    <3>1. j - 1 > a /\ j - 1 \in (a + 1)..Len(masked') /\ j \in (a + 1)..Len(masked') /\ j + d > 1
          /\ (j - 1) + d = (j + d) - 1
      <4>1. j - 1 > a /\ j \in Int /\ j <= Len(masked') /\ Len(masked') \in Int
        BY <1>2, <2>1, <2>3
      <4> QED
        BY <1>2, <4>1
    <3>2. j + d \in DOMAIN masked /\ masked[j + d] \in Values /\ masked[(j + d) - 1] = "assign"
      BY <1>2, <1>4, <3>1
    <3>3. rule = 1 \/ rule = 2
      <4>1. \A m \in DOMAIN masked :
              masked[m] \in Values /\ m > 1 /\ masked[m - 1] = "assign" => rule = 1 \/ (rule = 2 /\ m > pos)
        BY <1>1 DEF HiddenSoFar
      <4>2. PICK m : m = j + d
        OBVIOUS
      <4>3. m \in DOMAIN masked /\ masked[m] \in Values /\ m > 1
        BY <3>1, <3>2, <4>2
      <4>4. masked[m - 1] = "assign"
        BY <3>2, <4>2
      <4> QED
        BY <4>1, <4>3, <4>4
    <3> QED
      BY <1>2, <3>1, <3>3
  <2> QED
    BY <1>2, <2>1, <2>2, <2>3
<1>5. ASSUME NEW j \in DOMAIN masked', masked'[j] \in Addresses \ Benign
      PROVE  rule < 4 \/ (rule = 4 /\ j >= a + 1)
  <2>1. j # a /\ j \in Nat /\ j >= 1 /\ j <= Len(masked')
    BY <1>2, <1>5
  <2>2. CASE j < a
    <3> SUFFICES ASSUME rule = 4 PROVE FALSE
      BY <1>2
    <3>1. j \in DOMAIN masked /\ masked[j] \in Addresses \ Benign
      BY <1>2, <1>5, <2>1, <2>2
    <3>2. j >= pos
      BY <1>1, <3>1 DEF HiddenSoFar
    <3>3. j \in pos..Len(masked)
      BY <1>2, <2>1, <3>1, <3>2
    <3>4. k <= j
      BY <3>1, <3>3 DEF Earliest
    <3> QED
      BY <1>1, <1>2, <2>1, <2>2, <3>4
  <2>3. CASE j > a
    BY <1>2, <2>1, <2>3
  <2> QED
    BY <1>2, <2>1, <2>2, <2>3
<1> QED
  BY <1>1, <1>3, <1>4, <1>5 DEF HiddenSoFar

LEMMA MaskKeepsApart ==
  ASSUME MaskInv, Mask, NEW k, NEW a, NEW b, NEW ph, MaskedAt(k, a, b, ph) PROVE OneSecretEach'
<1>1. \A p, q \in DOMAIN vault : vault[p] = vault[q] => p = q
  BY DEF MaskInv, OneSecretEach
<1>2. /\ DOMAIN vault' = DOMAIN vault \union {ph} /\ vault'[ph] = SubSeq(masked, a, b)
      /\ \A q \in DOMAIN vault : vault'[q] = vault[q]
      /\ \/ ph \in DOMAIN vault
         \/ ph \notin DOMAIN vault /\ \A q \in DOMAIN vault : vault[q] # SubSeq(masked, a, b)
  BY DEF MaskedAt
<1>3. \A p, q \in DOMAIN vault' : vault'[p] = vault'[q] => p = q
  BY <1>1, <1>2
<1> QED
  BY <1>3 DEF OneSecretEach

\* Only earlier placeholders are allowed below a number, more of them below a greater one.
LEMMA BelowGrows == ASSUME NEW m \in Int, NEW n \in Int, m <= n PROVE Below(m) \subseteq Below(n)
  BY DEF Below, Numbered

\* What the restoring function has for any element of a text.
LEMMA MeaningIs ==
  ASSUME NEW n \in Nat, n <= Len(Placeholders), NEW full \in [Numbered(n) -> Seq(Plain)]
  PROVE  /\ Plain \cap DOMAIN full = {} /\ DOMAIN full = Numbered(n)
         /\ \A x \in Plain : Meaning(full, x) = <<x>>
         /\ \A x \in Numbered(n) : Meaning(full, x) = full[x]
         /\ \A x \in Below(n) : Meaning(full, x) \in Seq(Plain)
<1>1. DOMAIN full = Numbered(n) /\ Numbered(n) \subseteq Range(Placeholders)
  <2>1. \A k \in 1..n : k \in DOMAIN Placeholders
    BY MaskAssumption
  <2> QED
    BY <2>1 DEF Numbered, Range
<1>2. Plain \cap DOMAIN full = {}
  BY <1>1 DEF Plain
<1>3. \A x \in Plain : Meaning(full, x) = <<x>>
  BY <1>2 DEF Meaning
<1>4. \A x \in Numbered(n) : Meaning(full, x) = full[x] /\ full[x] \in Seq(Plain)
  BY <1>1 DEF Meaning
<1>5. \A x \in Below(n) : Meaning(full, x) \in Seq(Plain)
  <2>1. \A x \in Plain : <<x>> \in Seq(Plain)
    OBVIOUS
  <2> QED
    BY <1>3, <1>4, <2>1 DEF Below
<1> QED
  BY <1>1, <1>2, <1>3, <1>4, <1>5

\* The first n placeholders and one more.
LEMMA BelowNext ==
  ASSUME NEW n \in Nat
  PROVE  Numbered(n + 1) = Numbered(n) \union {Placeholders[n + 1]}
  BY DEF Numbered

\* A placeholder that is put for a text restores to what the text does.
LEMMA MaskRestorable ==
  ASSUME MaskInv, Mask, NEW k, NEW a, NEW b, NEW ph, MaskedAt(k, a, b, ph)
  PROVE  NothingLost'
<1> DEFINE n == Issued
           s1 == SubSeq(masked, 1, a - 1)
           original == SubSeq(masked, a, b)
           s2 == SubSeq(masked, b + 1, Len(masked))
<1>1. /\ MaskTypes /\ MaskTypes' /\ Masking /\ prompt' = prompt /\ restored' = restored
      /\ Issued' = (IF ph \in DOMAIN vault THEN n ELSE n + 1)
      /\ restored = <<>> /\ MaxTokens <= Len(Placeholders) /\ MaxTokens \in Nat /\ Len(Placeholders) \in Nat
  <2>1. MaskTypes /\ Masking /\ prompt' = prompt /\ restored' = restored
    BY DEF MaskInv, Mask
  <2> QED
    BY <2>1, MaskTypesKept, MaskAssumption DEF MaskTypes
<1>2. /\ a \in 1..Len(masked) /\ b \in a..Len(masked)
      /\ masked' = s1 \o <<ph>> \o s2
      /\ DOMAIN vault' = DOMAIN vault \union {ph} /\ vault'[ph] = original
      /\ \A q \in DOMAIN vault : vault'[q] = vault[q]
      /\ \/ ph \in DOMAIN vault /\ vault[ph] = original
         \/ ph \notin DOMAIN vault /\ n < MaxTokens /\ ph = Placeholders[n + 1]
  BY DEF MaskedAt
<1> SUFFICES ASSUME prompt \in Seq(Plain)
             PROVE  \E full \in [Numbered(Issued') -> Seq(Plain)] : Restores(full)'
  BY <1>1 DEF NothingLost
<1>3. PICK full \in [Numbered(n) -> Seq(Plain)] : Restores(full)
  BY DEF MaskInv, NothingLost
<1>4. /\ masked \in Seq(Below(n)) /\ Expand(full, masked) = prompt
      /\ \A m \in 1..n : /\ vault[Placeholders[m]] \in Seq(Below(m - 1))
                         /\ full[Placeholders[m]] = Expand(full, vault[Placeholders[m]])
  BY <1>3 DEF Restores
<1>5. n \in Nat /\ n <= Len(Placeholders) /\ DOMAIN vault = Numbered(n)
  <2>1. n \in Nat /\ Cardinality(Maskable) \in Nat /\ n + Cardinality(Maskable) <= MaxTokens
        /\ DOMAIN vault = Numbered(n)
    BY <1>1, MaskableFinite DEF MaskTypes
  <2> HIDE DEF n
  <2> QED
    BY <1>1, <2>1
<1>6. /\ Plain \cap DOMAIN full = {} /\ DOMAIN full = Numbered(n)
      /\ \A x \in Plain : Meaning(full, x) = <<x>>
      /\ \A x \in Numbered(n) : Meaning(full, x) = full[x]
      /\ \A x \in Below(n) : Meaning(full, x) \in Seq(Plain)
  <2> HIDE DEF n
  <2> QED
    BY <1>5, MeaningIs
<1> HIDE DEF n
<1>7. /\ masked = s1 \o original \o s2
      /\ s1 \in Seq(Below(n)) /\ original \in Seq(Below(n)) /\ s2 \in Seq(Below(n))
  <2>2. masked \in Seq(Below(n)) /\ a \in 1..Len(masked) /\ b \in a..Len(masked)
    BY <1>2, <1>4
  <2>3. /\ SubSeq(masked, 1, a - 1) \in Seq(Below(n)) /\ SubSeq(masked, a, b) \in Seq(Below(n))
        /\ SubSeq(masked, b + 1, Len(masked)) \in Seq(Below(n))
        /\ masked = SubSeq(masked, 1, a - 1) \o SubSeq(masked, a, b) \o SubSeq(masked, b + 1, Len(masked))
    <3>1. Parts(Below(n), masked, a, b)
      BY <2>2, PartsIs
    <3> QED
      BY <3>1 DEF Parts
  <2> QED
    BY <2>3
<1> HIDE DEF s1, original, s2
\* The text before and the text after it are restored part by part.
<1>8. ASSUME NEW f, NEW x, NEW A, \A y \in A : Meaning(f, y) \in Seq(Plain), Below(n) \subseteq A, x \in A,
             \A y \in Below(n) : Meaning(f, y) = Meaning(full, y),
             Meaning(f, x) = Expand(full, original)
      PROVE  Expand(f, s1 \o <<x>> \o s2) = prompt
  <2>1. s1 \in Seq(A) /\ s2 \in Seq(A) /\ <<x>> \in Seq(A) /\ s1 \o <<x>> \in Seq(A)
    <3>1. s1 \in Seq(A) /\ s2 \in Seq(A) /\ <<x>> \in Seq(A)
      BY <1>7, <1>8, SeqMonotonic
    <3> QED
      BY <3>1, ConcatProperties
  <2>2. Expand(f, (s1 \o <<x>>) \o s2) = Expand(f, s1 \o <<x>>) \o Expand(f, s2)
    BY <1>8, <2>1, ExpandConcat
  <2>3. Expand(f, s1 \o <<x>>) = Expand(f, s1) \o Meaning(f, x)
    <3>1. Append(s1, x) = s1 \o <<x>>
      BY <1>8, <2>1, AppendIsConcat
    <3>2. Expand(f, Append(s1, x)) = Expand(f, s1) \o Meaning(f, x)
      BY <1>8, <2>1, ExpandAppend
    <3> QED
      BY <3>1, <3>2
  <2>4. Expand(f, s1) = Expand(full, s1) /\ Expand(f, s2) = Expand(full, s2)
    <3>1. \A y \in Below(n) : Meaning(full, y) \in Seq(Plain) /\ Meaning(f, y) = Meaning(full, y)
      BY <1>6, <1>8
    <3> QED
      BY <1>7, <3>1, ExpandSame
  <2>5. Expand(full, masked) = (Expand(full, s1) \o Expand(full, original)) \o Expand(full, s2)
    <3>1. s1 \o original \in Seq(Below(n))
      BY <1>7, ConcatProperties
    <3>4. \A y \in Below(n) : Meaning(full, y) \in Seq(Plain)
      BY <1>6
    <3>5. s1 \in Seq(Below(n)) /\ original \in Seq(Below(n)) /\ s2 \in Seq(Below(n))
      BY <1>7
    <3>2. Expand(full, (s1 \o original) \o s2) = Expand(full, s1 \o original) \o Expand(full, s2)
      BY <3>1, <3>4, <3>5, ExpandConcat
    <3>3. Expand(full, s1 \o original) = Expand(full, s1) \o Expand(full, original)
      BY <3>4, <3>5, ExpandConcat
    <3> QED
      BY <1>7, <3>2, <3>3
  <2> QED
    BY <1>4, <1>8, <2>2, <2>3, <2>4, <2>5
<1>9. CASE ph \in DOMAIN vault
  <2>1. vault[ph] = original /\ Issued' = n /\ ph \in Numbered(n) /\ ph \in Below(n)
        /\ DOMAIN vault' = DOMAIN vault
    BY <1>1, <1>2, <1>5, <1>9 DEF Below
  <2>2. PICK m \in 1..n : ph = Placeholders[m]
    BY <2>1 DEF Numbered
  <2>3. Meaning(full, ph) = Expand(full, original)
    BY <1>4, <1>6, <2>1, <2>2
  <2>4. Expand(full, masked') = prompt
    BY <1>2, <1>6, <1>8, <2>1, <2>3
  <2>5. masked' \in Seq(Below(n))
    <3>1. <<ph>> \in Seq(Below(n)) /\ s1 \o <<ph>> \in Seq(Below(n))
      <4>1. <<ph>> \in Seq(Below(n))
        BY <2>1
      <4> QED
        BY <1>7, <4>1, ConcatProperties
    <3> QED
      BY <1>2, <1>7, <3>1, ConcatProperties
  <2>6. \A j \in 1..n : Placeholders[j] \in DOMAIN vault
    BY <1>5 DEF Numbered
  <2>7. \A j \in 1..n : /\ vault'[Placeholders[j]] \in Seq(Below(j - 1))
                        /\ full[Placeholders[j]] = Expand(full, vault'[Placeholders[j]])
    BY <1>2, <1>4, <2>6
  <2>8. Restores(full)'
    BY <1>1, <2>1, <2>4, <2>5, <2>7 DEF Restores
  <2> QED
    BY <2>1, <2>8
<1>10. CASE ph \notin DOMAIN vault
  <2>1. /\ Issued' = n + 1 /\ ph = Placeholders[n + 1] /\ Numbered(n + 1) = Numbered(n) \union {ph}
        /\ n + 1 \in Nat /\ n + 1 <= Len(Placeholders)
    <3>1. Issued' = n + 1 /\ ph = Placeholders[n + 1] /\ n < MaxTokens
      BY <1>1, <1>2, <1>10
    <3>2. n \in Nat /\ MaxTokens <= Len(Placeholders) /\ MaxTokens \in Nat /\ Len(Placeholders) \in Nat
      BY <1>1, <1>5
    <3>3. Numbered(n + 1) = Numbered(n) \union {Placeholders[n + 1]}
      BY <3>2, BelowNext
    <3> QED
      BY <3>1, <3>2, <3>3
  <2>2. Expand(full, original) \in Seq(Plain)
    BY <1>6, <1>7, ExpandType
  <2>3. PICK more \in [Numbered(n + 1) -> Seq(Plain)] :
          more[ph] = Expand(full, original) /\ \A q \in Numbered(n) : more[q] = full[q]
    <3> DEFINE g == [q \in Numbered(n + 1) |-> IF q = ph THEN Expand(full, original) ELSE full[q]]
    <3>1. ph \notin Numbered(n)
      BY <1>5, <1>10
    <3>2. g \in [Numbered(n + 1) -> Seq(Plain)] /\ g[ph] = Expand(full, original)
          /\ \A q \in Numbered(n) : g[q] = full[q]
      BY <2>1, <2>2, <3>1
    <3> QED
      BY <3>2
  <2>4. /\ Plain \cap DOMAIN more = {} /\ DOMAIN more = Numbered(n + 1)
        /\ \A x \in Plain : Meaning(more, x) = <<x>>
        /\ \A x \in Numbered(n + 1) : Meaning(more, x) = more[x]
        /\ \A x \in Below(n + 1) : Meaning(more, x) \in Seq(Plain)
    BY <2>1, <2>3, MeaningIs
  <2>5. Below(n + 1) = Below(n) \union {ph}
    BY <2>1 DEF Below
  <2>6. \A y \in Below(n) : Meaning(more, y) = Meaning(full, y)
    BY <1>6, <2>1, <2>3, <2>4 DEF Below
  <2>7. Meaning(more, ph) = Expand(full, original)
    BY <2>1, <2>3, <2>4
  <2>8. Expand(more, masked') = prompt
    BY <1>2, <1>8, <2>4, <2>5, <2>6, <2>7
  <2>9. masked' \in Seq(Below(n + 1))
    <3>1. <<ph>> \in Seq(Below(n + 1)) /\ s1 \in Seq(Below(n + 1)) /\ s2 \in Seq(Below(n + 1))
      BY <1>7, <2>5, SeqMonotonic
    <3>2. s1 \o <<ph>> \in Seq(Below(n + 1))
      BY <3>1, ConcatProperties
    <3> QED
      BY <1>2, <3>1, <3>2, ConcatProperties
  <2>10. ASSUME NEW t \in Seq(Below(n)) PROVE Expand(more, t) = Expand(full, t)
    <3>1. \A y \in Below(n) : Meaning(full, y) \in Seq(Plain) /\ Meaning(more, y) = Meaning(full, y)
      BY <1>6, <2>6
    <3> QED
      BY <3>1, ExpandSame
  <2>11. ASSUME NEW j \in 1..(n + 1)
         PROVE  /\ vault'[Placeholders[j]] \in Seq(Below(j - 1))
                /\ more[Placeholders[j]] = Expand(more, vault'[Placeholders[j]])
    <3>1. CASE j = n + 1
      <4>1. vault'[Placeholders[j]] = original /\ j - 1 = n
        BY <1>2, <1>5, <2>1, <3>1
      <4>2. Expand(more, original) = Expand(full, original)
        BY <1>7, <2>10
      <4> QED
        BY <1>7, <2>1, <2>3, <3>1, <4>1, <4>2
    <3>2. CASE j # n + 1
      <4>1. j \in 1..n
        BY <1>5, <3>2
      <4>2. Placeholders[j] \in Numbered(n)
        BY <4>1 DEF Numbered
      <4>3. vault'[Placeholders[j]] = vault[Placeholders[j]] /\ more[Placeholders[j]] = full[Placeholders[j]]
        BY <1>2, <1>5, <2>3, <4>2
      <4>4. Seq(Below(j - 1)) \subseteq Seq(Below(n))
        <5>1. Below(j - 1) \subseteq Below(n)
          <6>1. j - 1 \in Int /\ n \in Int /\ j - 1 <= n
            BY <1>5, <4>1
          <6> QED
            BY <6>1, BelowGrows
        <5> QED
          BY <5>1, SeqMonotonic
      <4> QED
        BY <1>4, <2>10, <4>1, <4>3, <4>4
    <3> QED
      BY <3>1, <3>2
  <2>12. Restores(more)'
    BY <1>1, <2>1, <2>8, <2>9, <2>11 DEF Restores
  <2> QED
    BY <2>1, <2>3, <2>12
<1> QED
  BY <1>9, <1>10

LEMMA MaskKept == ASSUME MaskInv, Mask PROVE MaskInv'
<1>1. PICK k, a, b, ph : MaskedAt(k, a, b, ph) /\ Earliest(k)
  BY MaskIs
<1>2. MaskTypes'
  BY <1>1, MaskTypesKept
<1>3. HiddenSoFar'
  BY <1>1, MaskHides
<1>4. OneSecretEach'
  BY <1>1, MaskKeepsApart
<1>5. NothingLost'
  BY <1>1, MaskRestorable
<1> QED
  BY <1>2, <1>3, <1>4, <1>5 DEF MaskInv

\* A pass of unmask over a text with none but the first n placeholders leaves none but the first n - 1.
LEMMA UnmaskIs ==
  ASSUME MaskTypes, prompt \in Seq(Plain),
         NEW full \in [Numbered(Issued) -> Seq(Plain)], Restores(full),
         NEW n \in Int, n <= Issued, NEW s \in Seq(Below(n))
  PROVE  Unmask(s) \in Seq(Below(n - 1)) /\ Expand(full, Unmask(s)) = Expand(full, s)
<1>1. Issued \in Nat /\ Issued <= Len(Placeholders) /\ DOMAIN vault = Numbered(Issued)
  <2>1. Issued \in Nat /\ Cardinality(Maskable) \in Nat /\ Issued + Cardinality(Maskable) <= MaxTokens
        /\ DOMAIN vault = Numbered(Issued)
    BY MaskableFinite DEF MaskTypes
  <2> HIDE DEF Issued, Maskable
  <2> QED
    BY <2>1, MaskAssumption
<1> HIDE DEF Issued
<1>2. /\ Plain \cap DOMAIN full = {} /\ DOMAIN full = Numbered(Issued)
      /\ \A x \in Plain : Meaning(full, x) = <<x>>
      /\ \A x \in Numbered(Issued) : Meaning(full, x) = full[x]
      /\ \A x \in Below(Issued) : Meaning(full, x) \in Seq(Plain)
  BY <1>1, MeaningIs
<1>3. Unmask(s) = Expand(vault, s)
  BY DEF Unmask, Expand, Meaning
<1>4. Below(n) \subseteq Below(Issued) /\ Plain \subseteq Below(n - 1)
  BY <1>1, BelowGrows DEF Below
<1>5. \A x \in Plain : Meaning(vault, x) = <<x>>
  BY <1>1, <1>2 DEF Meaning
<1>6. ASSUME NEW x \in Below(n)
      PROVE  Meaning(vault, x) \in Seq(Below(n - 1)) /\ Meaning(vault, x) \in Seq(Below(Issued))
             /\ Expand(full, Meaning(vault, x)) = Meaning(full, x)
  <2>0. \A y \in Below(Issued) : Meaning(full, y) \in Seq(Plain)
    BY <1>2
  <2>1. CASE x \in Plain
    <3>1. Meaning(vault, x) = <<x>> /\ Meaning(full, x) = <<x>> /\ x \in Below(n - 1) /\ x \in Below(Issued)
          /\ <<x>> \in Seq(Plain)
      BY <1>2, <1>4, <1>5, <1>6, <2>1
    <3>2. Expand(full, <<x>>) = <<x>>
      BY <1>2, <3>1, ExpandPlain
    <3> QED
      BY <3>1, <3>2
  <2>2. CASE x \notin Plain
    <3>1. PICK m \in 1..n : x = Placeholders[m]
      BY <1>6, <2>2 DEF Below, Numbered
    <3>2. m \in 1..Issued /\ m - 1 \in Int /\ m - 1 <= n - 1 /\ n - 1 \in Int /\ n - 1 <= Issued
          /\ Issued \in Int
      BY <1>1, <3>1
    <3>3. x \in Numbered(Issued)
      BY <3>1, <3>2 DEF Numbered
    <3>4. Meaning(vault, x) = vault[x] /\ Meaning(full, x) = full[x]
      BY <1>1, <1>2, <3>3 DEF Meaning
    <3>5. vault[x] \in Seq(Below(m - 1)) /\ full[x] = Expand(full, vault[x])
      BY <3>1, <3>2 DEF Restores
    <3>6. Below(m - 1) \subseteq Below(n - 1) /\ Below(n - 1) \subseteq Below(Issued)
      BY <3>2, BelowGrows
    <3>7. vault[x] \in Seq(Below(n - 1))
      BY <3>5, <3>6, SeqMonotonic
    <3>8. vault[x] \in Seq(Below(Issued))
      BY <3>6, <3>7, SeqMonotonic
    <3> QED
      BY <3>4, <3>5, <3>7, <3>8
  <2> QED
    BY <2>1, <2>2
<1>7. Expand(vault, s) \in Seq(Below(n - 1))
  <2>1. \A x \in Below(n) : Meaning(vault, x) \in Seq(Below(n - 1))
    BY <1>6
  <2> QED
    BY <2>1, ExpandType
<1>8. Expand(full, Expand(vault, s)) = Expand(full, s)
  <2>1. \A x \in Below(n) : Meaning(full, x) \in Seq(Plain)
    BY <1>2, <1>4
  <2>2. Agree(full, vault, Below(n), Plain, Below(Issued))
    BY <1>2, <1>6, <2>1 DEF Agree
  <2> QED
    BY <2>2, ExpandExpand
<1> QED
  BY <1>3, <1>7, <1>8

LEMMA EchoKept == ASSUME MaskInv, Echo PROVE MaskInv'
<1> DEFINE before == IF restored = <<>> THEN masked ELSE Last(restored)
           passes == Len(restored)
<1>1. /\ MaskTypes /\ HiddenSoFar /\ OneSecretEach /\ NothingLost /\ ~Masking
      /\ restored' = Append(restored, Unmask(before))
      /\ UNCHANGED <<prompt, masked, rule, pos, vault>>
  BY DEF MaskInv, Echo
<1>2. /\ restored \in Seq(Seq(Wire)) /\ masked \in Seq(Wire) /\ vault \in [Numbered(Issued) -> Seq(Wire)]
      /\ passes \in Nat /\ Issued \in Nat
  BY <1>1, LenProperties DEF MaskTypes
<1>3. \/ restored = <<>> /\ before = masked /\ passes = 0
      \/ passes \in 1..passes /\ before = restored[passes]
  BY <1>2, EmptySeq DEF Last
<1> HIDE DEF passes
<1>4. before \in Seq(Wire)
  <2>1. passes \in 1..passes => restored[passes] \in Seq(Wire)
    BY <1>2, ElementOfSeq DEF passes
  <2> QED
    BY <1>2, <1>3, <2>1
<1> HIDE DEF before
<1>5. Unmask(before) \in Seq(Wire)
  <2>1. \A x \in Wire : Meaning(vault, x) \in Seq(Wire)
    BY <1>2 DEF Meaning
  <2>2. Unmask(before) = Expand(vault, before)
    BY DEF Unmask, Expand, Meaning
  <2> QED
    BY <1>4, <2>1, <2>2, ExpandType
<1>6. /\ restored' \in Seq(Seq(Wire)) /\ Len(restored') = passes + 1
      /\ \A k \in 1..passes : restored'[k] = restored[k]
      /\ restored'[passes + 1] = Unmask(before)
  BY <1>1, <1>2, <1>5, AppendProperties DEF passes
<1>7. MaskTypes'
  <2>1. Issued' = Issued /\ Maskable' = Maskable /\ ~Masking'
    BY <1>1 DEF Issued, Maskable, Masking
  <2> HIDE DEF Issued, Maskable
  <2> QED
    BY <1>1, <1>6, <2>1 DEF MaskTypes
<1>8. HiddenSoFar' /\ OneSecretEach'
  BY <1>1 DEF HiddenSoFar, OneSecretEach
<1>9. NothingLost'
  <2>1. Issued' = Issued
    BY <1>1 DEF Issued
  <2> SUFFICES ASSUME prompt \in Seq(Plain)
               PROVE  \E full \in [Numbered(Issued) -> Seq(Plain)] : Restores(full)'
    BY <1>1, <2>1 DEF NothingLost
  <2>2. PICK full \in [Numbered(Issued) -> Seq(Plain)] : Restores(full)
    BY <1>1 DEF NothingLost
  <2>3. /\ masked \in Seq(Below(Issued)) /\ Expand(full, masked) = prompt
        /\ \A k \in 1..passes : restored[k] \in Seq(Below(Issued - k)) /\ Expand(full, restored[k]) = prompt
    BY <2>2 DEF Restores, passes
  <2> HIDE DEF Issued
  <2>4. before \in Seq(Below(Issued - passes)) /\ Expand(full, before) = prompt
    <3>1. Issued - 0 = Issued
      BY <1>2
    <3> QED
      BY <1>3, <2>3, <3>1
  <2>5. Unmask(before) \in Seq(Below((Issued - passes) - 1)) /\ Expand(full, Unmask(before)) = prompt
    <3>1. Issued - passes \in Int /\ Issued - passes <= Issued
      BY <1>2
    <3> QED
      BY <1>1, <2>2, <2>4, <3>1, UnmaskIs
  <2>6. ASSUME NEW k \in 1..(passes + 1)
        PROVE  restored'[k] \in Seq(Below(Issued - k)) /\ Expand(full, restored'[k]) = prompt
    <3>1. CASE k = passes + 1
      <4>1. (Issued - passes) - 1 = Issued - k
        BY <1>2, <3>1
      <4> QED
        BY <1>6, <2>5, <3>1, <4>1
    <3>2. CASE k # passes + 1
      <4>1. k \in 1..passes
        BY <1>2, <3>2
      <4> QED
        BY <1>6, <2>3, <4>1
    <3> QED
      BY <3>1, <3>2
  <2>7. Restores(full)'
    BY <1>1, <1>6, <2>1, <2>2, <2>6 DEF Restores
  <2> QED
    BY <2>7
<1> QED
  BY <1>7, <1>8, <1>9 DEF MaskInv

LEMMA MaskInvKept == ASSUME MaskInv, [CodecNext]_codecVars PROVE MaskInv'
<1>1. CASE EndRule
  BY <1>1, EndRuleKept
<1>2. CASE SkipBenign
  BY <1>2, SkipBenignKept
<1>3. CASE Mask
  BY <1>3, MaskKept
<1>4. CASE Echo
  BY <1>4, EchoKept
<1>5. CASE UNCHANGED codecVars
  <2>1. MaskTypes /\ HiddenSoFar /\ OneSecretEach /\ NothingLost
        /\ UNCHANGED <<prompt, masked, rule, pos, vault, restored>>
    BY <1>5 DEF MaskInv, codecVars
  <2>2. MaskTypes'
    BY <2>1 DEF MaskTypes, Issued, Maskable, Masking
  <2>3. HiddenSoFar' /\ OneSecretEach'
    BY <2>1 DEF HiddenSoFar, OneSecretEach
  <2> QED
    BY <2>1, <2>2, <2>3, RestoredSame DEF MaskInv
<1> QED
  BY <1>1, <1>2, <1>3, <1>4, <1>5 DEF CodecNext

\* As many passes as there are placeholders leave none of them.
LEMMA InvRestores ==
  ASSUME MaskInv, \A k \in DOMAIN prompt : prompt[k] \notin Range(Placeholders), Len(restored) = MaxPasses
  PROVE  Last(restored) = prompt
<1>1. MaskTypes /\ NothingLost
  BY DEF MaskInv
<1>2. prompt \in Seq(Plain)
  <2>1. prompt \in Seq(Token)
    BY <1>1 DEF MaskTypes
  <2>2. Len(prompt) \in Nat /\ prompt \in [1..Len(prompt) -> Token]
    BY <2>1, LenProperties
  <2>3. prompt \in [1..Len(prompt) -> Plain]
    BY <2>2 DEF Plain
  <2> QED
    BY <2>2, <2>3, FcnIsSeq
<1>3. PICK full \in [Numbered(Issued) -> Seq(Plain)] : Restores(full)
  BY <1>1, <1>2 DEF NothingLost
<1>4. Issued \in Nat /\ Issued <= Len(Placeholders) /\ Len(Placeholders) \in Nat /\ Len(Placeholders) >= 1
  <2>1. Issued \in Nat /\ Cardinality(Maskable) \in Nat /\ Issued + Cardinality(Maskable) <= MaxTokens
    BY <1>1, MaskableFinite DEF MaskTypes
  <2> HIDE DEF Issued, Maskable
  <2> QED
    BY <2>1, MaskAssumption
<1>5. Len(restored) = Len(Placeholders)
  BY DEF MaxPasses
<1>6. Last(restored) = restored[Len(Placeholders)]
  BY <1>5 DEF Last
<1>7. /\ restored[Len(Placeholders)] \in Seq(Below(Issued - Len(Placeholders)))
      /\ Expand(full, restored[Len(Placeholders)]) = prompt
  <2>1. Len(Placeholders) \in 1..Len(restored)
    BY <1>4, <1>5
  <2> QED
    BY <1>3, <2>1 DEF Restores
<1> HIDE DEF Issued
<1>8. Below(Issued - Len(Placeholders)) = Plain
  <2>1. 1..(Issued - Len(Placeholders)) = {}
    BY <1>4
  <2> QED
    BY <2>1 DEF Below, Numbered
<1>9. Plain \cap DOMAIN full = {}
  BY <1>4, MeaningIs
<1> QED
  BY <1>6, <1>7, <1>8, <1>9, ExpandPlain

\* A masked prompt has no key, no assigned value and no address but the benign ones, whichever rules overlap;
\* as many passes of unmask as there are placeholders restore a prompt that had none of its own; and no
\* two placeholders stand for the same secret (maskcodec.rs:137-208).
THEOREM SecretsHidden == CodecSpec => []HiddenAndRestorable
<1>1. CodecInit => MaskInv
  BY CodecInitInv
<1>2. MaskInv /\ [CodecNext]_codecVars => MaskInv'
  BY MaskInvKept
<1>3. MaskInv => HiddenAndRestorable
  <2> SUFFICES ASSUME MaskInv PROVE HiddenAndRestorable
    OBVIOUS
  <2>1. MaskTypes /\ HiddenSoFar /\ OneSecretEach
    BY DEF MaskInv
  <2>2. ~Masking => rule = 5
    BY <2>1 DEF MaskTypes, Masking, Rules
  <2>3. DOMAIN masked = 1..Len(masked) /\ Len(masked) \in Nat
    BY <2>1, MaskableFinite
  <2>4. ~Masking => /\ \A k \in DOMAIN masked : masked[k] \notin Keys \union (Addresses \ Benign)
                    /\ \A k \in DOMAIN masked : masked[k] \in Values => k = 1 \/ masked[k - 1] # "assign"
    BY <2>1, <2>2, <2>3 DEF HiddenSoFar
  <2>5. (\A k \in DOMAIN prompt : prompt[k] \notin Range(Placeholders)) /\ Len(restored) = MaxPasses
          => Last(restored) = prompt
    BY InvRestores
  <2> QED
    BY <2>1, <2>4, <2>5 DEF HiddenAndRestorable, OneSecretEach
<1> QED
  BY <1>1, <1>2, <1>3, PTL DEF CodecSpec

-----------------------------------------------------------------------------
(***************************************************************************)
(* The bracket scan, for all outputs of code, literals and comments.  The  *)
(* scan stands between two pieces, in the mode of code and with the        *)
(* balance of the pieces before it, or inside a literal, in its mode, and  *)
(* nowhere else.                                                           *)
(***************************************************************************)

Alphabet == UNION {Range(s) : s \in Source}

\* The length of the first n pieces of s, and the balance of those that are code.
At(s, n) == Len(UpTo(s, n))
Marked(s, S, n) == {k \in 1..n : \E a \in S : s[k] = <<a>>}
Net(s, n) == Cardinality(Marked(s, Opening, n)) - Cardinality(Marked(s, Closing, n))

\* The characters and escapes of a quoted literal start where `starts` has them.
Starts(q, l, starts) ==
  /\ starts \subseteq 2..Len(l) /\ {2, Len(l)} \subseteq starts
  /\ \A k \in starts \ {Len(l)} : l[k] # q /\ (IF l[k] = "bs" THEN k + 2 ELSE k + 1) \in starts

\* The scan is in the mode m before the p-th character of the literal l.
Rests(m, l, p) ==
  /\ l \in Literals /\ p \in 2..Len(l)
  /\ \/ m = Double /\ QuotedLiteral("dq", l) /\ \E starts : Starts("dq", l, starts) /\ p \in starts
     \/ m = Single /\ QuotedLiteral("sq", l) /\ \E starts : Starts("sq", l, starts) /\ p \in starts
     \/ m = Block /\ BlockComment(l) /\ p \in 3..(Len(l) - 1)
     \/ \E h \in 0..MaxHashes : m = Raw(h) /\ RawString(h, l) /\ p \in (h + 3)..(Len(l) - h)

Between(n) == chars = At(pieces, n) + 1 /\ mode = Code /\ depth = Net(pieces, n)
Within(n, p) == chars = At(pieces, n - 1) + p /\ Rests(mode, pieces[n], p) /\ depth = Net(pieces, n - 1)
ScanInv ==
  /\ pieces \in Seq(Source)
  /\ \/ \E n \in 0..Len(pieces) : Between(n)
     \/ \E n \in 1..Len(pieces), p \in Nat : Within(n, p)

\* No two modes are the same.
LEMMA ModesDiffer ==
  /\ Code # Double /\ Code # Single /\ Code # Block /\ Double # Single /\ Double # Block /\ Single # Block
  /\ \A h : Raw(h) \notin {Code, Double, Single, Block}
  /\ \A h, k : Raw(h) = Raw(k) => h = k
  BY DEF Code, Double, Single, Block, Raw

\* Every literal has two characters or more, is no atom, and does not start with a hash.
LEMMA LiteralIs ==
  ASSUME NEW l \in Literals
  PROVE  /\ l \in Seq(Range(l)) /\ Len(l) \in Nat /\ Len(l) >= 2 /\ DOMAIN l = 1..Len(l)
         /\ l[1] \in {"dq", "sq", "/", "r"}
         /\ \/ QuotedLiteral("dq", l) \/ QuotedLiteral("sq", l) \/ BlockComment(l) \/ Comment(l)
            \/ \E hashes \in 0..MaxHashes : RawString(hashes, l)
<1>1. /\ l \in Seq(Range(l))
      /\ \/ QuotedLiteral("dq", l) \/ QuotedLiteral("sq", l) \/ BlockComment(l) \/ Comment(l)
         \/ \E hashes \in 0..MaxHashes : RawString(hashes, l)
  BY ScanAssumption
<1>2. Len(l) \in Nat /\ DOMAIN l = 1..Len(l)
  BY <1>1, LenProperties
<1>3. Len(l) >= 2 /\ l[1] \in {"dq", "sq", "/", "r"}
  <2>1. CASE QuotedLiteral("dq", l) \/ QuotedLiteral("sq", l)
    BY <2>1 DEF QuotedLiteral
  <2>2. CASE BlockComment(l) \/ Comment(l)
    BY <1>2, <2>2 DEF BlockComment, Comment
  <2>3. CASE \E hashes \in 0..MaxHashes : RawString(hashes, l)
    BY <1>2, <2>3, ScanAssumption DEF RawString
  <2> QED
    BY <1>1, <2>1, <2>2, <2>3
<1> QED
  BY <1>1, <1>2, <1>3

LEMMA PieceIs ==
  ASSUME NEW s \in Source
  PROVE  /\ s \in Seq(Alphabet) /\ Len(s) \in Nat /\ Len(s) >= 1 /\ s[1] # "#"
         /\ (\E a \in Atoms : s = <<a>> /\ Len(s) = 1 /\ s[1] = a) \/ s \in Literals
<1>1. \A x \in Range(s) : x \in Alphabet
  BY DEF Alphabet
<1>2. CASE s \in Literals
  <2>1. s \in Seq(Range(s)) /\ Len(s) \in Nat /\ Len(s) >= 2 /\ s[1] \in {"dq", "sq", "/", "r"}
    BY <1>2, LiteralIs
  <2>2. s \in Seq(Alphabet)
    <3>1. Range(s) \subseteq Alphabet
      BY <1>1
    <3> QED
      BY <2>1, <3>1, SeqMonotonic
  <2> QED
    BY <1>2, <2>1, <2>2
<1>3. CASE s \notin Literals
  <2>1. PICK a \in Atoms : s = <<a>>
    BY <1>3 DEF Source
  <2>2. Len(s) = 1 /\ s[1] = a
    BY <2>1
  <2>3. a \in Range(s)
    BY <2>1 DEF Range
  <2>4. s \in Seq(Alphabet)
    BY <1>1, <2>1, <2>3
  <2>5. a # "#"
    BY ScanAssumption
  <2> QED
    BY <2>1, <2>2, <2>4, <2>5
<1> QED
  BY <1>2, <1>3

\* The characters of the n-th piece are those of the output from the end of the piece before it on.
LEMMA OutputIs ==
  ASSUME pieces \in Seq(Source)
  PROVE  /\ Len(pieces) \in Nat /\ Len(Output) \in Nat
         /\ At(pieces, 0) = 0 /\ At(pieces, Len(pieces)) = Len(Output)
         /\ \A n \in 0..Len(pieces) : At(pieces, n) \in Nat /\ At(pieces, n) <= Len(Output)
         /\ \A n \in 1..Len(pieces) : /\ pieces[n] \in Source
                                      /\ At(pieces, n) = At(pieces, n - 1) + Len(pieces[n])
                                      /\ \A j \in 1..Len(pieces[n]) : Output[At(pieces, n - 1) + j] = pieces[n][j]
<1>1. Len(pieces) \in Nat /\ \A n \in 1..Len(pieces) : pieces[n] \in Source
  BY LenProperties, ElementOfSeq
<1>2. pieces \in Seq(Seq(Alphabet))
  <2>1. Source \subseteq Seq(Alphabet)
    BY PieceIs
  <2> QED
    BY <2>1, SeqMonotonic
<1>3. /\ UpTo(pieces, 0) = <<>>
      /\ \A n \in 1..Len(pieces) : UpTo(pieces, n) = UpTo(pieces, n - 1) \o pieces[n]
      /\ \A n \in 0..Len(pieces) : UpTo(pieces, n) \in Seq(Alphabet)
      /\ Output = UpTo(pieces, Len(pieces))
  BY <1>2, UpToIs DEF Output
<1>4. \A n \in 1..Len(pieces) :
        /\ At(pieces, n) = At(pieces, n - 1) + Len(pieces[n])
        /\ \A j \in 1..At(pieces, n - 1) : UpTo(pieces, n)[j] = UpTo(pieces, n - 1)[j]
        /\ \A j \in 1..Len(pieces[n]) : UpTo(pieces, n)[At(pieces, n - 1) + j] = pieces[n][j]
  <2> SUFFICES ASSUME NEW n \in 1..Len(pieces)
               PROVE  /\ At(pieces, n) = At(pieces, n - 1) + Len(pieces[n])
                      /\ \A j \in 1..At(pieces, n - 1) : UpTo(pieces, n)[j] = UpTo(pieces, n - 1)[j]
                      /\ \A j \in 1..Len(pieces[n]) : UpTo(pieces, n)[At(pieces, n - 1) + j] = pieces[n][j]
    OBVIOUS
  <2>1. PICK m \in 0..Len(pieces) : m = n - 1
    BY <1>1
  <2>2. pieces[n] \in Seq(Alphabet) /\ UpTo(pieces, m) \in Seq(Alphabet)
    BY <1>1, <1>3, PieceIs
  <2>3. UpTo(pieces, n) = UpTo(pieces, m) \o pieces[n]
    BY <1>3, <2>1
  <2>4. /\ Len(UpTo(pieces, n)) = Len(UpTo(pieces, m)) + Len(pieces[n])
        /\ \A j \in 1..Len(UpTo(pieces, m)) : UpTo(pieces, n)[j] = UpTo(pieces, m)[j]
        /\ \A j \in 1..Len(pieces[n]) : UpTo(pieces, n)[Len(UpTo(pieces, m)) + j] = pieces[n][j]
    <3>1. Len(UpTo(pieces, m)) \in Nat /\ Len(pieces[n]) \in Nat
      BY <2>2, LenProperties
    <3>2. /\ Len(UpTo(pieces, m) \o pieces[n]) = Len(UpTo(pieces, m)) + Len(pieces[n])
          /\ \A j \in 1..(Len(UpTo(pieces, m)) + Len(pieces[n])) :
               (UpTo(pieces, m) \o pieces[n])[j] =
                  IF j <= Len(UpTo(pieces, m)) THEN UpTo(pieces, m)[j] ELSE pieces[n][j - Len(UpTo(pieces, m))]
      BY <2>2, ConcatProperties
    <3> QED
      BY <2>3, <3>1, <3>2
  <2> QED
    BY <2>1, <2>4 DEF At
<1>5. \A n \in 0..Len(pieces) : At(pieces, n) \in Nat
  BY <1>3, LenProperties DEF At
<1>6. \A n \in 1..Len(pieces) : Len(pieces[n]) \in Nat
  BY <1>1, PieceIs
<1> DEFINE Rest(n) == n <= Len(pieces) =>
             \A m \in 0..n : /\ At(pieces, m) <= At(pieces, n)
                             /\ \A j \in 1..At(pieces, m) : UpTo(pieces, n)[j] = UpTo(pieces, m)[j]
           N == {n \in Nat : Rest(n)}
<1>7. N = Nat
  <2>1. 0 \in N
    BY <1>5
  <2>2. ASSUME NEW n \in N PROVE n + 1 \in N
    <3> SUFFICES ASSUME n + 1 <= Len(pieces), NEW m \in 0..(n + 1)
                 PROVE  /\ At(pieces, m) <= At(pieces, n + 1)
                        /\ \A j \in 1..At(pieces, m) : UpTo(pieces, n + 1)[j] = UpTo(pieces, m)[j]
      OBVIOUS
    <3>1. PICK k \in 1..Len(pieces) : k = n + 1 /\ k - 1 = n
      BY <1>1
    <3>2. /\ At(pieces, k) = At(pieces, n) + Len(pieces[k]) /\ Len(pieces[k]) \in Nat
          /\ \A j \in 1..At(pieces, n) : UpTo(pieces, k)[j] = UpTo(pieces, n)[j]
      BY <1>4, <1>6, <3>1
    <3>3. At(pieces, m) \in Nat /\ At(pieces, n) \in Nat
      BY <1>1, <1>5
    <3>4. CASE m = k
      BY <3>1, <3>3, <3>4
    <3>5. CASE m # k
      <4>1. m \in 0..n /\ n <= Len(pieces)
        BY <1>1, <3>1, <3>5
      <4>2. At(pieces, m) <= At(pieces, n) /\ \A j \in 1..At(pieces, m) : UpTo(pieces, n)[j] = UpTo(pieces, m)[j]
        BY <4>1
      <4>3. \A j \in 1..At(pieces, m) : j \in 1..At(pieces, n)
        BY <3>3, <4>2
      <4> HIDE DEF N, Rest
      <4> QED
        BY <3>1, <3>2, <3>3, <4>2, <4>3
    <3> QED
      BY <3>4, <3>5
  <2> HIDE DEF N
  <2>3. N \subseteq Nat
    BY DEF N
  <2> QED
    BY <2>1, <2>2, <2>3, NatSetInduction
<1>8. \A m \in 0..Len(pieces) :
        /\ At(pieces, m) <= At(pieces, Len(pieces))
        /\ \A j \in 1..At(pieces, m) : Output[j] = UpTo(pieces, m)[j]
  <2>1. Len(pieces) \in N
    BY <1>1, <1>7
  <2> QED
    BY <1>1, <1>3, <2>1
<1>9. /\ At(pieces, 0) = 0 /\ At(pieces, Len(pieces)) = Len(Output) /\ Len(Output) \in Nat
  BY <1>1, <1>3, <1>5, EmptySeq DEF At
<1>10. ASSUME NEW n \in 1..Len(pieces), NEW j \in 1..Len(pieces[n])
       PROVE  Output[At(pieces, n - 1) + j] = pieces[n][j]
  <2>1. PICK m \in 0..Len(pieces) : m = n - 1
    BY <1>1
  <2>2. At(pieces, m) \in Nat /\ At(pieces, n) = At(pieces, m) + Len(pieces[n]) /\ Len(pieces[n]) \in Nat
    BY <1>4, <1>5, <1>6, <2>1
  <2>3. PICK i \in 1..At(pieces, n) : i = At(pieces, m) + j
    BY <2>2
  <2>4. Output[i] = UpTo(pieces, n)[i]
    BY <1>8
  <2>5. UpTo(pieces, n)[At(pieces, m) + j] = pieces[n][j]
    BY <1>4, <2>1
  <2> QED
    BY <2>1, <2>3, <2>4, <2>5
<1> QED
  BY <1>1, <1>4, <1>5, <1>8, <1>9, <1>10

\* The scan is before the p-th character of the n-th piece.
Stands(n, p) ==
  /\ pieces \in Seq(Source)
  /\ n \in 1..Len(pieces) /\ p \in 1..Len(pieces[n]) /\ chars = At(pieces, n - 1) + p

LEMMA StandsIs ==
  ASSUME NEW n, NEW p, Stands(n, p)
  PROVE  /\ pieces[n] \in Source /\ Len(pieces[n]) \in Nat /\ p \in Nat /\ Len(pieces) \in Nat
         /\ chars \in Nat /\ chars >= 1 /\ Len(Output) \in Nat
         /\ More /\ c = pieces[n][p]
         /\ \A k \in Nat : p + k <= Len(pieces[n]) => Output[chars + k] = pieces[n][p + k]
                                                      /\ chars + k <= Len(Output)
         /\ At(pieces, n) = chars + (Len(pieces[n]) - p)
         /\ At(pieces, n) \in Nat /\ At(pieces, n) <= Len(Output)
<1>1. /\ pieces \in Seq(Source) /\ n \in 1..Len(pieces) /\ p \in 1..Len(pieces[n])
      /\ chars = At(pieces, n - 1) + p
  BY DEF Stands
<1>2. /\ Len(pieces) \in Nat /\ Len(Output) \in Nat /\ pieces[n] \in Source
      /\ At(pieces, n) = At(pieces, n - 1) + Len(pieces[n])
      /\ At(pieces, n) \in Nat /\ At(pieces, n) <= Len(Output)
      /\ \A j \in 1..Len(pieces[n]) : Output[At(pieces, n - 1) + j] = pieces[n][j]
  BY <1>1, OutputIs
<1>3. Len(pieces[n]) \in Nat
  BY <1>2, PieceIs
<1>4. PICK m \in 0..Len(pieces) : m = n - 1
  BY <1>1, <1>2
<1>5. At(pieces, m) \in Nat
  BY <1>1, OutputIs
<1>6. chars \in Nat /\ chars >= 1 /\ p \in Nat
  BY <1>1, <1>3, <1>4, <1>5
<1>7. ASSUME NEW k \in Nat, p + k <= Len(pieces[n])
      PROVE  Output[chars + k] = pieces[n][p + k] /\ chars + k <= Len(Output)
  <2>1. PICK j \in 1..Len(pieces[n]) : j = p + k
    <3>1. p + k \in 1..Len(pieces[n])
      BY <1>1, <1>3, <1>6, <1>7
    <3> QED
      BY <3>1
  <2>2. chars + k = At(pieces, m) + j
    BY <1>1, <1>4, <1>5, <1>6, <2>1
  <2>3. Output[At(pieces, m) + j] = pieces[n][j]
    BY <1>2, <1>4
  <2>4. At(pieces, m) + j <= Len(Output)
    <3>1. At(pieces, n) = At(pieces, m) + Len(pieces[n]) /\ At(pieces, n) <= Len(Output) /\ Len(Output) \in Nat
      BY <1>2, <1>4
    <3> QED
      BY <1>3, <1>5, <2>1, <3>1
  <2> QED
    BY <2>1, <2>2, <2>3, <2>4
<1>8. More /\ c = pieces[n][p]
  <2>1. chars + 0 = chars /\ p + 0 = p /\ p + 0 <= Len(pieces[n])
    BY <1>1, <1>3, <1>6
  <2>2. Output[chars + 0] = pieces[n][p + 0] /\ chars + 0 <= Len(Output)
    BY <1>7, <2>1
  <2> QED
    BY <2>1, <2>2 DEF More, c
<1>9. At(pieces, n) = chars + (Len(pieces[n]) - p)
  BY <1>1, <1>2, <1>3, <1>4, <1>5, <1>6
<1> QED
  BY <1>1, <1>2, <1>3, <1>6, <1>7, <1>8, <1>9

\* The number of hashes is that of a run that ends with the output or with another character.
LEMMA HashesIs ==
  ASSUME chars \in Nat, Len(Output) \in Nat, More
  PROVE  /\ Hashes \in 0..(Len(Output) - chars)
         /\ \A k \in 1..Hashes : Sees(k, "#")
         /\ ~Sees(Hashes + 1, "#")
<1> DEFINE S == {n \in Nat : ~Sees(n + 1, "#")}
<1>1. Len(Output) - chars \in S
  <2>1. Len(Output) - chars \in Nat /\ ~(chars + ((Len(Output) - chars) + 1) <= Len(Output))
    BY DEF More
  <2> QED
    BY <2>1 DEF Sees
<1>2. PICK n \in S : \A k \in S : n <= k
  <2>1. S \subseteq Nat /\ S # {}
    BY <1>1
  <2> HIDE DEF S
  <2> QED
    BY <2>1, LeastOf
<1>3. \A k \in 1..n : Sees(k, "#")
  <2> SUFFICES ASSUME NEW k \in 1..n, ~Sees(k, "#") PROVE FALSE
    OBVIOUS
  <2>1. PICK m \in Nat : m = k - 1 /\ m + 1 = k /\ m < n
    BY <1>2
  <2>2. m \in S
    BY <2>1
  <2> QED
    BY <1>2, <2>1, <2>2
<1>4. n \in 0..(Len(Output) - chars)
  BY <1>1, <1>2
<1>5. ~Sees(n + 1, "#")
  BY <1>2
<1> QED
  BY <1>3, <1>4, <1>5 DEF Hashes

\* They are h when h of them follow before another character of the piece, or before its end: no piece
\* starts with one.
LEMMA HashesAre ==
  ASSUME NEW n, NEW p, Stands(n, p), NEW h \in Nat, p + h <= Len(pieces[n]),
         \A k \in 1..h : pieces[n][p + k] = "#",
         p + h = Len(pieces[n]) \/ pieces[n][p + (h + 1)] # "#"
  PROVE  Hashes = h
<1>1. /\ pieces[n] \in Source /\ Len(pieces[n]) \in Nat /\ p \in Nat /\ Len(pieces) \in Nat
      /\ chars \in Nat /\ chars >= 1 /\ Len(Output) \in Nat /\ More
      /\ \A k \in Nat : p + k <= Len(pieces[n]) => Output[chars + k] = pieces[n][p + k]
                                                   /\ chars + k <= Len(Output)
      /\ At(pieces, n) = chars + (Len(pieces[n]) - p) /\ At(pieces, n) \in Nat
  BY StandsIs
<1>2. /\ Hashes \in 0..(Len(Output) - chars) /\ ~Sees(Hashes + 1, "#")
      /\ \A k \in 1..Hashes : Sees(k, "#")
  BY <1>1, HashesIs
<1>3. \A k \in 1..h : Sees(k, "#")
  <2> SUFFICES ASSUME NEW k \in 1..h PROVE Sees(k, "#")
    OBVIOUS
  <2>1. k \in Nat /\ p + k <= Len(pieces[n])
    BY <1>1
  <2> QED
    BY <1>1, <2>1 DEF Sees
<1>4. ~Sees(h + 1, "#")
  <2>1. CASE p + h = Len(pieces[n])
    <3>1. h \in Nat /\ chars + (h + 1) = At(pieces, n) + 1
      <4>1. /\ chars \in Nat /\ p \in Nat /\ Len(pieces[n]) \in Nat
            /\ At(pieces, n) = chars + (Len(pieces[n]) - p)
        BY <1>1
      <4> QED
        BY <2>1, <4>1
    <3>2. CASE n = Len(pieces)
      <4>1. At(pieces, n) = Len(Output)
        BY <3>2, OutputIs DEF Stands
      <4> QED
        BY <1>1, <3>1, <4>1 DEF Sees
    <3>3. CASE n # Len(pieces)
      <4>1. PICK m \in 1..Len(pieces) : m = n + 1 /\ m - 1 = n
        BY <1>1, <3>3 DEF Stands
      <4>2. /\ pieces[m] \in Source
            /\ \A j \in 1..Len(pieces[m]) : Output[At(pieces, n) + j] = pieces[m][j]
        BY <4>1, OutputIs DEF Stands
      <4>3. Len(pieces[m]) \in Nat /\ Len(pieces[m]) >= 1 /\ pieces[m][1] # "#"
        BY <4>2, PieceIs
      <4>4. Output[At(pieces, n) + 1] # "#"
        BY <4>2, <4>3
      <4> QED
        BY <3>1, <4>4 DEF Sees
    <3> QED
      BY <3>2, <3>3
  <2>2. CASE p + h # Len(pieces[n])
    <3>1. p + (h + 1) <= Len(pieces[n]) /\ h + 1 \in Nat
      BY <1>1, <2>2
    <3>2. Output[chars + (h + 1)] = pieces[n][p + (h + 1)]
      BY <1>1, <3>1
    <3> QED
      BY <2>2, <3>2 DEF Sees
  <2> QED
    BY <2>1, <2>2
<1>5. ~(Hashes < h)
  <2> SUFFICES ASSUME Hashes < h PROVE FALSE
    OBVIOUS
  <2>1. Hashes + 1 \in 1..h
    BY <1>1, <1>2
  <2> QED
    BY <1>2, <1>3, <2>1
<1>6. ~(h < Hashes)
  <2> SUFFICES ASSUME h < Hashes PROVE FALSE
    OBVIOUS
  <2>1. h + 1 \in 1..Hashes
    BY <1>1, <1>2
  <2> QED
    BY <1>2, <1>4, <2>1
<1> HIDE DEF Hashes
<1> QED
  BY <1>1, <1>2, <1>5, <1>6

\* They are fewer when one of the h characters that follow is another.
LEMMA HashesFewer ==
  ASSUME NEW n, NEW p, Stands(n, p), NEW h \in Nat, p + h <= Len(pieces[n]),
         NEW j \in 1..h, pieces[n][p + j] # "#"
  PROVE  Hashes # h
<1>1. /\ Len(pieces[n]) \in Nat /\ p \in Nat /\ chars \in Nat /\ Len(Output) \in Nat /\ More
      /\ \A k \in Nat : p + k <= Len(pieces[n]) => Output[chars + k] = pieces[n][p + k]
  BY StandsIs
<1>2. \A k \in 1..Hashes : Sees(k, "#")
  BY <1>1, HashesIs
<1>3. ~Sees(j, "#")
  <2>1. j \in Nat /\ p + j <= Len(pieces[n])
    BY <1>1
  <2> QED
    BY <1>1, <2>1 DEF Sees
<1> QED
  BY <1>2, <1>3

\* The balance of the first n pieces is that of one less and of the last.
LEMMA MarkedIs ==
  ASSUME NEW s, NEW S, NEW n \in Nat
  PROVE  /\ Marked(s, S, 0) = {} /\ IsFiniteSet(Marked(s, S, n)) /\ Cardinality(Marked(s, S, n)) \in Nat
         /\ n # 0 => Cardinality(Marked(s, S, n)) = Cardinality(Marked(s, S, n - 1))
                                                    + IF \E a \in S : s[n] = <<a>> THEN 1 ELSE 0
<1>1. \A m \in Nat : IsFiniteSet(Marked(s, S, m)) /\ Cardinality(Marked(s, S, m)) \in Nat
  <2> SUFFICES ASSUME NEW m \in Nat
               PROVE  IsFiniteSet(Marked(s, S, m)) /\ Cardinality(Marked(s, S, m)) \in Nat
    OBVIOUS
  <2>1. Marked(s, S, m) \subseteq 1..m
    BY DEF Marked
  <2>2. IsFiniteSet(1..m)
    BY FS_Interval
  <2> QED
    BY <2>1, <2>2, FS_Subset, FS_CardinalityType
<1>2. Marked(s, S, 0) = {}
  BY DEF Marked
<1>3. ASSUME n # 0
      PROVE  Cardinality(Marked(s, S, n)) = Cardinality(Marked(s, S, n - 1))
                                            + IF \E a \in S : s[n] = <<a>> THEN 1 ELSE 0
  <2>1. PICK m \in Nat : m = n - 1 /\ n = m + 1
    BY <1>3
  <2>2. n \notin Marked(s, S, m)
    BY <2>1 DEF Marked
  <2>3. CASE \E a \in S : s[n] = <<a>>
    <3>1. Marked(s, S, n) = Marked(s, S, m) \union {n}
      <4>1. n \in 1..n /\ 1..m \subseteq 1..n /\ \A k \in 1..n : k = n \/ k \in 1..m
        BY <2>1
      <4> QED
        BY <2>3, <4>1 DEF Marked
    <3>2. Cardinality(Marked(s, S, m) \union {n}) = Cardinality(Marked(s, S, m)) + 1
      BY <1>1, <2>2, FS_AddElement
    <3> QED
      BY <2>1, <2>3, <3>1, <3>2
  <2>4. CASE ~\E a \in S : s[n] = <<a>>
    <3>1. Marked(s, S, n) = Marked(s, S, m)
      <4>1. 1..m \subseteq 1..n /\ \A k \in 1..n : k = n \/ k \in 1..m
        BY <2>1
      <4> QED
        BY <2>4, <4>1 DEF Marked
    <3>2. Cardinality(Marked(s, S, m)) \in Nat
      BY <1>1
    <3> QED
      BY <2>1, <2>4, <3>1, <3>2
  <2> QED
    BY <2>3, <2>4
<1> QED
  BY <1>1, <1>2, <1>3

Weight(a) == IF a \in Opening THEN 1 ELSE IF a \in Closing THEN -1 ELSE 0
LEMMA NetIs ==
  ASSUME pieces \in Seq(Source), NEW n \in 1..Len(pieces)
  PROVE  /\ Net(pieces, n) \in Int /\ Net(pieces, n - 1) \in Int
         /\ \A a \in Atoms : pieces[n] = <<a>> => Net(pieces, n) = Net(pieces, n - 1) + Weight(a)
         /\ pieces[n] \in Literals => Net(pieces, n) = Net(pieces, n - 1)
<1>1. n \in Nat /\ n # 0 /\ n - 1 \in Nat
  BY LenProperties
<1> DEFINE opened(k) == Cardinality(Marked(pieces, Opening, k))
           closed(k) == Cardinality(Marked(pieces, Closing, k))
<1>2. /\ opened(n) \in Nat /\ opened(n - 1) \in Nat /\ closed(n) \in Nat /\ closed(n - 1) \in Nat
      /\ opened(n) = opened(n - 1) + IF \E a \in Opening : pieces[n] = <<a>> THEN 1 ELSE 0
      /\ closed(n) = closed(n - 1) + IF \E a \in Closing : pieces[n] = <<a>> THEN 1 ELSE 0
  BY <1>1, MarkedIs
<1>3. Net(pieces, n) = opened(n) - closed(n) /\ Net(pieces, n - 1) = opened(n - 1) - closed(n - 1)
  BY DEF Net
<1> HIDE DEF opened, closed
<1>4. ASSUME NEW a \in Atoms, pieces[n] = <<a>> PROVE Net(pieces, n) = Net(pieces, n - 1) + Weight(a)
  <2>1. (\E b \in Opening : pieces[n] = <<b>>) <=> a \in Opening
    BY <1>4
  <2>2. (\E b \in Closing : pieces[n] = <<b>>) <=> a \in Closing
    BY <1>4
  <2>3. ~(a \in Opening /\ a \in Closing)
    BY DEF Opening, Closing
  <2> HIDE DEF Opening, Closing
  <2>4. /\ opened(n) = opened(n - 1) + IF a \in Opening THEN 1 ELSE 0
        /\ closed(n) = closed(n - 1) + IF a \in Closing THEN 1 ELSE 0
    BY <1>2, <2>1, <2>2
  <2>5. opened(n - 1) \in Nat /\ closed(n - 1) \in Nat
    BY <1>2
  <2> QED
    BY <1>3, <2>3, <2>4, <2>5 DEF Weight
<1>5. ASSUME pieces[n] \in Literals PROVE Net(pieces, n) = Net(pieces, n - 1)
  <2>1. Len(pieces[n]) >= 2
    BY <1>5, LiteralIs
  <2>2. \A a : pieces[n] # <<a>>
    BY <2>1
  <2> QED
    BY <1>2, <1>3, <2>2
<1>6. Net(pieces, n) \in Int /\ Net(pieces, n - 1) \in Int
  BY <1>2, <1>3
<1> QED
  BY <1>4, <1>5, <1>6

\* The first two characters tell which literal it is.
LEMMA FormOf ==
  ASSUME NEW l \in Literals
  PROVE  /\ l[1] = "dq" => QuotedLiteral("dq", l)
         /\ l[1] = "sq" => QuotedLiteral("sq", l)
         /\ l[1] = "r" => \E h \in 0..MaxHashes : RawString(h, l)
         /\ l[1] = "/" => \/ BlockComment(l) /\ l[2] = "*"
                          \/ Comment(l) /\ l[2] = "/"
<1>1. \/ QuotedLiteral("dq", l) \/ QuotedLiteral("sq", l) \/ BlockComment(l) \/ Comment(l)
      \/ \E hashes \in 0..MaxHashes : RawString(hashes, l)
  BY LiteralIs
<1>2. /\ QuotedLiteral("dq", l) => l[1] = "dq"
      /\ QuotedLiteral("sq", l) => l[1] = "sq"
      /\ BlockComment(l) => l[1] = "/" /\ l[2] = "*"
      /\ Comment(l) => l[1] = "/" /\ l[2] = "/"
      /\ \A h : RawString(h, l) => l[1] = "r"
  BY DEF QuotedLiteral, BlockComment, Comment, RawString
<1> QED
  BY <1>1, <1>2

\* A step ends a piece, or stays inside one.
LEMMA PieceEnds ==
  ASSUME pieces \in Seq(Source), NEW n \in 1..Len(pieces), pieces' = pieces,
         chars' = At(pieces, n) + 1, mode' = Code, depth' = Net(pieces, n)
  PROVE  ScanInv'
<1>1. n \in 0..Len(pieces)
  BY LenProperties
<1> QED
  BY <1>1 DEF ScanInv, Between

LEMMA PieceGoesOn ==
  ASSUME pieces \in Seq(Source), NEW n \in 1..Len(pieces), NEW p \in Nat, pieces' = pieces,
         chars' = At(pieces, n - 1) + p, Rests(mode', pieces[n], p), depth' = Net(pieces, n - 1)
  PROVE  ScanInv'
  BY DEF ScanInv, Within

Stood(n, p) ==
  /\ Stands(n, p) /\ depth = Net(pieces, n - 1)
  /\ \/ p = 1 /\ mode = Code
     \/ Rests(mode, pieces[n], p)

LEMMA InvStood == ASSUME ScanInv, More PROVE \E n, p : Stood(n, p)
<1>1. pieces \in Seq(Source) /\ Len(pieces) \in Nat
  BY LenProperties DEF ScanInv
<1>2. CASE \E n \in 0..Len(pieces) : Between(n)
  <2>1. PICK n \in 0..Len(pieces) : Between(n)
    BY <1>2
  <2>2. n # Len(pieces)
    <3> SUFFICES ASSUME n = Len(pieces) PROVE FALSE
      OBVIOUS
    <3>1. chars = Len(Output) + 1 /\ Len(Output) \in Nat
      BY <1>1, <2>1, OutputIs DEF Between
    <3> QED
      BY <3>1 DEF More
  <2>3. PICK m \in 1..Len(pieces) : m - 1 = n
    <3>1. n + 1 \in 1..Len(pieces) /\ (n + 1) - 1 = n
      BY <1>1, <2>2
    <3> QED
      BY <3>1
  <2>4. 1 \in 1..Len(pieces[m])
    <3>1. Len(pieces[m]) \in Nat /\ Len(pieces[m]) >= 1
      BY <1>1, OutputIs, PieceIs
    <3> QED
      BY <3>1
  <2> QED
    BY <1>1, <2>1, <2>3, <2>4 DEF Stood, Stands, Between
<1>3. CASE \E n \in 1..Len(pieces), p \in Nat : Within(n, p)
  <2>1. PICK n \in 1..Len(pieces), p \in Nat : Within(n, p)
    BY <1>3
  <2>2. p \in 1..Len(pieces[n])
    BY <2>1 DEF Within, Rests
  <2> QED
    BY <1>1, <2>1, <2>2 DEF Stood, Stands, Within
<1> QED
  BY <1>2, <1>3 DEF ScanInv

\* What the scan knows of where it stands.
LEMMA StoodAt ==
  ASSUME NEW n, NEW p, Stood(n, p)
  PROVE  /\ pieces \in Seq(Source) /\ n \in 1..Len(pieces) /\ p \in 1..Len(pieces[n])
         /\ chars = At(pieces, n - 1) + p /\ depth = Net(pieces, n - 1) /\ At(pieces, n - 1) \in Nat
         /\ pieces[n] \in Source /\ Len(pieces[n]) \in Nat /\ p \in Nat /\ chars \in Nat /\ Len(Output) \in Nat
         /\ More /\ c = pieces[n][p]
         /\ At(pieces, n) = chars + (Len(pieces[n]) - p) /\ At(pieces, n) \in Nat
         /\ At(pieces, n) <= Len(Output)
<1>1. Stands(n, p) /\ depth = Net(pieces, n - 1)
  BY DEF Stood
<1>2. /\ pieces \in Seq(Source) /\ n \in 1..Len(pieces) /\ p \in 1..Len(pieces[n])
      /\ chars = At(pieces, n - 1) + p
  BY <1>1 DEF Stands
<1>3. /\ pieces[n] \in Source /\ Len(pieces[n]) \in Nat /\ p \in Nat /\ Len(pieces) \in Nat
      /\ chars \in Nat /\ Len(Output) \in Nat
      /\ More /\ c = pieces[n][p]
      /\ At(pieces, n) = chars + (Len(pieces[n]) - p)
      /\ At(pieces, n) \in Nat /\ At(pieces, n) <= Len(Output)
  BY <1>1, StandsIs
<1>4. At(pieces, n - 1) \in Nat
  <2>1. n - 1 \in 0..Len(pieces)
    BY <1>2, <1>3
  <2> QED
    BY <1>2, <2>1, OutputIs
<1> QED
  BY <1>1, <1>2, <1>3, <1>4

LEMMA StoodSees ==
  ASSUME NEW n, NEW p, Stood(n, p), NEW k \in Nat, p + k <= Len(pieces[n])
  PROVE  Output[chars + k] = pieces[n][p + k] /\ \A x : Sees(k, x) <=> pieces[n][p + k] = x
<1>1. Stands(n, p)
  BY DEF Stood
<1>2. Output[chars + k] = pieces[n][p + k] /\ chars + k <= Len(Output)
  BY <1>1, StandsIs
<1> QED
  BY <1>2 DEF Sees

LEMMA StoodIn ==
  ASSUME NEW n, NEW p, Stood(n, p)
  PROVE  /\ mode = Code => p = 1 /\ \/ pieces[n] \in Literals
                                    \/ \E a \in Atoms : pieces[n] = <<a>> /\ Len(pieces[n]) = 1 /\ pieces[n][1] = a
         /\ mode # Code => Rests(mode, pieces[n], p) /\ pieces[n] \in Literals
<1>1. (p = 1 /\ mode = Code) \/ Rests(mode, pieces[n], p)
  BY DEF Stood
<1>2. Rests(mode, pieces[n], p) => mode # Code /\ pieces[n] \in Literals
  BY ModesDiffer DEF Rests
<1>3. \/ pieces[n] \in Literals
      \/ \E a \in Atoms : pieces[n] = <<a>> /\ Len(pieces[n]) = 1 /\ pieces[n][1] = a
  <2>1. pieces[n] \in Source
    BY StoodAt
  <2> QED
    BY <2>1, PieceIs
<1> QED
  BY <1>1, <1>2, <1>3

\* A literal that starts with a slash is a comment, one that starts with an r a raw string.
LEMMA OpenBlockKept == ASSUME NEW n, NEW p, Stood(n, p), OpenBlock PROVE ScanInv'
<1>1. /\ mode = Code /\ c = "/" /\ Sees(1, "*") /\ mode' = Block /\ chars' = chars + 2
      /\ pieces' = pieces /\ depth' = depth
  BY DEF OpenBlock, Consume
<1>2. p = 1 /\ pieces[n] \in Literals /\ pieces[n][1] = "/"
  <2>1. \A a \in Atoms : a # "/"
    BY ScanAssumption
  <2>2. p = 1 /\ \/ pieces[n] \in Literals
                  \/ \E a \in Atoms : pieces[n] = <<a>> /\ Len(pieces[n]) = 1 /\ pieces[n][1] = a
    BY <1>1, StoodIn
  <2>3. c = pieces[n][p]
    BY StoodAt
  <2> QED
    BY <1>1, <2>1, <2>2, <2>3
<1>3. BlockComment(pieces[n]) /\ Len(pieces[n]) >= 4
  <2>1. Len(pieces[n]) \in Nat /\ Len(pieces[n]) >= 2
    BY <1>2, LiteralIs
  <2>2. Sees(1, "*") <=> pieces[n][p + 1] = "*"
    <3>1. PICK k \in Nat : k = 1
      OBVIOUS
    <3>2. p + k <= Len(pieces[n])
      BY <1>2, <2>1, <3>1
    <3>3. Sees(k, "*") <=> pieces[n][p + k] = "*"
      BY <3>2, StoodSees
    <3> QED
      BY <3>1, <3>3
  <2>3. pieces[n][2] = "*"
    BY <1>1, <1>2, <2>2
  <2> QED
    BY <1>2, <2>3, FormOf DEF BlockComment
<1>4. Rests(Block, pieces[n], 3)
  <2>1. Len(pieces[n]) \in Nat
    BY <1>2, LiteralIs
  <2>2. 3 \in 2..Len(pieces[n]) /\ 3 \in 3..(Len(pieces[n]) - 1)
    BY <1>3, <2>1
  <2> QED
    BY <1>2, <1>3, <2>2 DEF Rests
<1>5. /\ pieces \in Seq(Source) /\ n \in 1..Len(pieces) /\ chars = At(pieces, n - 1) + p
      /\ depth = Net(pieces, n - 1) /\ At(pieces, n - 1) \in Nat
  BY StoodAt
<1>6. chars' = At(pieces, n - 1) + 3
  BY <1>1, <1>2, <1>5
<1>7. Rests(mode', pieces[n], 3) /\ depth' = Net(pieces, n - 1)
  BY <1>1, <1>4, <1>5
<1> QED
  BY <1>1, <1>5, <1>6, <1>7, PieceGoesOn

LEMMA InBlockKept == ASSUME NEW n, NEW p, Stood(n, p), InBlock PROVE ScanInv'
<1> DEFINE l == pieces[n]
<1>1. /\ mode = Block /\ pieces' = pieces /\ depth' = depth
      /\ IF c = "*" /\ Sees(1, "/") THEN mode' = Code /\ chars' = chars + 2 ELSE mode' = mode /\ chars' = chars + 1
  BY DEF InBlock, Consume
<1>2. /\ pieces \in Seq(Source) /\ n \in 1..Len(pieces) /\ p \in Nat /\ chars = At(pieces, n - 1) + p
      /\ depth = Net(pieces, n - 1) /\ At(pieces, n - 1) \in Nat
      /\ l \in Literals /\ Len(l) \in Nat /\ c = l[p] /\ Rests(mode, l, p)
      /\ At(pieces, n) = chars + (Len(l) - p)
  <2>1. mode # Code
    BY <1>1, ModesDiffer
  <2> QED
    BY <2>1, StoodAt, StoodIn
<1> HIDE DEF l
<1>3. BlockComment(l) /\ p \in 3..(Len(l) - 1)
  BY <1>1, <1>2, ModesDiffer DEF Rests
<1>4. Sees(1, "/") <=> l[p + 1] = "/"
  <2>1. PICK k \in Nat : k = 1
    OBVIOUS
  <2>2. p + k <= Len(l)
    BY <1>2, <1>3, <2>1
  <2>3. Sees(k, "/") <=> l[p + k] = "/"
    BY <2>2, StoodSees DEF l
  <2> QED
    BY <2>1, <2>3
<1>5. CASE c = "*" /\ Sees(1, "/")
  <2>1. p = Len(l) - 1
    <3> SUFFICES ASSUME p # Len(l) - 1 PROVE FALSE
      OBVIOUS
    <3>1. p \in 3..(Len(l) - 2)
      BY <1>2, <1>3
    <3> QED
      BY <1>2, <1>3, <1>4, <1>5, <3>1 DEF BlockComment
  <2>2. chars' = At(pieces, n) + 1 /\ mode' = Code
    BY <1>1, <1>2, <1>5, <2>1
  <2>3. depth' = Net(pieces, n)
    BY <1>1, <1>2, NetIs DEF l
  <2> QED
    BY <1>1, <1>2, <2>2, <2>3, PieceEnds
<1>6. CASE ~(c = "*" /\ Sees(1, "/"))
  <2>1. p # Len(l) - 1
    <3> SUFFICES ASSUME p = Len(l) - 1 PROVE FALSE
      OBVIOUS
    <3>1. l[p] = "*" /\ l[p + 1] = "/"
      <4>1. l[Len(l) - 1] = "*" /\ l[Len(l)] = "/" /\ p + 1 = Len(l)
        BY <1>2, <1>3 DEF BlockComment
      <4> QED
        BY <4>1
    <3> QED
      BY <1>2, <1>4, <1>6, <3>1
  <2>2. PICK q \in Nat : q = p + 1
    BY <1>2
  <2>3. q \in 2..Len(l) /\ q \in 3..(Len(l) - 1)
    BY <1>2, <1>3, <2>1, <2>2
  <2>4. Rests(mode', l, q) /\ chars' = At(pieces, n - 1) + q
    BY <1>1, <1>2, <1>3, <1>6, <2>2, <2>3 DEF Rests
  <2> QED
    BY <1>1, <1>2, <2>4, PieceGoesOn DEF l
<1> QED
  BY <1>5, <1>6

LEMMA OpenRawKept == ASSUME NEW n, NEW p, Stood(n, p), OpenRaw PROVE ScanInv'
<1> DEFINE l == pieces[n]
<1>1. /\ mode = Code /\ c = "r" /\ mode' = Raw(Hashes) /\ chars' = chars + (Hashes + 2)
      /\ pieces' = pieces /\ depth' = depth
  BY DEF OpenRaw, StartsRaw, Consume
<1>2. /\ pieces \in Seq(Source) /\ n \in 1..Len(pieces) /\ p = 1 /\ chars = At(pieces, n - 1) + p
      /\ depth = Net(pieces, n - 1) /\ At(pieces, n - 1) \in Nat
      /\ l \in Literals /\ Len(l) \in Nat /\ l[1] = "r"
  <2>1. \A a \in Atoms : a # "r"
    BY ScanAssumption
  <2>2. p = 1 /\ \/ l \in Literals
                  \/ \E a \in Atoms : l = <<a>> /\ Len(l) = 1 /\ l[1] = a
    BY <1>1, StoodIn
  <2>3. /\ pieces \in Seq(Source) /\ n \in 1..Len(pieces) /\ chars = At(pieces, n - 1) + p
        /\ depth = Net(pieces, n - 1) /\ At(pieces, n - 1) \in Nat /\ Len(l) \in Nat /\ c = l[p]
    BY StoodAt
  <2> HIDE DEF l
  <2> QED
    BY <1>1, <2>1, <2>2, <2>3
<1>3. PICK h \in 0..MaxHashes : RawString(h, l)
  BY <1>2, FormOf DEF l
<1>4. h \in Nat /\ Len(l) >= 2 * h + 3 /\ l[h + 2] = "dq" /\ \A k \in 1..h : l[k + 1] = "#"
  BY <1>3, ScanAssumption DEF RawString
<1>5. Hashes = h
  <2>1. p + h <= Len(l)
    BY <1>2, <1>4
  <2>2. \A k \in 1..h : l[p + k] = "#"
    <3> SUFFICES ASSUME NEW k \in 1..h PROVE l[p + k] = "#"
      OBVIOUS
    <3>1. p + k = k + 1
      BY <1>2, <1>4
    <3> QED
      BY <1>4, <3>1
  <2>3. p + (h + 1) = h + 2
    BY <1>2, <1>4
  <2>4. l[p + (h + 1)] # "#"
    BY <1>4, <2>3
  <2>5. Stands(n, p)
    BY DEF Stood
  <2> QED
    BY <1>4, <2>1, <2>2, <2>4, <2>5, HashesAre DEF l
<1> HIDE DEF l
<1>6. PICK q \in Nat : q = h + 3
  BY <1>4
<1>7. q \in 2..Len(l) /\ q \in (h + 3)..(Len(l) - h)
  BY <1>2, <1>4, <1>6
<1>8. Rests(Raw(h), l, q)
  BY <1>2, <1>3, <1>7 DEF Rests
<1>9. chars' = At(pieces, n - 1) + q
  <2>1. chars' = chars + (h + 2)
    BY <1>1, <1>5
  <2>2. chars = At(pieces, n - 1) + 1 /\ At(pieces, n - 1) \in Nat /\ h \in Nat
    BY <1>2, <1>4
  <2> QED
    BY <1>6, <2>1, <2>2
<1>10. Rests(mode', l, q) /\ depth' = Net(pieces, n - 1)
  BY <1>1, <1>2, <1>5, <1>8
<1> QED
  BY <1>1, <1>2, <1>6, <1>9, <1>10, PieceGoesOn DEF l

LEMMA InRawKept == ASSUME NEW n, NEW p, Stood(n, p), InRaw PROVE ScanInv'
<1> DEFINE l == pieces[n]
<1>1. PICK m \in 0..MaxHashes :
        /\ mode = Raw(m)
        /\ IF EndsRaw(m) THEN mode' = Code /\ chars' = chars + (m + 1) ELSE mode' = mode /\ chars' = chars + 1
  BY DEF InRaw, Consume
<1>2. pieces' = pieces /\ depth' = depth
  BY DEF InRaw
<1>3. /\ pieces \in Seq(Source) /\ n \in 1..Len(pieces) /\ p \in Nat /\ chars = At(pieces, n - 1) + p
      /\ depth = Net(pieces, n - 1) /\ At(pieces, n - 1) \in Nat
      /\ l \in Literals /\ Len(l) \in Nat /\ c = l[p] /\ Rests(mode, l, p)
      /\ At(pieces, n) = chars + (Len(l) - p)
  <2>1. mode # Code
    BY <1>1, ModesDiffer
  <2> QED
    BY <2>1, StoodAt, StoodIn
<1>4. m \in Nat
  BY ScanAssumption
<1>5. RawString(m, l) /\ p \in (m + 3)..(Len(l) - m)
  BY <1>1, <1>3, ModesDiffer DEF Rests
<1>6. Stands(n, p)
  BY DEF Stood
<1>7. p + m <= Len(l)
  BY <1>3, <1>4, <1>5
<1>8. EndsRaw(m) <=> p = Len(l) - m
  <2>1. ASSUME EndsRaw(m), p # Len(l) - m PROVE FALSE
    <3>1. p \in m + 3..(Len(l) - m - 1)
      <4>1. p \in Nat /\ Len(l) \in Nat
        BY <1>3
      <4> HIDE DEF l
      <4> QED
        BY <1>4, <1>5, <2>1, <4>1
    <3>2. l[p] = "dq" /\ Hashes = m
      BY <1>3, <2>1 DEF EndsRaw
    <3>3. PICK j \in 1..m : l[p + j] # "#"
      BY <1>5, <3>1, <3>2 DEF RawString
    <3> QED
      BY <1>4, <1>6, <1>7, <3>2, <3>3, HashesFewer DEF l
  <2>2. ASSUME p = Len(l) - m PROVE EndsRaw(m)
    <3>1. l[p] = "dq"
      BY <1>5, <2>2 DEF RawString
    <3>2. \A k \in 1..m : l[p + k] = "#"
      BY <1>5, <2>2 DEF RawString
    <3>3. p + m = Len(l)
      BY <1>3, <1>4, <2>2
    <3>4. Hashes = m
      BY <1>4, <1>6, <1>7, <3>2, <3>3, HashesAre DEF l
    <3> QED
      BY <1>3, <3>1, <3>4 DEF EndsRaw
  <2> QED
    BY <2>1, <2>2
<1> HIDE DEF l
<1>9. CASE EndsRaw(m)
  <2>1. chars' = At(pieces, n) + 1 /\ mode' = Code
    <3>1. mode' = Code /\ chars' = chars + (m + 1) /\ p = Len(l) - m
      BY <1>1, <1>8, <1>9
    <3> QED
      BY <1>3, <1>4, <3>1
  <2>2. depth' = Net(pieces, n)
    BY <1>2, <1>3, NetIs DEF l
  <2> QED
    BY <1>2, <1>3, <2>1, <2>2, PieceEnds
<1>10. CASE ~EndsRaw(m)
  <2>1. PICK q \in Nat : q = p + 1
    BY <1>3
  <2>2. q \in 2..Len(l) /\ q \in (m + 3)..(Len(l) - m)
    <3>1. p \in Nat /\ Len(l) \in Nat /\ p # Len(l) - m
      BY <1>3, <1>8, <1>10
    <3> QED
      BY <1>4, <1>5, <2>1, <3>1
  <2>3. Rests(mode', l, q) /\ chars' = At(pieces, n - 1) + q
    <3>1. mode' = mode /\ chars' = chars + 1
      BY <1>1, <1>10
    <3>2. mode' = Raw(m)
      BY <1>1, <3>1
    <3>3. chars' = At(pieces, n - 1) + q
      <4>1. p \in Nat /\ chars = At(pieces, n - 1) + p /\ At(pieces, n - 1) \in Nat
        BY <1>3
      <4> QED
        BY <2>1, <3>1, <4>1
    <3> QED
      BY <1>3, <1>5, <2>2, <3>2, <3>3 DEF Rests
  <2> QED
    BY <1>2, <1>3, <2>3, PieceGoesOn DEF l
<1> QED
  BY <1>9, <1>10

LEMMA LineCommentKept == ASSUME NEW n, NEW p, Stood(n, p), LineComment PROVE ScanInv'
<1> DEFINE l == pieces[n]
<1>1. /\ mode = Code /\ c = "/" /\ Sees(1, "/") /\ chars' = EndOfLine + 1
      /\ pieces' = pieces /\ depth' = depth /\ mode' = mode
  BY DEF LineComment
<1>2. /\ pieces \in Seq(Source) /\ n \in 1..Len(pieces) /\ p = 1 /\ chars \in Nat
      /\ depth = Net(pieces, n - 1) /\ Len(Output) \in Nat /\ At(pieces, n) <= Len(Output)
      /\ l \in Literals /\ Len(l) \in Nat /\ l[1] = "/" /\ At(pieces, n) \in Nat
      /\ At(pieces, n) = chars + (Len(l) - p)
  <2>1. \A a \in Atoms : a # "/"
    BY ScanAssumption
  <2>2. p = 1 /\ \/ l \in Literals
                  \/ \E a \in Atoms : l = <<a>> /\ Len(l) = 1 /\ l[1] = a
    BY <1>1, StoodIn
  <2>3. /\ pieces \in Seq(Source) /\ n \in 1..Len(pieces) /\ chars \in Nat
        /\ depth = Net(pieces, n - 1) /\ Len(Output) \in Nat /\ At(pieces, n) <= Len(Output)
        /\ Len(l) \in Nat /\ c = l[p] /\ At(pieces, n) \in Nat
        /\ At(pieces, n) = chars + (Len(l) - p)
    BY StoodAt
  <2> HIDE DEF l
  <2> QED
    BY <1>1, <2>1, <2>2, <2>3
<1>3. \A k \in Nat : p + k <= Len(l) => /\ Output[chars + k] = l[p + k]
                                        /\ \A x : Sees(k, x) <=> l[p + k] = x
  BY StoodSees
<1>4. Comment(l)
  <2>1. Len(l) >= 2
    BY <1>2, LiteralIs
  <2>2. Sees(1, "/") <=> l[p + 1] = "/"
    BY <1>2, <1>3, <2>1
  <2>3. l[2] = "/"
    BY <1>1, <1>2, <2>2
  <2> QED
    BY <1>2, <2>3, FormOf DEF l
<1> HIDE DEF l
<1>5. ASSUME NEW k \in chars..At(pieces, n) PROVE Output[k] = "nl" <=> k = At(pieces, n)
  <2>1. PICK j \in Nat : j = k - chars
    BY <1>2
  <2>2. k = chars + j /\ p + j \in 1..Len(l) /\ (k = At(pieces, n) <=> p + j = Len(l))
    BY <1>2, <2>1
  <2>3. Output[chars + j] = l[p + j]
    BY <1>3, <2>1, <2>2
  <2>4. l[p + j] = "nl" <=> p + j = Len(l)
    <3>1. p + j # Len(l) => p + j \in 1..(Len(l) - 1)
      BY <1>2, <2>1, <2>2
    <3> QED
      BY <1>4, <3>1 DEF Comment
  <2> QED
    BY <2>2, <2>3, <2>4
<1>6. EndOfLine = At(pieces, n)
  <2> DEFINE IsEnd(j) == /\ j = Len(Output) + 1 \/ Output[j] = "nl"
                         /\ \A k \in chars..(j - 1) : Output[k] # "nl"
  <2>1. chars <= At(pieces, n) /\ At(pieces, n) \in chars..Len(Output) + 1
    <3>1. Len(l) - p >= 0 /\ Len(l) - p \in Int
      BY <1>2, LiteralIs DEF l
    <3> QED
      BY <1>2, <3>1
  <2>2. IsEnd(At(pieces, n))
    <3>1. Output[At(pieces, n)] = "nl"
      <4>1. At(pieces, n) \in chars..At(pieces, n)
        BY <2>1
      <4> QED
        BY <1>5, <4>1
    <3>2. ASSUME NEW k \in chars..(At(pieces, n) - 1) PROVE Output[k] # "nl"
      <4>1. k \in chars..At(pieces, n) /\ k # At(pieces, n)
        BY <1>2, <2>1
      <4> QED
        BY <1>5, <4>1
    <3> QED
      BY <3>1, <3>2
  <2>3. ASSUME NEW j \in chars..Len(Output) + 1, IsEnd(j) PROVE j = At(pieces, n)
    <3>1. ~(j < At(pieces, n))
      <4> SUFFICES ASSUME j < At(pieces, n) PROVE FALSE
        OBVIOUS
      <4>1. j \in chars..At(pieces, n) /\ j # Len(Output) + 1 /\ j # At(pieces, n)
        BY <1>2
      <4> QED
        BY <1>5, <2>3, <4>1
    <3>2. ~(At(pieces, n) < j)
      <4> SUFFICES ASSUME At(pieces, n) < j PROVE FALSE
        OBVIOUS
      <4>1. At(pieces, n) \in chars..(j - 1) /\ At(pieces, n) \in chars..At(pieces, n)
        BY <1>2, <2>1
      <4> QED
        BY <1>5, <2>3, <4>1
    <3> QED
      BY <1>2, <3>1, <3>2
  <2>4. EndOfLine = CHOOSE j \in chars..Len(Output) + 1 : IsEnd(j)
    BY DEF EndOfLine
  <2> HIDE DEF IsEnd
  <2> QED
    BY <2>1, <2>2, <2>3, <2>4
<1>7. depth' = Net(pieces, n)
  BY <1>1, <1>2, NetIs DEF l
<1> QED
  BY <1>1, <1>2, <1>6, <1>7, PieceEnds

\* In a quoted literal: the character after an escape is one of it, and its quote ends it.
LEMMA QuotedStep ==
  ASSUME NEW q \in {"dq", "sq"}, NEW l \in Literals, QuotedLiteral(q, l),
         NEW starts, Starts(q, l, starts), NEW p \in starts
  PROVE  /\ l[p] = q <=> p = Len(l)
         /\ l[p] = "bs" => p + 2 \in starts /\ p + 2 \in 2..Len(l)
         /\ l[p] # q /\ l[p] # "bs" => p + 1 \in starts /\ p + 1 \in 2..Len(l)
<1>1. l[Len(l)] = q
  BY DEF QuotedLiteral
<1>2. starts \subseteq 2..Len(l)
  BY DEF Starts
<1>3. p # Len(l) => l[p] # q /\ (IF l[p] = "bs" THEN p + 2 ELSE p + 1) \in starts
  BY DEF Starts
<1> QED
  BY <1>1, <1>2, <1>3

LEMMA EscapeKept == ASSUME NEW n, NEW p, Stood(n, p), Escape PROVE ScanInv'
<1> DEFINE l == pieces[n]
<1>1. /\ mode \in {Double, Single} /\ c = "bs" /\ chars' = chars + 2
      /\ pieces' = pieces /\ depth' = depth /\ mode' = mode
  BY DEF Escape, Consume
<1>2. /\ pieces \in Seq(Source) /\ n \in 1..Len(pieces) /\ p \in Nat /\ chars = At(pieces, n - 1) + p
      /\ depth = Net(pieces, n - 1) /\ At(pieces, n - 1) \in Nat
      /\ l \in Literals /\ Len(l) \in Nat /\ c = l[p] /\ Rests(mode, l, p)
  <2>1. mode # Code
    BY <1>1, ModesDiffer
  <2> QED
    BY <2>1, StoodAt, StoodIn
<1> HIDE DEF l
<1>3. PICK q \in Nat : q = p + 2
  BY <1>2
<1>4. Rests(mode, l, q)
  <2>1. CASE mode = Double
    <3>1. PICK starts : QuotedLiteral("dq", l) /\ Starts("dq", l, starts) /\ p \in starts
      BY <1>2, <2>1, ModesDiffer DEF Rests
    <3>2. p + 2 \in starts /\ p + 2 \in 2..Len(l)
      BY <1>1, <1>2, <3>1, QuotedStep
    <3> QED
      BY <1>2, <1>3, <2>1, <3>1, <3>2 DEF Rests
  <2>2. CASE mode = Single
    <3>1. PICK starts : QuotedLiteral("sq", l) /\ Starts("sq", l, starts) /\ p \in starts
      BY <1>2, <2>2, ModesDiffer DEF Rests
    <3>2. p + 2 \in starts /\ p + 2 \in 2..Len(l)
      BY <1>1, <1>2, <3>1, QuotedStep
    <3> QED
      BY <1>2, <1>3, <2>2, <3>1, <3>2 DEF Rests
  <2> QED
    BY <1>1, <2>1, <2>2
<1>5. chars' = At(pieces, n - 1) + q
  BY <1>1, <1>2, <1>3
<1> QED
  BY <1>1, <1>2, <1>4, <1>5, PieceGoesOn DEF l

\* A character of code is a piece of its own, or the quote that opens a literal.
LEMMA CodeCharacterKept == ASSUME NEW n, NEW p, Stood(n, p), Character, mode = Code PROVE ScanInv'
<1> DEFINE l == pieces[n]
<1>1. /\ ~(c = "/" /\ (Sees(1, "*") \/ Sees(1, "/"))) /\ ~StartsRaw
      /\ mode' = CASE c = "dq" -> Double [] c = "sq" -> Single [] OTHER -> Code
      /\ depth' = depth + Weight(c)
      /\ chars' = chars + 1 /\ pieces' = pieces
  <2>1. ~StartsRaw /\ ~(c = "/" /\ (Sees(1, "*") \/ Sees(1, "/"))) /\ chars' = chars + 1 /\ pieces' = pieces
    BY DEF Character, Consume
  <2>2. mode' = CASE c = "dq" -> Double [] c = "sq" -> Single [] OTHER -> Code
    <3>1. mode # Single /\ mode # Double
      BY ModesDiffer
    <3>2. mode' = CASE c = "dq" /\ mode # Single -> Toggled(Double)
                    [] c = "sq" /\ mode # Double -> Toggled(Single)
                    [] OTHER -> mode
      BY DEF Character
    <3>3. Toggled(Double) = Double /\ Toggled(Single) = Single
      BY <3>1 DEF Toggled
    <3> HIDE DEF c
    <3> QED
      BY <3>1, <3>2, <3>3
  <2>3. depth' = depth + Weight(c)
    <3>1. depth' = CASE c \in Opening -> depth + 1 [] c \in Closing -> depth - 1 [] OTHER -> depth
      BY DEF Character
    <3>2. depth \in Int
      BY StoodAt, NetIs
    <3>3. ~(c \in Opening /\ c \in Closing)
      BY DEF Opening, Closing
    <3> HIDE DEF c, Opening, Closing
    <3> QED
      BY <3>1, <3>2, <3>3 DEF Weight
  <2> QED
    BY <2>1, <2>2, <2>3
<1>2. /\ pieces \in Seq(Source) /\ n \in 1..Len(pieces) /\ p = 1 /\ chars \in Nat
      /\ chars = At(pieces, n - 1) + p /\ At(pieces, n - 1) \in Nat
      /\ depth = Net(pieces, n - 1) /\ Len(l) \in Nat /\ c = l[1]
      /\ At(pieces, n) = chars + (Len(l) - p)
      /\ \/ l \in Literals
         \/ \E a \in Atoms : l = <<a>> /\ Len(l) = 1 /\ l[1] = a
  <2>1. p = 1 /\ \/ l \in Literals
                  \/ \E a \in Atoms : l = <<a>> /\ Len(l) = 1 /\ l[1] = a
    BY StoodIn
  <2>2. /\ pieces \in Seq(Source) /\ n \in 1..Len(pieces) /\ chars \in Nat
        /\ chars = At(pieces, n - 1) + p /\ At(pieces, n - 1) \in Nat
        /\ depth = Net(pieces, n - 1) /\ Len(l) \in Nat /\ c = l[p]
        /\ At(pieces, n) = chars + (Len(l) - p)
    BY StoodAt
  <2> HIDE DEF l
  <2> QED
    BY <2>1, <2>2
<1>3. /\ \A a \in Atoms : l = <<a>> => Net(pieces, n) = Net(pieces, n - 1) + Weight(a)
      /\ Net(pieces, n - 1) \in Int
      /\ l \in Literals => Net(pieces, n) = Net(pieces, n - 1)
  BY <1>2, NetIs
<1> HIDE DEF l
<1>4. CASE \E a \in Atoms : l = <<a>> /\ Len(l) = 1 /\ l[1] = a
  <2>1. PICK a \in Atoms : l = <<a>> /\ Len(l) = 1 /\ c = a
    BY <1>2, <1>4
  <2>2. a # "dq" /\ a # "sq"
    BY ScanAssumption
  <2>3. mode' = Code /\ depth' = Net(pieces, n)
    BY <1>1, <1>2, <1>3, <2>1, <2>2
  <2>4. chars' = At(pieces, n) + 1
    BY <1>1, <1>2, <2>1
  <2> QED
    BY <1>1, <1>2, <2>3, <2>4, PieceEnds
<1>5. CASE l \in Literals
  <2>1. Len(l) >= 2 /\ l[1] \in {"dq", "sq", "/", "r"}
    BY <1>5, LiteralIs
  <2>2. l[1] # "/"
    <3> SUFFICES ASSUME l[1] = "/" PROVE FALSE
      OBVIOUS
    <3>1. l[2] = "*" \/ l[2] = "/"
      BY <1>5, FormOf
    <3>2. \A x : Sees(1, x) <=> l[2] = x
      <4>1. PICK k \in Nat : k = 1
        OBVIOUS
      <4>2. p + k = 2 /\ p + k <= Len(l)
        BY <1>2, <2>1, <4>1
      <4>3. \A x : Sees(k, x) <=> l[p + k] = x
        BY <4>2, StoodSees DEF l
      <4> QED
        BY <4>1, <4>2, <4>3
    <3> QED
      BY <1>1, <1>2, <3>1, <3>2
  <2>3. l[1] # "r"
    <3> SUFFICES ASSUME l[1] = "r" PROVE FALSE
      OBVIOUS
    <3>1. PICK h \in 0..MaxHashes : RawString(h, l)
      BY <1>5, FormOf
    <3>2. h \in Nat /\ Len(l) >= 2 * h + 3 /\ l[h + 2] = "dq" /\ \A k \in 1..h : l[k + 1] = "#"
      BY <3>1, ScanAssumption DEF RawString
    <3>3. Hashes = h
      <4>1. p + h <= Len(l)
        <5>1. p = 1 /\ Len(l) \in Nat
          BY <1>2
        <5>2. h \in Nat /\ Len(l) >= 2 * h + 3
          BY <3>2
        <5> QED
          BY <5>1, <5>2
      <4>2. \A k \in 1..h : l[p + k] = "#"
        <5> SUFFICES ASSUME NEW k \in 1..h PROVE l[p + k] = "#"
          OBVIOUS
        <5>1. p + k = k + 1
          BY <1>2, <3>2
        <5> QED
          BY <3>2, <5>1
      <4>3. p + (h + 1) = h + 2
        BY <1>2, <3>2
      <4>4. l[p + (h + 1)] # "#"
        BY <3>2, <4>3
      <4>5. Stands(n, p)
        BY DEF Stood
      <4>6. /\ h \in Nat /\ p + h <= Len(pieces[n]) /\ \A k \in 1..h : pieces[n][p + k] = "#"
            /\ pieces[n][p + (h + 1)] # "#"
        BY <3>2, <4>1, <4>2, <4>4 DEF l
      <4> QED
        BY <4>5, <4>6, HashesAre
    <3>4. Sees(h + 1, "dq")
      <4>1. PICK k \in Nat : k = h + 1
        BY <3>2
      <4>2. p + k <= Len(l) /\ p + k = h + 2
        <5>1. p = 1 /\ Len(l) \in Nat
          BY <1>2
        <5>2. h \in Nat /\ Len(l) >= 2 * h + 3
          BY <3>2
        <5> QED
          BY <4>1, <5>1, <5>2
      <4>3. Sees(k, "dq") <=> l[p + k] = "dq"
        BY <4>2, StoodSees DEF l
      <4> QED
        BY <3>2, <4>1, <4>2, <4>3
    <3> QED
      BY <1>1, <1>2, <3>3, <3>4 DEF StartsRaw
  <2>4. 2 \in 2..Len(l) /\ 2 \in Nat
    BY <1>2, <2>1
  <2>5. Rests(mode', l, 2)
    <3>1. CASE l[1] = "dq"
      <4>1. QuotedLiteral("dq", l) /\ mode' = Double
        BY <1>1, <1>2, <1>5, <3>1, FormOf
      <4>2. PICK starts : Starts("dq", l, starts) /\ 2 \in starts
        BY <4>1 DEF QuotedLiteral, Starts
      <4> QED
        BY <1>5, <2>4, <4>1, <4>2 DEF Rests
    <3>2. CASE l[1] = "sq"
      <4>1. QuotedLiteral("sq", l) /\ mode' = Single
        BY <1>1, <1>2, <1>5, <3>2, FormOf
      <4>2. PICK starts : Starts("sq", l, starts) /\ 2 \in starts
        BY <4>1 DEF QuotedLiteral, Starts
      <4> QED
        BY <1>5, <2>4, <4>1, <4>2 DEF Rests
    <3> QED
      BY <2>1, <2>2, <2>3, <3>1, <3>2
  <2>6. chars' = At(pieces, n - 1) + 2
    BY <1>1, <1>2
  <2>7. depth' = Net(pieces, n - 1)
    <3>1. Weight(c) = 0
      BY <1>2, <2>1 DEF Weight, Opening, Closing
    <3> QED
      BY <1>1, <1>2, <1>3, <3>1
  <2> QED
    BY <1>1, <1>2, <2>4, <2>5, <2>6, <2>7, PieceGoesOn DEF l
<1> QED
  BY <1>2, <1>4, <1>5

\* A character of a quoted literal goes on, or is the quote that ends it.
LEMMA QuotedCharacterKept ==
  ASSUME NEW n, NEW p, Stood(n, p), Character, mode \in {Double, Single} PROVE ScanInv'
<1> DEFINE l == pieces[n]
<1>1. mode # Code
  BY ModesDiffer
<1>2. /\ pieces \in Seq(Source) /\ n \in 1..Len(pieces) /\ p \in Nat /\ chars = At(pieces, n - 1) + p
      /\ depth = Net(pieces, n - 1) /\ At(pieces, n - 1) \in Nat
      /\ l \in Literals /\ Len(l) \in Nat /\ c = l[p] /\ Rests(mode, l, p)
      /\ At(pieces, n) = chars + (Len(l) - p)
  BY <1>1, StoodAt, StoodIn
<1>3. Net(pieces, n) = Net(pieces, n - 1)
  BY <1>2, NetIs
<1> HIDE DEF l
<1>4. /\ c # "bs" /\ chars' = chars + 1 /\ pieces' = pieces /\ depth' = depth
      /\ mode = Double => mode' = IF c = "dq" THEN Code ELSE mode
      /\ mode = Single => mode' = IF c = "sq" THEN Code ELSE mode
  <2>1. c # "bs" /\ chars' = chars + 1 /\ pieces' = pieces /\ depth' = depth
    BY <1>1 DEF Character, Consume
  <2>2. mode' = CASE c = "dq" /\ mode # Single -> Toggled(Double)
                  [] c = "sq" /\ mode # Double -> Toggled(Single)
                  [] OTHER -> mode
    BY DEF Character
  <2> HIDE DEF c
  <2> QED
    BY <2>1, <2>2, ModesDiffer DEF Toggled
<1>5. PICK q \in {"dq", "sq"} :
        /\ QuotedLiteral(q, l) /\ \E starts : Starts(q, l, starts) /\ p \in starts
        /\ mode' = IF c = q THEN Code ELSE mode
        /\ mode = IF q = "dq" THEN Double ELSE Single
  <2>1. CASE mode = Double
    <3>1. QuotedLiteral("dq", l) /\ \E starts : Starts("dq", l, starts) /\ p \in starts
      BY <1>2, <2>1, ModesDiffer DEF Rests
    <3> QED
      BY <1>4, <2>1, <3>1
  <2>2. CASE mode = Single
    <3>1. QuotedLiteral("sq", l) /\ \E starts : Starts("sq", l, starts) /\ p \in starts
      BY <1>2, <2>2, ModesDiffer DEF Rests
    <3> QED
      BY <1>4, <2>2, <3>1
  <2> QED
    BY <2>1, <2>2
<1>6. PICK starts : Starts(q, l, starts) /\ p \in starts
  BY <1>5
<1>7. /\ c = q <=> p = Len(l)
      /\ c # q => p + 1 \in starts /\ p + 1 \in 2..Len(l)
  <2>1. /\ l[p] = q <=> p = Len(l)
        /\ l[p] # q /\ l[p] # "bs" => p + 1 \in starts /\ p + 1 \in 2..Len(l)
    <3>1. l \in Literals /\ QuotedLiteral(q, l)
      BY <1>2, <1>5
    <3> QED
      BY <1>6, <3>1, QuotedStep
  <2>2. c = l[p] /\ c # "bs"
    BY <1>2, <1>4
  <2> HIDE DEF c
  <2> QED
    BY <2>1, <2>2
<1>8. CASE c = q
  <2>1. chars' = At(pieces, n) + 1 /\ mode' = Code
    <3>1. mode' = Code /\ p = Len(l)
      BY <1>5, <1>7, <1>8
    <3>2. chars' = chars + 1 /\ At(pieces, n) = chars + (Len(l) - p) /\ chars \in Nat /\ p \in Nat
      BY <1>2, <1>4, StoodAt
    <3> QED
      BY <3>1, <3>2
  <2> QED
    BY <1>2, <1>3, <1>4, <2>1, PieceEnds
<1>9. CASE c # q
  <2>1. PICK r \in Nat : r = p + 1
    BY <1>2
  <2>2. Rests(mode', l, r)
    BY <1>2, <1>5, <1>6, <1>7, <1>9, <2>1 DEF Rests
  <2>3. chars' = At(pieces, n - 1) + r
    BY <1>2, <1>4, <2>1
  <2> QED
    BY <1>2, <1>4, <2>2, <2>3, PieceGoesOn DEF l
<1> QED
  BY <1>8, <1>9

LEMMA ScanInitInv == ScanInit => ScanInv
<1> SUFFICES ASSUME ScanInit PROVE ScanInv
  OBVIOUS
<1>1. PICK n \in 0..MaxPieces : pieces \in [1..n -> Source]
  BY DEF ScanInit
<1>2. pieces \in Seq(Source) /\ Len(pieces) \in Nat
  BY <1>1, FcnIsSeq, ScanAssumption
<1>3. Net(pieces, 0) = 0
  <2>1. Marked(pieces, Opening, 0) = {} /\ Marked(pieces, Closing, 0) = {}
    BY DEF Marked
  <2> QED
    BY <2>1, FS_EmptySet DEF Net
<1>4. Between(0)
  BY <1>2, <1>3, OutputIs DEF ScanInit, Between
<1> QED
  BY <1>2, <1>4 DEF ScanInv

LEMMA ScanKept == ASSUME ScanInv, ScanNext PROVE ScanInv'
<1>1. More
  BY DEF ScanNext, OpenBlock, InBlock, OpenRaw, InRaw, LineComment, Escape, Character
<1>2. PICK n, p : Stood(n, p)
  BY <1>1, InvStood
<1>3. Character => mode = Code \/ mode \in {Double, Single}
  BY DEF Character
<1> QED
  BY <1>2, <1>3, OpenBlockKept, InBlockKept, OpenRawKept, InRawKept, LineCommentKept, EscapeKept,
     CodeCharacterKept, QuotedCharacterKept DEF ScanNext

\* At the end of the output the scan stands after its last piece.
LEMMA ScanEnds == ASSUME ScanInv, ~More PROVE depth = Balance /\ mode = Code
<1>1. pieces \in Seq(Source)
  BY DEF ScanInv
<1>2. /\ Len(pieces) \in Nat /\ Len(Output) \in Nat /\ At(pieces, Len(pieces)) = Len(Output)
      /\ \A n \in 0..Len(pieces) : At(pieces, n) \in Nat /\ At(pieces, n) <= Len(Output)
      /\ \A n \in 1..Len(pieces) : At(pieces, n) = At(pieces, n - 1) + Len(pieces[n]) /\ pieces[n] \in Source
  BY <1>1, OutputIs
<1>3. Net(pieces, Len(pieces)) = Balance
  <2>1. DOMAIN pieces = 1..Len(pieces)
    BY <1>1, LenProperties
  <2> QED
    BY <2>1 DEF Net, Marked, Balance, Pieces
<1>4. CASE \E n \in 0..Len(pieces) : Between(n)
  <2>1. PICK n \in 0..Len(pieces) : Between(n)
    BY <1>4
  <2>2. CASE n = Len(pieces)
    BY <1>3, <2>1, <2>2 DEF Between
  <2>3. CASE n # Len(pieces)
    <3>1. PICK m \in 1..Len(pieces) : m - 1 = n
      <4>1. n + 1 \in 1..Len(pieces) /\ (n + 1) - 1 = n
        BY <1>2, <2>3
      <4> QED
        BY <4>1
    <3>2. At(pieces, m) = At(pieces, n) + Len(pieces[m]) /\ Len(pieces[m]) \in Nat /\ Len(pieces[m]) >= 1
      BY <1>2, <3>1, PieceIs
    <3>3. At(pieces, m) <= Len(Output) /\ At(pieces, m) \in Nat /\ At(pieces, n) \in Nat
      BY <1>2, <3>1
    <3>4. chars = At(pieces, n) + 1
      BY <2>1 DEF Between
    <3> QED
      BY <1>2, <3>2, <3>3, <3>4 DEF More
  <2> QED
    BY <2>2, <2>3
<1>5. CASE \E n \in 1..Len(pieces), p \in Nat : Within(n, p)
  <2>1. PICK n \in 1..Len(pieces), p \in Nat : Within(n, p)
    BY <1>5
  <2>2. chars = At(pieces, n - 1) + p /\ p \in 2..Len(pieces[n])
    BY <2>1 DEF Within, Rests
  <2>3. PICK m \in 0..Len(pieces) : m = n - 1
    BY <1>2
  <2>4. /\ At(pieces, m) \in Nat /\ At(pieces, n) = At(pieces, m) + Len(pieces[n])
        /\ At(pieces, n) <= Len(Output) /\ Len(pieces[n]) \in Nat
    BY <1>2, <2>3, PieceIs
  <2>5. chars <= Len(Output)
    <3>1. chars = At(pieces, m) + p /\ p \in Nat /\ p <= Len(pieces[n])
      BY <2>2, <2>3, <2>4
    <3>2. Len(Output) \in Nat /\ At(pieces, m) \in Nat /\ At(pieces, m) + Len(pieces[n]) <= Len(Output)
      BY <1>2, <2>4
    <3> QED
      BY <2>4, <3>1, <3>2
  <2> QED
    BY <2>5 DEF More
<1> QED
  BY <1>4, <1>5 DEF ScanInv

\* What a verdict says of an output that is scanned to its end.
Says(route, facts, pass, tier, score) ==
  /\ verdict = [route |-> route, facts |-> facts, pass |-> pass, tier |-> tier, score |-> score]
  /\ pass \in BOOLEAN /\ tier \in {"static", "tests"}
  /\ pass \/ tier = "tests" => Issues(route, facts) = {}
  /\ Issues(route, facts) = {} /\ tier = "static" => pass
VerdictInv ==
  verdict # <<>> =>
    /\ ~More
    /\ \E route, facts, pass, tier, score : Says(route, facts, pass, tier, score)

VerifyInv == ScanInv /\ VerdictInv

LEMMA VerifyKept == ASSUME VerifyInv, [VerifyNext]_verifyVars PROVE VerifyInv'
<1>1. ScanInv /\ VerdictInv
  BY DEF VerifyInv
<1>2. UNCHANGED scanVars => /\ pieces' = pieces /\ chars' = chars /\ depth' = depth /\ mode' = mode
                            /\ More' = More /\ ScanInv'
                            /\ \A route, facts : Issues(route, facts)' = Issues(route, facts)
  <2> SUFFICES ASSUME UNCHANGED scanVars
               PROVE  /\ pieces' = pieces /\ chars' = chars /\ depth' = depth /\ mode' = mode
                      /\ More' = More /\ ScanInv'
                      /\ \A route, facts : Issues(route, facts)' = Issues(route, facts)
    OBVIOUS
  <2>1. pieces' = pieces /\ chars' = chars /\ depth' = depth /\ mode' = mode
    BY DEF scanVars
  <2>2. More' = More
    BY <2>1 DEF More, Output
  <2>3. ScanInv'
    BY <1>1, <2>1 DEF ScanInv, Between, Within
  <2>4. \A route, facts : Issues(route, facts)' = Issues(route, facts)
    BY <2>1 DEF Issues, Truncated
  <2> QED
    BY <2>1, <2>2, <2>3, <2>4
<1>3. CASE Scan
  <2>1. More
    BY <1>3 DEF Scan, ScanNext, OpenBlock, InBlock, OpenRaw, InRaw, LineComment, Escape, Character
  <2>2. verdict = <<>>
    BY <1>1, <2>1 DEF VerdictInv
  <2>3. ScanInv' /\ verdict' = <<>>
    BY <1>1, <1>3, <2>2, ScanKept DEF Scan
  <2> QED
    BY <2>3 DEF VerifyInv, VerdictInv
<1>4. CASE StaticCheck
  <2>1. ~More /\ UNCHANGED scanVars
    BY <1>4 DEF StaticCheck
  <2>2. PICK route \in CheckedRoutes, facts \in Facts :
          verdict' = [route |-> route, facts |-> facts, pass |-> Issues(route, facts) = {}, tier |-> "static",
                      score |-> IF Issues(route, facts) = {} THEN 100 ELSE 0]
    BY <1>4 DEF StaticCheck
  <2>3. PICK pass \in BOOLEAN : pass = (Issues(route, facts) = {})
    OBVIOUS
  <2>4. PICK score : score = IF Issues(route, facts) = {} THEN 100 ELSE 0
    OBVIOUS
  <2>5. verdict' = [route |-> route, facts |-> facts, pass |-> pass, tier |-> "static", score |-> score]
    BY <2>2, <2>3, <2>4
  <2>6. Issues(route, facts)' = Issues(route, facts)
    BY <1>2, <2>1
  <2>7. ~More' /\ ScanInv'
    BY <1>2, <2>1
  <2>8. VerdictInv'
    <3>1. Says(route, facts, pass, "static", score)'
      BY <2>3, <2>5, <2>6 DEF Says
    <3> QED
      BY <2>7, <3>1 DEF VerdictInv
  <2> QED
    BY <2>7, <2>8 DEF VerifyInv
<1>5. CASE CommandPasses \/ CommandFails
  <2>1. TestsDue /\ UNCHANGED scanVars
    BY <1>5 DEF CommandPasses, CommandFails
  <2>2. verdict # <<>> /\ verdict.pass /\ verdict.tier = "static"
    BY <2>1 DEF TestsDue
  <2>3. ~More
    BY <1>1, <2>2 DEF VerdictInv
  <2>4. PICK route, facts, pass, tier, score : Says(route, facts, pass, tier, score)
    BY <1>1, <2>2 DEF VerdictInv
  <2>5. Issues(route, facts) = {} /\ pass \in BOOLEAN
        /\ verdict = [route |-> route, facts |-> facts, pass |-> pass, tier |-> tier, score |-> score]
    BY <2>2, <2>4 DEF Says
  <2>6. PICK scored, passed :
          passed \in BOOLEAN /\ verdict' = [route |-> route, facts |-> facts, pass |-> passed, tier |-> "tests", score |-> scored]
    <3>1. CASE CommandPasses
      <4>1. PICK given \in Scores \union {100} :
              verdict' = [verdict EXCEPT !.tier = "tests", !.score = Clamped(given)]
        BY <3>1 DEF CommandPasses
      <4>2. verdict' = [route |-> route, facts |-> facts, pass |-> pass, tier |-> "tests",
                        score |-> Clamped(given)]
        BY <2>5, <4>1
      <4> QED
        BY <2>5, <4>2
    <3>2. CASE CommandFails
      <4>1. verdict' = [verdict EXCEPT !.tier = "tests", !.pass = FALSE, !.score = 0]
        BY <3>2 DEF CommandFails
      <4>2. verdict' = [route |-> route, facts |-> facts, pass |-> FALSE, tier |-> "tests", score |-> 0]
        BY <2>5, <4>1
      <4> QED
        BY <4>2
    <3> QED
      BY <1>5, <3>1, <3>2
  <2>7. Issues(route, facts)' = {} /\ ~More' /\ ScanInv'
    BY <1>2, <2>1, <2>3, <2>5
  <2>8. VerdictInv'
    <3>1. Says(route, facts, passed, "tests", scored)'
      BY <2>6, <2>7 DEF Says
    <3> QED
      BY <2>7, <3>1 DEF VerdictInv
  <2> QED
    BY <2>7, <2>8 DEF VerifyInv
<1>6. CASE UNCHANGED verifyVars
  <2>1. UNCHANGED scanVars /\ verdict' = verdict
    BY <1>6 DEF verifyVars
  <2>2. VerdictInv'
    BY <1>1, <1>2, <2>1 DEF VerdictInv, Says
  <2> QED
    BY <1>2, <2>1, <2>2 DEF VerifyInv
<1> QED
  BY <1>3, <1>4, <1>5, <1>6 DEF VerifyNext

\* For every output made of code, whole literals and whole comments, the scan counts the brackets of the
\* code and no other, and the verdict turns an output down as truncated for those alone
\* (verify.rs:35-186, 234-320).
THEOREM CodeCounted == VerifySpec => []CountsCodeOnly
<1>1. VerifyInit => VerifyInv
  BY ScanInitInv DEF VerifyInit, VerifyInv, VerdictInv
<1>2. VerifyInv /\ [VerifyNext]_verifyVars => VerifyInv'
  BY VerifyKept
<1>3. VerifyInv => CountsCodeOnly
  <2> SUFFICES ASSUME VerifyInv PROVE CountsCodeOnly
    OBVIOUS
  <2>1. ~More => depth = Balance /\ mode = Code
    BY ScanEnds DEF VerifyInv
  <2>2. ASSUME verdict # <<>>
        PROVE  /\ verdict.pass /\ "code" \in verdict.facts => Balance = 0
               /\ verdict.tier = "static" /\ ~verdict.pass
                    /\ Issues(verdict.route, verdict.facts) \subseteq {"braces"} => Balance # 0
               /\ verdict.tier = "tests" => Issues(verdict.route, verdict.facts) = {}
    <3>1. ~More
      BY <2>2 DEF VerifyInv, VerdictInv
    <3>2. PICK route, facts, pass, tier, score : Says(route, facts, pass, tier, score)
      BY <2>2 DEF VerifyInv, VerdictInv
    <3>3. /\ verdict.pass = pass /\ verdict.facts = facts /\ verdict.tier = tier /\ verdict.route = route
      BY <3>2 DEF Says
    <3>4. "braces" \in Issues(route, facts) <=> Balance # 0 /\ "code" \in facts
      BY <2>1, <3>1 DEF Issues, Truncated
    <3> QED
      BY <3>2, <3>3, <3>4 DEF Says
  <2> QED
    BY <2>1, <2>2 DEF CountsCodeOnly
<1> QED
  BY <1>1, <1>2, <1>3, PTL DEF VerifySpec
=============================================================================
