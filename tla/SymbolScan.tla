----------------------------- MODULE SymbolScan -----------------------------
(***************************************************************************)
(* extract_symbols (src/src/contextidx.rs): a file is cut into symbols, by *)
(* braces or, for Python, by indentation.  A brace block is skipped once   *)
(* it is taken; Python's declarations each make a symbol of their own,     *)
(* nested ones too.  No block is followed beyond Window lines.             *)
(*                                                                         *)
(* A line is what the two scans see of it: whether it declares something,  *)
(* its braces and its indentation.                                         *)
(***************************************************************************)
EXTENDS Integers, Sequences, SequencesExt

CONSTANTS
  BraceLines,  \* [declares, braces]
  IndentLines, \* [declares, blank, indent]
  MaxLines,
  Window,    \* 400
  Lookahead  \* 3: a declaration that opens no brace by then is a line of its own

ASSUME SymbolAssumption ==
  /\ MaxLines \in Nat /\ Window \in Nat \ {0} /\ Lookahead \in Nat
  /\ IndentLines \subseteq [declares : BOOLEAN, blank : BOOLEAN, indent : Nat]
  /\ \A line \in IndentLines : line.declares => ~line.blank

VARIABLES
  lang,   \* "brace" or "python"
  lines,
  at,     \* the line the scan is at, from 1
  blocks  \* the symbols: first and last line

symbolVars == <<lang, lines, at, blocks>>

SymbolInit ==
  /\ \/ lang = "brace" /\ lines \in UNION {[1..n -> BraceLines] : n \in 1..MaxLines}
     \/ lang = "python" /\ lines \in UNION {[1..n -> IndentLines] : n \in 1..MaxLines}
  /\ at = 1 /\ blocks = <<>>

LowerOf(x, y) == IF x <= y THEN x ELSE y

-----------------------------------------------------------------------------
(* brace_block_end. *)

\* Depth and whether a brace has been opened, brace by brace.
Brace(scan, char) ==
  IF scan.closed THEN scan
  ELSE IF char = "{" THEN [scan EXCEPT !.depth = @ + 1, !.opened = TRUE]
  ELSE [scan EXCEPT !.depth = @ - 1, !.closed = scan.opened /\ scan.depth - 1 <= 0]

ScanTo(from, to) ==
  FoldLeft(LAMBDA scan, line : FoldLeft(Brace, scan, line.braces),
           [depth |-> 0, opened |-> FALSE, closed |-> FALSE], SubSeq(lines, from, to))

\* The line that closes the block, the declaration itself if it opens none in
\* time, or else as far as the window reaches.
BraceBlockEnd(from) ==
  LET last == LowerOf(from + Window - 1, Len(lines))
      closing == {j \in from..last : ScanTo(from, j).closed}
      unopened == \/ from + Lookahead <= last /\ ~ScanTo(from, from + Lookahead).opened
                  \/ ~ScanTo(from, last).opened
  IN IF unopened THEN from
     ELSE IF closing # {} THEN CHOOSE j \in closing : \A k \in closing : j <= k
     ELSE LowerOf(from + Window, Len(lines))

\* Mutant: the scan goes on inside the block it has taken.
InsideBlock(end) == at + 1

AfterBlock(end) == end + 1

ExtractBraceBlock ==
  /\ lang = "brace" /\ at <= Len(lines)
  /\ IF lines[at].declares
     THEN LET end == BraceBlockEnd(at)
          IN blocks' = Append(blocks, <<at, end>>) /\ at' = AfterBlock(end)
     ELSE blocks' = blocks /\ at' = at + 1
  /\ UNCHANGED <<lang, lines>>

-----------------------------------------------------------------------------
(* extract_indent_blocks. *)

\* The last line that is indented deeper, blank lines apart, before one that is not.
IndentBlockEnd(from) ==
  LET reach == from + 1 .. LowerOf(from + Window - 1, Len(lines))
      text == {j \in reach : ~lines[j].blank}
      inside == {j \in text : \A k \in text : k <= j => lines[k].indent > lines[from].indent}
  IN IF inside = {} THEN from ELSE CHOOSE j \in inside : \A k \in inside : k <= j

ExtractIndentBlock ==
  /\ lang = "python" /\ at <= Len(lines)
  /\ blocks' = IF lines[at].declares THEN Append(blocks, <<at, IndentBlockEnd(at)>>) ELSE blocks
  /\ at' = at + 1
  /\ UNCHANGED <<lang, lines>>

SymbolNext == ExtractBraceBlock \/ ExtractIndentBlock
SymbolSpec == SymbolInit /\ [][SymbolNext]_symbolVars

-----------------------------------------------------------------------------
(* Properties. *)

Inside(b, d) == d[1] <= b[1] /\ b[2] <= d[2]

\* Every declaration the scan has passed is in the index, by braces in exactly
\* one symbol, its own or that of the block around it, and by indentation as a
\* symbol of its own; symbols nest or are apart, however unbalanced the text is,
\* unless the inner one goes on beyond the outer one's window (contextidx.rs:93-128, 169-247).
DeclarationsCovered ==
  /\ \A n \in 1..LowerOf(at - 1, Len(lines)) : lines[n].declares =>
       IF lang = "python" THEN \E b \in ToSet(blocks) : b[1] = n
       ELSE \E m \in DOMAIN blocks : n \in blocks[m][1]..blocks[m][2]
  /\ \A m, n \in DOMAIN blocks : m < n =>
       \/ blocks[m][2] < blocks[n][1]
       \/ /\ lang = "python"
          /\ \/ Inside(blocks[n], blocks[m])
             \/ blocks[n][2] > blocks[m][1] + Window - 1
  /\ \A b \in ToSet(blocks) : b[2] \in b[1]..LowerOf(b[1] + Window, Len(lines))
=============================================================================
