---------------------------- MODULE EditDistance ----------------------------
(***************************************************************************)
(* The edit distance of the loop detector (src/src/loopdetect.rs): the     *)
(* bit-parallel one for patterns of more than 16 characters and the        *)
(* two-row table for the others.  Words have Width bits instead of 64, so  *)
(* that patterns of a few characters cross from one block to the next.     *)
(***************************************************************************)
EXTENDS Integers, Sequences, FiniteSetsExt, Bitwise

CONSTANTS
  Alphabet,
  Width,       \* bits of a word
  MaxPattern,
  MaxText

VARIABLES
  pat, txt,    \* the shorter and the longer string
  read,        \* characters of txt read
  blk,         \* the block the inner loop is at
  vp, vn,      \* vertical deltas, a word per block
  phIn, mhIn,  \* horizontal deltas carried into blk
  score

distanceVars == <<pat, txt, read, blk, vp, vn, phIn, mhIn, score>>

Strings(longest) == UNION {[1..n -> Alphabet] : n \in 1..longest}

-----------------------------------------------------------------------------
(* Words.                                                                  *)

Ones == 2^Width - 1
Flip(x) == Ones - x
Wrap(x) == x % 2^Width
ShiftIn(x, bit) == Wrap(2 * x) | bit
TopBit(x) == x \div 2^(Width - 1)
Bit(k) == 2^k

Blocks == 1..((Len(pat) + Width - 1) \div Width)
LastBlock == Max(Blocks)
TestBit == Bit((Len(pat) - 1) % Width)

\* peq: the positions of a character in block b.
Peq(char, b) ==
  LET here == {k \in 0..(Width - 1) : (b - 1) * Width + k < Len(pat) /\ pat[(b - 1) * Width + k + 1] = char}
  IN  SumSet({Bit(k) : k \in here})

-----------------------------------------------------------------------------
(* The two-row table: row k has the distances of a's first k characters.   *)

TwoRow(a, b) ==
  LET row[k \in 0..Len(a)] ==
        IF k = 0 THEN [j \in 0..Len(b) |-> j]
        ELSE LET prev == row[k - 1]
                 cost(j) == IF a[k] = b[j] THEN 0 ELSE 1
                 curr[j \in 0..Len(b)] ==
                   IF j = 0 THEN k
                   ELSE Min({prev[j] + 1, curr[j - 1] + 1, prev[j - 1] + cost(j)})
             IN  curr
  IN  row[Len(a)][Len(b)]

-----------------------------------------------------------------------------
DistanceInit ==
  /\ pat \in Strings(MaxPattern)
  /\ txt \in Strings(MaxText)
  /\ Len(pat) <= Len(txt)
  /\ read = 0 /\ blk = 1
  /\ vp = [b \in Blocks |-> Ones]
  /\ vn = [b \in Blocks |-> 0]
  /\ phIn = 1 /\ mhIn = 0
  /\ score = Len(pat)

\* Mutant: the negative delta carried in from the block before is left out of the matches.
CarryLost(eq) == eq

CarryIn(eq) == eq | mhIn

\* One block of one character of the text.
AdvanceBlock ==
  LET eq == Peq(txt[read + 1], blk)
      xv == eq | vn[blk]
      eqH == CarryIn(eq)
      xh == (Wrap((eqH & vp[blk]) + vp[blk]) ^^ vp[blk]) | eqH
      ph == vn[blk] | Flip(xh | vp[blk])
      mh == vp[blk] & xh
      phSh == ShiftIn(ph, phIn)
      mhSh == ShiftIn(mh, mhIn)
  IN  /\ read < Len(txt)
      /\ score' = IF blk # LastBlock THEN score
                  ELSE IF (ph & TestBit) # 0 THEN score + 1
                  ELSE IF (mh & TestBit) # 0 THEN score - 1
                  ELSE score
      /\ vp' = [vp EXCEPT ![blk] = mhSh | Flip(xv | phSh)]
      /\ vn' = [vn EXCEPT ![blk] = phSh & xv]
      /\ IF blk = LastBlock
         THEN blk' = 1 /\ read' = read + 1 /\ phIn' = 1 /\ mhIn' = 0
         ELSE blk' = blk + 1 /\ read' = read /\ phIn' = TopBit(ph) /\ mhIn' = TopBit(mh)
      /\ UNCHANGED <<pat, txt>>

DistanceNext == AdvanceBlock
DistanceSpec == DistanceInit /\ [][DistanceNext]_distanceVars

-----------------------------------------------------------------------------
\* A run of 16 characters is measured by the table and one of 17 by words, and the detector compares
\* both with one ceiling: after every character of the text the bit-parallel score is the table's distance
\* from the pattern to what was read, also when the deltas are carried from block to block.
WordsAgreeWithTable == blk = 1 => score = TwoRow(pat, SubSeq(txt, 1, read))
=============================================================================
