------------------------------ MODULE GrayCode ------------------------------
(***************************************************************************)
(* The conversions of dp_fifo.v between binary and Gray code, on words of  *)
(* AW+1 bits.  A word is given by its number; a code by the positions of   *)
(* its bits that are 1.                                                    *)
(***************************************************************************)
EXTENDS Naturals

\* Powers(n)[i] is the i-th power of 2, for i up to n.
Powers(n) ==
  LET power[i \in 0..n] == IF i = 0 THEN 1 ELSE 2 * power[i - 1] IN power

\* A word shifted to the right by i places, and its bit at place i, for i up to AW+1.
Shifts(AW, word) ==
  LET shifted[i \in 0..(AW + 1)] == IF i = 0 THEN word ELSE shifted[i - 1] \div 2
  IN  shifted

BitAt(AW, word, i) == Shifts(AW, word)[i] % 2

\* binary ^ {1'b0, binary[AW:1]}: each bit is the difference of two.
GrayOf(AW, binary) == {i \in 0..AW : BitAt(AW, binary, i) # BitAt(AW, binary, i + 1)}

\* rp_sync_2w ^ {1'b0, rp_sync_2w_2binary[AW:1]}: a bit of the result is that of
\* the code, inverted if the result's next higher bit is 1.
BinaryBits(AW, gray) ==
  LET bit[i \in 0..(AW + 1)] ==
        IF i = AW + 1 THEN 0
        ELSE IF i \in gray THEN 1 - bit[i + 1] ELSE bit[i + 1]
  IN  bit

BinaryOf(AW, gray) ==
  LET value[i \in 0..(AW + 1)] ==
        IF i = AW + 1 THEN 0 ELSE BinaryBits(AW, gray)[i] + 2 * value[i + 1]
  IN  value[0]
=============================================================================
