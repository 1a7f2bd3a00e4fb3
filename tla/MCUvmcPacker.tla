--------------------------- MODULE MCUvmcPacker ---------------------------
(* Words of four bits and characters of two.  *)
EXTENDS UvmcPacker

MCInts == {[type |-> "int", value |-> v] :
             v \in {<<1>>, <<0, 1>>, <<1, 0, 1>>, <<1, 0, 0, 1>>, <<1, 0, 1, 1, 0, 0, 1, 1>>}}

\* The widths: less than a word, a word, more than a word, two words.
MCVectors == {[type |-> "lv", value |-> v] : v \in {<<3>>, <<2, 1, 3, 0, 1, 1>>}}

MCBigInts == {[type |-> "bits", value |-> <<1, 1, 0, 0, 1>>]}

MCStrings == {[type |-> "string", value |-> v] : v \in {<<>>, <<<<1, 0>>, <<0, 1>>>>}}

MCContainers ==
  {[type |-> "vector", width |-> 3, value |-> v] : v \in {<<>>, <<<<1, 1, 0>>, <<0, 1, 1>>>>}}

\* Bit vectors of a word at most, which are packed as they are.
MCNarrow == {[type |-> "bv", value |-> v] : v \in {<<0, 1, 1>>, <<1, 1, 0, 1>>}}

\* And one of a word and a half.
MCWide == {[type |-> "bv", value |-> <<1, 0, 1, 1, 0, 1>>]}

MCFields == MCInts \cup MCVectors \cup MCBigInts \cup MCStrings \cup MCContainers \cup MCNarrow

MCWideFields == MCInts \cup MCWide
=============================================================================
