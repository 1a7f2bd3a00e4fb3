----------------------------- MODULE UvmcPacker -----------------------------
(***************************************************************************)
(* uvmc_packer of uvmc_packer.h and uvmc_packer.cpp, bits in the order of  *)
(* uvm_packer (without MSB_FIRST): the fields of a transaction are written *)
(* one after the other into the words of a buffer that the proxy keeps and *)
(* never clears, and read from it again by the other side, which knows     *)
(* their types and, for a string and a vector, only those.                 *)
(*                                                                         *)
(* A value is the sequence of its bits, the lowest first; that of sc_logic *)
(* and sc_lv also has 2 and 3 for Z and X.                                 *)
(***************************************************************************)
EXTENDS Integers, SequencesExt

CONSTANTS
  WordBits,  (* The bits of a word: 32 in the code.                          *)
  CharBits,  (* The bits of a character: 8 in the code.                      *)
  MaxWords,  (* The words of the buffer: UVMC_MAX_WORDS.                     *)
  Fields,    (* The fields that are packed.                                  *)
  MaxFields, (* A bound of their number in a transaction.                    *)
  MaxRounds  (* A bound of the number of transactions.                       *)

Bit == {0, 1}
PowerOfTwo[n \in 0 .. WordBits] == IF n = 0 THEN 1 ELSE 2 * PowerOfTwo[n - 1]

\* A value is the sequence of the bits of the type, a character one of CharBits bits, and
\* none of those in a string is the one that ends it; a vector has elements of one type.
MaxWidth == 2 * WordBits
Integral(v) == v \in Seq(Bit) /\ Len(v) \in 1 .. MaxWidth
IsZero(v) == \A i \in DOMAIN v : v[i] = 0

FieldOfType(f) ==
  \/ f.type = "int" /\ Integral(f.value)
  \/ f.type = "lv" /\ f.value \in Seq(0 .. 3)
  \/ f.type \in {"bv", "bits"} /\ f.value \in Seq(Bit)
  \/ /\ f.type = "string"
     /\ f.value \in Seq({c \in Seq(Bit) : Len(c) = CharBits /\ ~IsZero(c)})
  \/ /\ f.type = "vector"
     /\ f.width \in 1 .. MaxWidth
     /\ f.value \in Seq({e \in Seq(Bit) : Len(e) = f.width})
     /\ Len(f.value) < PowerOfTwo[WordBits - 1]

ASSUME WordBitsAssumption == WordBits \in Nat \ {0}
ASSUME CharBitsAssumption == CharBits \in 1 .. WordBits
ASSUME MaxWordsAssumption == MaxWords \in Nat \ {0}
ASSUME BoundsAssumption == MaxFields \in Nat /\ MaxRounds \in Nat \ {0}
ASSUME FieldsAssumption == \A f \in Fields : FieldOfType(f)

VARIABLES
  bits,   (* m_bits of the proxy: words[w][b].                               *)
  rep,    (* The indexes of uvmc_packer_rep.                                 *)
  mode,   (* What was initialised last, init_pack or init_unpack.            *)
  sent,   (* The fields packed since init_pack.                              *)
  got,    (* The fields unpacked since init_unpack.                          *)
  round   (* Counts the transactions.                                        *)

pkVars == <<bits, rep, mode, sent, got, round>>

Words == 0 .. MaxWords - 1
Places == 0 .. WordBits - 1

\* The word the pointer points at, the index in it, and the bits done so far.
InitIndexes == [ptr |-> 0, bit_index |-> 0, bits_size |-> 0]

UpdateIndexes(r, n) ==
  LET full == r.bit_index + n >= WordBits
  IN [ptr |-> IF full THEN r.ptr + 1 ELSE r.ptr,
      bit_index |-> IF full THEN 0 ELSE r.bit_index + n,
      bits_size |-> r.bits_size + n]

-----------------------------------------------------------------------------
(***************************************************************************)
(* pack_int_n and unpack_int_n: up to three words, of which the first and  *)
(* the last keep their other bits.  s is the buffer and the indexes.       *)
(***************************************************************************)

\* The bits of value v into the present word.
PutBits(s, v) ==
  LET b == s.rep.bit_index
  IN [bits |-> [s.bits EXCEPT ![s.rep.ptr] =
                  [p \in Places |-> IF p \in b .. b + Len(v) - 1 THEN v[p - b + 1] ELSE @[p]]],
      rep |-> UpdateIndexes(s.rep, Len(v))]

TakeBits(s, n) ==
  [value |-> [i \in 1 .. n |-> s.bits[s.rep.ptr][s.rep.bit_index + i - 1]],
   bits |-> s.bits,
   rep |-> UpdateIndexes(s.rep, n)]

\* How many of the n bits left fill a word in the middle.
Middle(n) == IF n >= WordBits THEN WordBits ELSE 0

\* How many of n bits go into the present word, at bit index b, how many of the rest fill
\* one in the middle, and how many are left for the last.
Stages(b, n) ==
  LET right == IF n <= WordBits - b THEN n ELSE WordBits - b
      mid == Middle(n - right)
  IN [right |-> right, mid |-> mid, left |-> n - right - mid]

PackIntN(s, v) ==
  LET k == Stages(s.rep.bit_index, Len(v))
      right == PutBits(s, SubSeq(v, 1, k.right))
      mid == PutBits(right, SubSeq(v, k.right + 1, k.right + k.mid))
  IN PutBits(mid, SubSeq(v, k.right + k.mid + 1, Len(v)))

\* [value, bits, rep]: what was read, the buffer, and the indexes behind it.
UnpackIntN(s, n) ==
  LET k == Stages(s.rep.bit_index, n)
      right == TakeBits(s, k.right)
      mid == TakeBits(right, k.mid)
      left == TakeBits(mid, k.left)
  IN [left EXCEPT !.value = right.value \o mid.value \o left.value]

-----------------------------------------------------------------------------
(***************************************************************************)
(* The types.  Each is packed as pieces of at most two words, by one call  *)
(* of pack_int_n for each.                                                 *)
(***************************************************************************)

PackAll(s, pieces) ==
  LET after[k \in 0 .. Len(pieces)] ==
        IF k = 0 THEN s ELSE PackIntN(after[k - 1], pieces[k])
  IN after[Len(pieces)]

\* The values of those widths, each with the indexes behind it.
Reads(s, widths) ==
  LET read[k \in 0 .. Len(widths)] ==
        IF k = 0 THEN [value |-> <<>>, bits |-> s.bits, rep |-> s.rep]
        ELSE UnpackIntN(read[k - 1], widths[k])
  IN read

UnpackAll(s, widths) ==
  LET read == Reads(s, widths)
  IN [value |-> [i \in DOMAIN widths |-> read[i].value], rep |-> read[Len(widths)].rep]

\* The same, for pieces of one value.
UnpackPieces(s, widths) ==
  LET all == UnpackAll(s, widths)
  IN [value |-> FlattenSeq(all.value), rep |-> all.rep]

\* What is left of k without its i low bits.
Shifted(k, width) ==
  LET left[i \in 0 .. width] == IF i = 0 THEN k ELSE left[i - 1] \div 2 IN left

\* The bits of a number, as many as the type has.
Number(k, width) == [i \in 1 .. width |-> Shifted(k, width)[i - 1] % 2]

NumberOf(v) ==
  LET high[i \in 0 .. Len(v)] ==
        IF i = 0 THEN 0 ELSE 2 * high[i - 1] + v[Len(v) - i + 1]
  IN high[Len(v)]

\* Of sc_logic and sc_lv only the value plane is sent: Z arrives as 0 and X as 1.
ValuePlane(v) == [i \in DOMAIN v |-> v[i] % 2]

\* (Bug variant, not the code: every word is sent whole.)
WholeWords(i, n) == WordBits

\* The bits of word i of n bits that are sent.
WordPart(i, n) == IF n - i * WordBits >= WordBits THEN WordBits ELSE n - i * WordBits

WordsOf(n) == (n + WordBits - 1) \div WordBits

\* get_word: the n low bits of word i, zeros behind the value.
WordAt(v, i, n) ==
  [k \in 1 .. n |-> IF i * WordBits + k <= Len(v) THEN v[i * WordBits + k] ELSE 0]

\* pack_sc_lv_base.
LvPieces(v) ==
  [k \in 1 .. WordsOf(Len(v)) |-> WordAt(ValuePlane(v), k - 1, WordPart(k - 1, Len(v)))]

\* pack_sc_bv_base counts the bits up, not down: every word of a value that is wider
\* than one is sent whole.
BvPieces(v) ==
  LET width == IF Len(v) >= WordBits THEN WordBits ELSE Len(v)
  IN [k \in 1 .. WordsOf(Len(v)) |-> WordAt(v, k - 1, width)]

\* unpack_sc_bv_base and unpack_sc_lv_base.
UnpackWords(s, n) == UnpackPieces(s, [k \in 1 .. WordsOf(n) |-> WordPart(k - 1, n)])

\* pack_sc_signed and pack_sc_unsigned: bit by bit.
SingleBits(v) == [i \in DOMAIN v |-> <<v[i]>>]

UnpackBits(s, n) == UnpackPieces(s, [i \in 1 .. n |-> 1])

\* pack_string: the characters and a zero; no count.
StringPieces(chars) == Append(chars, Number(0, CharBits))

\* The containers: an int that counts the elements, then those.
VectorPieces(elems) == <<Number(Len(elems), WordBits)>> \o elems

\* pack_*: what << does with the field.
Pieces(field) ==
  CASE field.type = "int" -> <<field.value>>
    [] field.type = "lv" -> LvPieces(field.value)
    [] field.type = "bv" -> BvPieces(field.value)
    [] field.type = "bits" -> SingleBits(field.value)
    [] field.type = "string" -> StringPieces(field.value)
    [] field.type = "vector" -> VectorPieces(field.value)

PackField(s, field) == PackAll(s, Pieces(field))

\* The characters that are there, read up to the end of the buffer.
Characters(s) == Reads(s, [i \in 1 .. MaxWords * WordBits |-> CharBits])

\* How many come before the first zero.
BeforeZero(read) ==
  CHOOSE n \in 0 .. MaxWords * WordBits - 1 :
    /\ IsZero(read[n + 1].value)
    /\ \A i \in 1 .. n : ~IsZero(read[i].value)

\* (Bug variant, not the code: the zero behind the string is left.)
ZeroLeft(s) ==
  LET read == Characters(s)
      n == BeforeZero(read)
  IN [value |-> [i \in 1 .. n |-> read[i].value], rep |-> read[n].rep]

\* unpack_string: characters up to a zero.
UnpackString(s) ==
  LET read == Characters(s)
      n == BeforeZero(read)
  IN [value |-> [i \in 1 .. n |-> read[i].value], rep |-> read[n + 1].rep]

\* The count, then that many elements.
UnpackVector(s, width) ==
  LET count == UnpackIntN(s, WordBits)
  IN UnpackAll(count, [i \in 1 .. NumberOf(count.value) |-> width])

\* unpack_*: what >> does with a variable of the field's type.
UnpackField(s, field) ==
  CASE field.type = "int" -> UnpackIntN(s, Len(field.value))
    [] field.type \in {"lv", "bv"} -> UnpackWords(s, Len(field.value))
    [] field.type = "bits" -> UnpackBits(s, Len(field.value))
    [] field.type = "string" -> UnpackString(s)
    [] field.type = "vector" -> UnpackVector(s, field.width)

-----------------------------------------------------------------------------
(***************************************************************************)
(* What the two sides agree upon: the bits of a field in the stream.       *)
(***************************************************************************)

Stream(field) ==
  CASE field.type \in {"int", "bits", "bv"} -> field.value
    [] field.type = "lv" -> ValuePlane(field.value)
    [] field.type = "string" -> FlattenSeq(field.value) \o Number(0, CharBits)
    [] field.type = "vector" -> Number(Len(field.value), WordBits) \o FlattenSeq(field.value)

StreamOf(fields) == FlattenSeq([i \in DOMAIN fields |-> Stream(fields[i])])

\* The value that arrives.
Arrived(field) == IF field.type = "lv" THEN ValuePlane(field.value) ELSE field.value

\* The program does not look whether the transaction fits; the model only packs
\* those that do, with the last word of a bit vector whole.
FitsBuffer(field) ==
  rep.bits_size + WordsOf(Len(Stream(field))) * WordBits <= MaxWords * WordBits

-----------------------------------------------------------------------------
\* The buffer holds what the last transaction left in it.
PkInit ==
  /\ bits \in {[w \in Words |-> [p \in Places |-> b]] : b \in Bit}
  /\ rep = InitIndexes
  /\ mode = "pack"
  /\ sent = <<>>
  /\ got = <<>>
  /\ round = 1

\* operator <<.
Pack(field) ==
  /\ mode = "pack"
  /\ Len(sent) < MaxFields
  /\ FitsBuffer(field)
  /\ LET s == PackField([bits |-> bits, rep |-> rep], field)
     IN bits' = s.bits /\ rep' = s.rep
  /\ sent' = Append(sent, field)
  /\ UNCHANGED <<mode, got, round>>

\* init_unpack, at the other side.
InitUnpack ==
  /\ mode = "pack"
  /\ mode' = "unpack"
  /\ rep' = InitIndexes
  /\ UNCHANGED <<bits, sent, got, round>>

\* The types that are left to unpack: the converters of UVMC_CONVERT_* unpack the fields
\* in the order in which they pack them, those of a base class first.
Unread == SubSeq(sent, Len(got) + 1, Len(sent))

\* operator >>.
Unpack ==
  /\ mode = "unpack"
  /\ Unread # <<>>
  /\ LET s == UnpackField([bits |-> bits, rep |-> rep], Head(Unread))
     IN got' = Append(got, s.value) /\ rep' = s.rep
  /\ UNCHANGED <<bits, mode, sent, round>>

\* init_pack, for the next transaction in the same buffer.
InitPack ==
  /\ mode = "unpack"
  /\ Len(got) = Len(sent)
  /\ round < MaxRounds
  /\ round' = round + 1
  /\ mode' = "pack"
  /\ rep' = InitIndexes
  /\ sent' = <<>>
  /\ got' = <<>>
  /\ UNCHANGED bits

PkNext ==
  \/ \E field \in Fields : Pack(field)
  \/ InitUnpack
  \/ Unpack
  \/ InitPack

PkSpec == PkInit /\ [][PkNext]_pkVars

-----------------------------------------------------------------------------
\* The buffer holds bits; the pointer stays in it, behind it only when it is full, and
\* the three indexes, which update_indexes keeps apart, name one place.
PkTypeOK ==
  /\ bits \in [Words -> [Places -> Bit]]
  /\ rep \in [ptr : 0 .. MaxWords, bit_index : Places, bits_size : Nat]
  /\ rep.bits_size = rep.ptr * WordBits + rep.bit_index
  /\ mode \in {"pack", "unpack"}
  /\ sent \in Seq(Fields) /\ Len(sent) <= MaxFields
  /\ round \in 1 .. MaxRounds

\* However the fields straddle the words, and whatever the buffer held, it holds what
\* uvm_packer has for them: the bits of one field behind those of the other, no gap.
BufferIsStream ==
  LET stream == StreamOf(sent)
  IN /\ mode = "pack" => rep.bits_size = Len(stream)
     /\ \A w \in Words, p \in Places :
          w * WordBits + p < Len(stream) => bits[w][p] = stream[w * WordBits + p + 1]

\* What is packed is unpacked: each field as it was, but Z and X as 0 and 1, and each
\* where the one before ends, a string and a vector with no length told.
RoundTrip == got = [i \in DOMAIN got |-> Arrived(sent[i])]

=============================================================================
