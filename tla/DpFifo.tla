------------------------------- MODULE DpFifo -------------------------------
(***************************************************************************)
(* The dual clock FIFO of the AXI4-Lite to APB4 bridge, dp_fifo.v with its *)
(* memory dp_sram.v.  Each side keeps a pointer in binary and in Gray code,*)
(* one bit wider than an address; the Gray code crosses to the other clock *)
(* through two registers, and full and empty are registered on their own   *)
(* side from a pointer of the other side that is up to two edges old.      *)
(*                                                                         *)
(* A step is an edge of either clock, or of both at once: the clocks run at*)
(* any relative speed and phase.  A register that samples a word of the    *)
(* other clock while it changes may take each of its changing bits either  *)
(* way.                                                                    *)
(***************************************************************************)
EXTENDS Integers

CONSTANTS
  Depth,  (* Number of words: (1<<AW).                                       *)
  Data,   (* The words.                                                      *)
  NoData, (* What rdata and the memory hold before they are first written.   *)
  Gray,   (* Gray[p]: the positions of the bits that are 1 in p's Gray code. *)
  Binary  (* Binary[g]: the pointer whose Gray code is g.                    *)

Pointer == 0..(2 * Depth - 1)
Address == 0..(Depth - 1)

\* The pointers wrap around at the width they have.
Succ(p) == IF p = 2 * Depth - 1 THEN 0 ELSE p + 1

\* What may be sampled of a word that changes from old to new.
Sampled(old, new) ==
  {word \in SUBSET (old \cup new) : old \cap new \subseteq word}

\* What the FIFO needs of binary_next ^ (binary_next >> 1) and its inverse: the code is
\* decoded to the pointer it was made from, zero is zero, and one bit changes at a time.
IsGrayCode(gray, binary) ==
  /\ gray[0] = {}
  /\ \A p \in Pointer : binary[gray[p]] = p
  /\ \A p \in Pointer : Sampled(gray[p], gray[Succ(p)]) \subseteq {gray[p], gray[Succ(p)]}

ASSUME DepthAssumption == Depth \in Nat \ {0}
ASSUME DataAssumption == NoData \notin Data
ASSUME GrayAssumption == IsGrayCode(Gray, Binary)

VARIABLES
  wp_binary, wp_gray, (* The next word to write.                             *)
  rp_meta, rp_sync_2w,(* The read pointer on its way to the write clock.     *)
  full, mem,
  rp_binary, rp_gray, (* The next word to read.                              *)
  wp_meta, wp_sync_2r,(* The write pointer on its way to the read clock.     *)
  empty, rdata

writeVars == <<wp_binary, wp_gray, full, mem>>
readVars == <<rp_binary, rp_gray, empty, rdata>>
toWrite == <<rp_meta, rp_sync_2w>>
toRead == <<wp_meta, wp_sync_2r>>
vars == <<writeVars, toWrite, readVars, toRead>>

\* Both sides come out of reset with the other's pointer zero; a side that stays
\* in reset for longer is one whose clock has no edge yet.
Init ==
  /\ wp_binary = 0 /\ wp_gray = Gray[0]
  /\ rp_meta = Gray[0] /\ rp_sync_2w = Gray[0]
  /\ full = FALSE /\ mem = [a \in Address |-> NoData]
  /\ rp_binary = 0 /\ rp_gray = Gray[0]
  /\ wp_meta = Gray[0] /\ wp_sync_2r = Gray[0]
  /\ empty = TRUE /\ rdata = NoData

-----------------------------------------------------------------------------
\* A pointer's address bits, and the bit above them.
Addr(p) == IF p < Depth THEN p ELSE p - Depth
Wrap(p) == p >= Depth

\* (Bug variants, not the code: the wrap bits are not compared; the word is written
\* where the pointer moves to; empty misses the pop of its own edge.)
SameAddress(wp) == Addr(wp) = Addr(Binary[rp_sync_2w])
AddressAfterPush == Addr(Succ(wp_binary))
MissingPop(pop) == FALSE

wp_binary_next == Succ(wp_binary)
wp_gray_next == Gray[wp_binary_next]
rp_binary_next == Succ(rp_binary)
rp_gray_next == Gray[rp_binary_next]

\* Whether the FIFO is full with the write pointer wp, as the write side sees it.
FullAt(wp) ==
  LET rp == Binary[rp_sync_2w]
  IN  Addr(wp) = Addr(rp) /\ Wrap(wp) # Wrap(rp)

FullByPush(push) == push /\ FullAt(wp_binary_next)
WriteAddress == Addr(wp_binary)

\* posedge wclk: the pointer, the memory and the flag.
Write(push, wdata) ==
  /\ wp_binary' = IF push THEN wp_binary_next ELSE wp_binary
  /\ wp_gray' = IF push THEN wp_gray_next ELSE wp_gray
  /\ mem' = IF push THEN [mem EXCEPT ![WriteAddress] = wdata] ELSE mem
  /\ full' = (FullAt(wp_binary) \/ FullByPush(push))

EmptyByPop(pop) == pop /\ wp_sync_2r = rp_gray_next

\* posedge rclk: the pointer, the word read and the flag.
Read(pop) ==
  /\ rp_binary' = IF pop THEN rp_binary_next ELSE rp_binary
  /\ rp_gray' = IF pop THEN rp_gray_next ELSE rp_gray
  /\ rdata' = IF pop THEN mem[Addr(rp_binary)] ELSE rdata
  /\ empty' = (wp_sync_2r = rp_gray \/ EmptyByPop(pop))

\* The two synchronizers.  A word that does not change at this edge is sampled
\* as it is.
SyncToWrite ==
  /\ rp_meta' \in Sampled(rp_gray, rp_gray')
  /\ rp_sync_2w' = rp_meta

SyncToRead ==
  /\ wp_meta' \in Sampled(wp_gray, wp_gray')
  /\ wp_sync_2r' = wp_meta

\* The users of the FIFO: no push when it is full, no pop when it is empty.
WriteEdge == \E push \in BOOLEAN, wdata \in Data : (push => ~full) /\ Write(push, wdata)
ReadEdge == \E pop \in BOOLEAN : (pop => ~empty) /\ Read(pop)

WriteClock ==
  WriteEdge /\ UNCHANGED <<readVars, toRead>> /\ SyncToWrite

ReadClock ==
  ReadEdge /\ UNCHANGED <<writeVars, toWrite>> /\ SyncToRead

BothClocks == WriteEdge /\ ReadEdge /\ SyncToWrite /\ SyncToRead

Next == WriteClock \/ ReadClock \/ BothClocks

Spec == Init /\ [][Next]_vars

\* The clocks keep running.  Nobody has to push or to pop.
Fairness ==
  /\ WF_vars(WriteClock \/ BothClocks)
  /\ WF_vars(ReadClock \/ BothClocks)

FairSpec == Spec /\ Fairness
-----------------------------------------------------------------------------
(* Properties.                                                               *)

\* How far b is ahead of a.
Ahead(a, b) == IF a <= b THEN b - a ELSE b - a + 2 * Depth

\* The number of words inside.
Count == Ahead(rp_binary, wp_binary)

Codes == {Gray[p] : p \in Pointer}

TypeOK ==
  /\ wp_binary \in Pointer /\ wp_gray = Gray[wp_binary]
  /\ rp_binary \in Pointer /\ rp_gray = Gray[rp_binary]
  /\ rp_meta \in Codes /\ rp_sync_2w \in Codes
  /\ wp_meta \in Codes /\ wp_sync_2r \in Codes
  /\ full \in BOOLEAN /\ empty \in BOOLEAN
  /\ mem \in [Address -> Data \cup {NoData}] /\ rdata \in Data \cup {NoData}

\* At no speed of the clocks does the FIFO hold more words than its memory: full
\* is set by the edge of the push that fills it, though the read pointer it is
\* computed from is old.
NoOverflow == Count <= Depth /\ (~full => Count < Depth)

\* Nor is a word read that has not been written: whenever there is nothing to
\* read, empty is set.
NoUnderflow == ~empty => Count > 0

\* A pointer seen through a synchronizer was the other side's at some time since
\* it was there last: what each side sees is on the way from where the other has
\* been to where it is, and never goes back.
PointersFollow ==
  LET rs == Binary[rp_sync_2w]  rm == Binary[rp_meta]
      ws == Binary[wp_sync_2r]  wm == Binary[wp_meta]
  IN  /\ Ahead(rs, rm) + Ahead(rm, rp_binary) + Count <= Depth
      /\ Ahead(rp_binary, ws) + Ahead(ws, wm) + Ahead(wm, wp_binary) = Count

\* A word that is pushed becomes visible to the reader and room that is made to the
\* writer, though nothing else is pushed or popped.
FlagsCatchUp == (Count > 0 ~> ~empty) /\ (Count < Depth ~> ~full)

-----------------------------------------------------------------------------
(* The FIFO this implements.                                                 *)
Plus(p, k) == IF p + k < 2 * Depth THEN p + k ELSE p + k - 2 * Depth

Fifo == INSTANCE BoundedFifo WITH
  queue <- [k \in 1..Count |-> mem[Addr(Plus(rp_binary, k - 1))]],
  out <- rdata

ImplementsBoundedFifo == Fifo!Spec
=============================================================================
