---------------------------- MODULE DpFifoProofs ----------------------------
(***************************************************************************)
(* Proofs about DpFifo for every depth and every code that satisfies       *)
(* GrayAssumption; and that the code of the circuit does, at every width.  *)
(*                                                                         *)
(* The inductive invariant says in distances what each side knows.  The    *)
(* pointers lie on a circle of 2*Depth places in the order                 *)
(*   rp_sync_2w, rp_meta, rp_binary, wp_sync_2r, wp_meta, wp_binary        *)
(* and no more than Depth places apart; a cleared full says that the first *)
(* and the last of them are less than Depth apart, and a cleared empty that*)
(* there is a place between rp_binary and wp_sync_2r.  A flag is computed  *)
(* from the pointer that its side is about to forget, which is behind the  *)
(* one it will see next: that is why it stays true.                        *)
(***************************************************************************)
EXTENDS DpFifo, GrayCode, SequenceTheorems, WellFoundedInduction, TLAPS

RS == Binary[rp_sync_2w]
RM == Binary[rp_meta]
WS == Binary[wp_sync_2r]
WM == Binary[wp_meta]

FlagsHold ==
  /\ ~full => Ahead(RS, wp_binary) # Depth
  /\ ~empty => WS # rp_binary

IInv == TypeOK /\ PointersFollow /\ FlagsHold

-----------------------------------------------------------------------------
(* Pointers on the circle.                                                   *)

LEMMA SuccType == \A p \in Pointer : Succ(p) \in Pointer
BY DepthAssumption DEF Pointer, Succ

LEMMA AheadType == \A a, b \in Pointer : Ahead(a, b) \in Pointer
BY DepthAssumption DEF Pointer, Ahead

LEMMA AheadZero == \A a, b \in Pointer : Ahead(a, b) = 0 <=> a = b
BY DepthAssumption DEF Pointer, Ahead

LEMMA AheadSucc ==
  \A a, b \in Pointer :
    Ahead(a, Succ(b)) = IF Ahead(a, b) = 2 * Depth - 1 THEN 0 ELSE Ahead(a, b) + 1
BY DepthAssumption DEF Pointer, Ahead, Succ

LEMMA AheadOfSucc ==
  \A a, b \in Pointer :
    Ahead(Succ(a), b) = IF Ahead(a, b) = 0 THEN 2 * Depth - 1 ELSE Ahead(a, b) - 1
BY DepthAssumption DEF Pointer, Ahead, Succ

\* Distances that do not go once around the circle add up.
LEMMA AheadSum ==
  \A a, b, c \in Pointer :
    Ahead(a, b) + Ahead(b, c) < 2 * Depth => Ahead(a, c) = Ahead(a, b) + Ahead(b, c)
BY DepthAssumption DEF Pointer, Ahead

\* The comparison of full: same address and different wrap bit is Depth ahead.
LEMMA AheadDepth ==
  \A a, b \in Pointer :
    (Addr(b) = Addr(a) /\ Wrap(b) # Wrap(a)) <=> Ahead(a, b) = Depth
BY DepthAssumption DEF Pointer, Ahead, Addr, Wrap

-----------------------------------------------------------------------------
(* Codes.                                                                    *)

LEMMA CodeOfPointer ==
  \A p \in Pointer : Gray[p] \in Codes /\ Binary[Gray[p]] = p
BY GrayAssumption DEF IsGrayCode, Codes

LEMMA PointerOfCode ==
  \A c \in Codes : Binary[c] \in Pointer /\ Gray[Binary[c]] = c
BY GrayAssumption DEF IsGrayCode, Codes

LEMMA SampledUnchanged == \A word : Sampled(word, word) = {word}
BY DEF Sampled

\* What a synchronizer takes while the other side's pointer steps is the pointer
\* before the step or the one after it.
LEMMA SampledPointer ==
  ASSUME NEW p \in Pointer, NEW q \in {p, Succ(p)},
         NEW word \in Sampled(Gray[p], Gray[q])
  PROVE  /\ word \in Codes
         /\ Binary[word] \in {p, q}
<1>1. CASE q = p
  BY <1>1, SampledUnchanged, CodeOfPointer
<1>2. CASE q = Succ(p)
  <2>1. word \in {Gray[p], Gray[q]}
    BY <1>2, GrayAssumption DEF IsGrayCode
  <2> QED BY <2>1, <1>2, SuccType, CodeOfPointer
<1> QED BY <1>1, <1>2

-----------------------------------------------------------------------------
(* The two halves of PointersFollow, as relations of four pointers.          *)

WriterBehind(rs, rm, rp, wp) ==
  Ahead(rs, rm) + Ahead(rm, rp) + Ahead(rp, wp) <= Depth

ReaderBehind(rp, ws, wm, wp) ==
  Ahead(rp, ws) + Ahead(ws, wm) + Ahead(wm, wp) = Ahead(rp, wp)

\* What both sides do to the pointers: the reader may take a word it sees, the
\* writer may add one if it sees room.
LEMMA PointersMove ==
  ASSUME NEW rs \in Pointer, NEW rm \in Pointer, NEW rp \in Pointer,
         NEW ws \in Pointer, NEW wm \in Pointer, NEW wp \in Pointer,
         WriterBehind(rs, rm, rp, wp), ReaderBehind(rp, ws, wm, wp),
         NEW rp2 \in {rp, Succ(rp)}, NEW wp2 \in {wp, Succ(wp)},
         rp2 # rp => ws # rp,
         wp2 # wp => Ahead(rs, wp) # Depth
  PROVE  /\ WriterBehind(rs, rm, rp2, wp2)
         /\ ReaderBehind(rp2, ws, wm, wp2)
<1> DEFINE A == Ahead(rs, rm)  B == Ahead(rm, rp)  C == Ahead(rp, wp)
           D == Ahead(rp, ws)  E == Ahead(ws, wm)  F == Ahead(wm, wp)
<1>1. /\ A \in Pointer /\ B \in Pointer /\ C \in Pointer
      /\ D \in Pointer /\ E \in Pointer /\ F \in Pointer
  BY AheadType
<1>2. A + B + C <= Depth /\ D + E + F = C
  BY DEF WriterBehind, ReaderBehind
<1>3. Ahead(rs, rp) = A + B /\ Ahead(rs, wp) = A + B + C
  <2>1. Ahead(rs, rp) = A + B
    BY <1>1, <1>2, AheadSum, DepthAssumption DEF Pointer
  <2>2. Ahead(rs, rp) + Ahead(rp, wp) < 2 * Depth
    BY <2>1, <1>1, <1>2, DepthAssumption DEF Pointer
  <2> HIDE DEF A, B
  <2> QED BY <2>1, <2>2, AheadSum
<1>4. CASE rp2 = rp /\ wp2 = wp
  BY <1>4 
<1>5. CASE rp2 = rp /\ wp2 = Succ(wp) /\ wp2 # wp
  <2>1. A + B + C < Depth
    BY <1>1, <1>2, <1>3, <1>5, DepthAssumption DEF Pointer
  <2>2. Ahead(rp, wp2) = C + 1 /\ Ahead(wm, wp2) = F + 1
    BY <2>1, <1>1, <1>2, <1>5, AheadSucc, DepthAssumption DEF Pointer
  <2> QED BY <2>1, <2>2, <1>1, <1>2, <1>5, DepthAssumption DEF Pointer, WriterBehind, ReaderBehind
<1>6. CASE rp2 = Succ(rp) /\ rp2 # rp
  <2>1. D > 0
    BY <1>1, <1>6, AheadZero DEF Pointer
  <2>2. Ahead(rp2, ws) = D - 1 /\ Ahead(rp2, wp) = C - 1 /\ Ahead(rm, rp2) = B + 1
    BY <2>1, <1>1, <1>2, <1>6, AheadSucc, AheadOfSucc, DepthAssumption DEF Pointer
  <2>3. CASE wp2 = wp
    BY <2>1, <2>2, <2>3, <1>1, <1>2, DepthAssumption DEF Pointer, WriterBehind, ReaderBehind
  <2>4. CASE wp2 = Succ(wp) /\ wp2 # wp
    <3>1. A + B + C < Depth
      BY <1>1, <1>2, <1>3, <2>4, DepthAssumption DEF Pointer
    <3>2. rp2 \in Pointer
      BY <1>6, SuccType
    <3>3. Ahead(rp2, wp2) = C /\ Ahead(wm, wp2) = F + 1
      BY <3>1, <3>2, <2>1, <2>2, <2>4, <1>1, <1>2, AheadSucc, DepthAssumption DEF Pointer
    <3> QED BY <3>1, <3>3, <2>1, <2>2, <1>1, <1>2, DepthAssumption DEF Pointer, WriterBehind, ReaderBehind
  <2> QED BY <2>3, <2>4
<1> QED BY <1>4, <1>5, <1>6

\* What an edge of the write clock does to what it sees of the read pointer.
LEMMA WriterSees ==
  ASSUME NEW rs \in Pointer, NEW rm \in Pointer, NEW rp \in Pointer, NEW wp \in Pointer,
         NEW rp2 \in {rp, Succ(rp)}, NEW m \in {rp, rp2},
         Ahead(rm, rp) < Depth \/ rp2 = rp,
         WriterBehind(rs, rm, rp2, wp)
  PROVE  /\ WriterBehind(rm, m, rp2, wp)
         /\ Ahead(rs, wp) # Depth => Ahead(rm, wp) # Depth
<1>1. rp2 \in Pointer /\ m \in Pointer
  BY SuccType
<1>2. /\ Ahead(rs, rm) \in Pointer /\ Ahead(rm, rp2) \in Pointer /\ Ahead(rp2, wp) \in Pointer
      /\ Ahead(rm, rp) \in Pointer
  BY <1>1, AheadType
<1>3. Ahead(rm, m) + Ahead(m, rp2) = Ahead(rm, rp2)
  <2>1. CASE m = rp2
    BY <2>1, <1>1, <1>2, AheadZero DEF Pointer
  <2>2. CASE m = rp /\ rp2 # rp
    <3>1. Ahead(rm, rp2) = Ahead(rm, rp) + 1
      BY <2>2, <1>2, AheadSucc, DepthAssumption DEF Pointer
    <3>2. Ahead(rp, rp) = 0
      BY AheadZero
    <3>3. Ahead(rp, rp2) = 1
      BY <2>2, <3>2, AheadSucc, DepthAssumption DEF Pointer
    <3> QED BY <3>1, <3>3, <2>2
  <2> QED BY <2>1, <2>2
<1>4. WriterBehind(rm, m, rp2, wp)
  BY <1>2, <1>3, DepthAssumption DEF WriterBehind, Pointer
<1>5. Ahead(rm, wp) = Ahead(rm, rp2) + Ahead(rp2, wp)
  BY <1>1, <1>2, AheadSum, DepthAssumption DEF WriterBehind, Pointer
<1>6. Ahead(rs, wp) = Ahead(rs, rm) + Ahead(rm, wp)
  BY <1>1, <1>2, <1>5, AheadSum, DepthAssumption DEF WriterBehind, Pointer
<1>7. Ahead(rs, wp) <= Depth
  BY <1>2, <1>5, <1>6, DepthAssumption DEF WriterBehind, Pointer
<1> QED BY <1>2, <1>4, <1>5, <1>6, <1>7, DepthAssumption DEF Pointer

\* What an edge of the read clock does to what it sees of the write pointer.
LEMMA ReaderSees ==
  ASSUME NEW rp \in Pointer, NEW ws \in Pointer, NEW wm \in Pointer, NEW wp \in Pointer,
         NEW wp2 \in {wp, Succ(wp)}, NEW m \in {wp, wp2},
         Ahead(wm, wp) < Depth \/ wp2 = wp,
         Ahead(rp, wp2) <= Depth, ReaderBehind(rp, ws, wm, wp2)
  PROVE  /\ ReaderBehind(rp, wm, m, wp2)
         /\ ws # rp => wm # rp
<1>1. wp2 \in Pointer /\ m \in Pointer
  BY SuccType
<1>2. /\ Ahead(rp, ws) \in Pointer /\ Ahead(ws, wm) \in Pointer /\ Ahead(wm, wp2) \in Pointer
      /\ Ahead(wm, wp) \in Pointer
  BY <1>1, AheadType
<1>3. Ahead(wm, m) + Ahead(m, wp2) = Ahead(wm, wp2)
  <2>1. CASE m = wp2
    BY <2>1, <1>1, <1>2, AheadZero DEF Pointer
  <2>2. CASE m = wp /\ wp2 # wp
    <3>1. Ahead(wm, wp2) = Ahead(wm, wp) + 1
      BY <2>2, <1>2, AheadSucc, DepthAssumption DEF Pointer
    <3>2. Ahead(wp, wp) = 0
      BY AheadZero
    <3>3. Ahead(wp, wp2) = 1
      BY <2>2, <3>2, AheadSucc, DepthAssumption DEF Pointer
    <3> QED BY <3>1, <3>3, <2>2
  <2> QED BY <2>1, <2>2
<1>4. Ahead(rp, wm) = Ahead(rp, ws) + Ahead(ws, wm)
  BY <1>1, <1>2, AheadSum, DepthAssumption DEF ReaderBehind, Pointer
<1>5. ReaderBehind(rp, wm, m, wp2)
  BY <1>2, <1>3, <1>4, <1>1, AheadType DEF ReaderBehind, Pointer
<1>6. ws # rp => wm # rp
  BY <1>2, <1>4, AheadZero DEF Pointer
<1> QED BY <1>5, <1>6

-----------------------------------------------------------------------------
(* The steps of the FIFO in these terms.                                     *)

\* What an edge of a clock does to that side, and that a side whose clock has no
\* edge stays as it is.
WriteSideSteps ==
  /\ wp_binary' \in {wp_binary, Succ(wp_binary)}
  /\ wp_binary' # wp_binary => ~full
  /\ \/ RS' = RS /\ RM' = RM /\ full' = full /\ wp_binary' = wp_binary
     \/ /\ RS' = RM /\ RM' \in {rp_binary, rp_binary'}
        /\ ~full' => Ahead(RS, wp_binary') # Depth

ReadSideSteps ==
  /\ rp_binary' \in {rp_binary, Succ(rp_binary)}
  /\ rp_binary' # rp_binary => ~empty
  /\ \/ WS' = WS /\ WM' = WM /\ empty' = empty /\ rp_binary' = rp_binary
     \/ /\ WS' = WM /\ WM' \in {wp_binary, wp_binary'}
        /\ ~empty' => WS # rp_binary'

\* An edge changes its own side's variables; this is the type of the result.
LEMMA WriteEdgeType ==
  ASSUME TypeOK, WriteEdge
  PROVE  /\ wp_binary' \in {wp_binary, Succ(wp_binary)}
         /\ wp_binary' \in Pointer /\ wp_gray' = Gray[wp_binary']
         /\ full' \in BOOLEAN /\ mem' \in [Address -> Data \cup {NoData}]
         /\ wp_binary' # wp_binary => ~full
         /\ ~full' => Ahead(RS, wp_binary') # Depth
<1>1. PICK push \in BOOLEAN, wdata \in Data : (push => ~full) /\ Write(push, wdata)
  BY DEF WriteEdge
<1>2. wp_binary \in Pointer /\ wp_gray = Gray[wp_binary] /\ Succ(wp_binary) \in Pointer
  BY SuccType DEF TypeOK
<1>3. RS \in Pointer
  BY PointerOfCode DEF TypeOK, RS
<1>4. wp_binary' = (IF push THEN Succ(wp_binary) ELSE wp_binary)
  BY <1>1 DEF Write, wp_binary_next
<1>5. wp_gray' = (IF push THEN Gray[Succ(wp_binary)] ELSE wp_gray)
  BY <1>1 DEF Write, wp_gray_next, wp_binary_next
<1>6. mem' \in [Address -> Data \cup {NoData}]
  BY <1>1 DEF Write, TypeOK
<1>7. full' = (FullAt(wp_binary) \/ (push /\ FullAt(Succ(wp_binary))))
  BY <1>1 DEF Write, FullByPush, wp_binary_next
<1>8. \A p \in Pointer : FullAt(p) <=> Ahead(RS, p) = Depth
  BY <1>3, AheadDepth DEF FullAt, RS
<1>9. full' \in BOOLEAN /\ (~full' => Ahead(RS, wp_binary') # Depth)
  <2>1. CASE push
    BY <2>1, <1>2, <1>4, <1>7, <1>8 DEF FullAt
  <2>2. CASE ~push
    BY <2>2, <1>2, <1>4, <1>7, <1>8 DEF FullAt
  <2> QED BY <2>1, <2>2
<1> QED BY <1>1, <1>2, <1>4, <1>5, <1>6, <1>9

LEMMA ReadEdgeType ==
  ASSUME TypeOK, ReadEdge
  PROVE  /\ rp_binary' \in {rp_binary, Succ(rp_binary)}
         /\ rp_binary' \in Pointer /\ rp_gray' = Gray[rp_binary']
         /\ empty' \in BOOLEAN /\ rdata' \in Data \cup {NoData}
         /\ rp_binary' # rp_binary => ~empty
         /\ (FlagsHold /\ ~empty') => WS # rp_binary'
<1>1. PICK pop \in BOOLEAN : (pop => ~empty) /\ Read(pop)
  BY DEF ReadEdge
<1>2. rp_binary \in Pointer /\ rp_gray = Gray[rp_binary] /\ Succ(rp_binary) \in Pointer
  BY SuccType DEF TypeOK
<1>3. rp_binary' = (IF pop THEN Succ(rp_binary) ELSE rp_binary)
  BY <1>1 DEF Read, rp_binary_next
<1>4. rp_gray' = (IF pop THEN Gray[Succ(rp_binary)] ELSE rp_gray)
  BY <1>1 DEF Read, rp_gray_next, rp_binary_next
<1>5. rdata' \in Data \cup {NoData}
  <2>1. Addr(rp_binary) \in Address
    BY <1>2, DepthAssumption DEF Pointer, Address, Addr
  <2> QED BY <2>1, <1>1 DEF Read, TypeOK
<1>6. empty' = (wp_sync_2r = rp_gray \/ (pop /\ wp_sync_2r = Gray[Succ(rp_binary)]))
  BY <1>1 DEF Read, EmptyByPop, rp_gray_next, rp_binary_next
<1>7. wp_sync_2r = Gray[WS] /\ WS \in Pointer
  BY PointerOfCode DEF TypeOK, WS
<1>8. \A p \in Pointer : wp_sync_2r = Gray[p] <=> WS = p
  BY <1>7, CodeOfPointer
<1>9. empty' \in BOOLEAN /\ (~empty' => WS # rp_binary')
  <2>1. CASE pop
    BY <2>1, <1>2, <1>3, <1>6, <1>8
  <2>2. CASE ~pop
    BY <2>2, <1>2, <1>3, <1>6, <1>8
  <2> QED BY <2>1, <2>2
<1> QED BY <1>1, <1>2, <1>3, <1>4, <1>5, <1>9

\* A synchronizer takes the other side's pointer before or after its step.
LEMMA SyncToWriteType ==
  ASSUME TypeOK, SyncToWrite,
         rp_binary' \in {rp_binary, Succ(rp_binary)}, rp_gray' = Gray[rp_binary']
  PROVE  /\ rp_meta' \in Codes /\ rp_sync_2w' \in Codes
         /\ RS' = RM /\ RM' \in {rp_binary, rp_binary'}
<1>1. rp_binary \in Pointer /\ rp_gray = Gray[rp_binary] /\ rp_meta \in Codes
  BY DEF TypeOK
<1>2. rp_meta' \in Sampled(Gray[rp_binary], Gray[rp_binary']) /\ rp_sync_2w' = rp_meta
  BY <1>1 DEF SyncToWrite
<1>3. rp_meta' \in Codes /\ Binary[rp_meta'] \in {rp_binary, rp_binary'}
  BY <1>1, <1>2, SampledPointer
<1> QED BY <1>1, <1>2, <1>3 DEF RS, RM

LEMMA SyncToReadType ==
  ASSUME TypeOK, SyncToRead,
         wp_binary' \in {wp_binary, Succ(wp_binary)}, wp_gray' = Gray[wp_binary']
  PROVE  /\ wp_meta' \in Codes /\ wp_sync_2r' \in Codes
         /\ WS' = WM /\ WM' \in {wp_binary, wp_binary'}
<1>1. wp_binary \in Pointer /\ wp_gray = Gray[wp_binary] /\ wp_meta \in Codes
  BY DEF TypeOK
<1>2. wp_meta' \in Sampled(Gray[wp_binary], Gray[wp_binary']) /\ wp_sync_2r' = wp_meta
  BY <1>1 DEF SyncToRead
<1>3. wp_meta' \in Codes /\ Binary[wp_meta'] \in {wp_binary, wp_binary'}
  BY <1>1, <1>2, SampledPointer
<1> QED BY <1>1, <1>2, <1>3 DEF WS, WM

LEMMA NextSteps ==
  ASSUME TypeOK, FlagsHold, [Next]_vars
  PROVE  TypeOK' /\ WriteSideSteps /\ ReadSideSteps
<1>1. CASE WriteClock
  <2> USE <1>1 DEF WriteClock, readVars, toRead
  <2>1. rp_binary' = rp_binary /\ rp_gray' = rp_gray /\ rp_gray' = Gray[rp_binary']
    BY DEF TypeOK
  <2>2. WriteSideSteps
    BY <2>1, WriteEdgeType, SyncToWriteType DEF WriteSideSteps
  <2>3. ReadSideSteps
    BY DEF ReadSideSteps, WS, WM
  <2>4. TypeOK'
    BY <2>1, WriteEdgeType, SyncToWriteType DEF TypeOK
  <2> QED BY <2>2, <2>3, <2>4
<1>2. CASE ReadClock
  <2> USE <1>2 DEF ReadClock, writeVars, toWrite
  <2>1. wp_binary' = wp_binary /\ wp_gray' = wp_gray /\ wp_gray' = Gray[wp_binary']
    BY DEF TypeOK
  <2>2. WriteSideSteps
    BY DEF WriteSideSteps, RS, RM
  <2>3. ReadSideSteps
    BY <2>1, ReadEdgeType, SyncToReadType DEF ReadSideSteps
  <2>4. TypeOK'
    BY <2>1, ReadEdgeType, SyncToReadType DEF TypeOK
  <2> QED BY <2>2, <2>3, <2>4
<1>3. CASE BothClocks
  <2> USE <1>3 DEF BothClocks
  <2>1. WriteSideSteps
    BY WriteEdgeType, ReadEdgeType, SyncToWriteType DEF WriteSideSteps
  <2>2. ReadSideSteps
    BY WriteEdgeType, ReadEdgeType, SyncToReadType DEF ReadSideSteps
  <2>3. TypeOK'
    BY WriteEdgeType, ReadEdgeType, SyncToWriteType, SyncToReadType DEF TypeOK
  <2> QED BY <2>1, <2>2, <2>3
<1>4. CASE UNCHANGED vars
  <2> USE <1>4 DEF vars, writeVars, readVars, toWrite, toRead
  <2> QED BY DEF TypeOK, WriteSideSteps, ReadSideSteps, RS, RM, WS, WM
<1> QED BY <1>1, <1>2, <1>3, <1>4 DEF Next

-----------------------------------------------------------------------------
(* The invariant.                                                            *)

\* PointersFollow is the two relations.
LEMMA PointersFollowIs ==
  PointersFollow <=> /\ WriterBehind(RS, RM, rp_binary, wp_binary)
                     /\ ReaderBehind(rp_binary, WS, WM, wp_binary)
BY DEF PointersFollow, WriterBehind, ReaderBehind, RS, RM, WS, WM, Count

LEMMA InitIInv == Init => IInv
<1> SUFFICES ASSUME Init PROVE IInv
  OBVIOUS
<1>1. 0 \in Pointer
  BY DepthAssumption DEF Pointer
<1>2. Gray[0] \in Codes /\ Binary[Gray[0]] = 0
  BY <1>1, CodeOfPointer
<1>3. TypeOK
  BY <1>1, <1>2 DEF Init, TypeOK
<1>4. RS = 0 /\ RM = 0 /\ WS = 0 /\ WM = 0 /\ rp_binary = 0 /\ wp_binary = 0
  BY <1>2 DEF Init, RS, RM, WS, WM
<1>5. Ahead(0, 0) = 0
  BY <1>1, AheadZero
<1>6. PointersFollow
  BY <1>4, <1>5, PointersFollowIs, DepthAssumption DEF WriterBehind, ReaderBehind
<1>7. FlagsHold
  BY <1>4, <1>5, DepthAssumption DEF FlagsHold, Init
<1> QED BY <1>3, <1>6, <1>7 DEF IInv

LEMMA NextIInv == IInv /\ [Next]_vars => IInv'
<1> SUFFICES ASSUME IInv, [Next]_vars PROVE IInv'
  OBVIOUS
<1>1. TypeOK' /\ WriteSideSteps /\ ReadSideSteps
  BY NextSteps DEF IInv
<1> DEFINE rp == rp_binary  rp2 == rp_binary'  wp == wp_binary  wp2 == wp_binary'
<1>2. /\ RS \in Pointer /\ RM \in Pointer /\ rp \in Pointer
      /\ WS \in Pointer /\ WM \in Pointer /\ wp \in Pointer
  BY PointerOfCode DEF IInv, TypeOK, RS, RM, WS, WM
<1>3. rp2 \in Pointer /\ wp2 \in Pointer
  BY <1>1 DEF TypeOK
<1>4. WriterBehind(RS, RM, rp, wp) /\ ReaderBehind(rp, WS, WM, wp)
  BY PointersFollowIs DEF IInv
<1>5. /\ rp2 \in {rp, Succ(rp)} /\ (rp2 # rp => WS # rp)
      /\ wp2 \in {wp, Succ(wp)} /\ (wp2 # wp => Ahead(RS, wp) # Depth)
  BY <1>1 DEF WriteSideSteps, ReadSideSteps, IInv, FlagsHold
<1> HIDE DEF rp, rp2, wp, wp2
<1>6. WriterBehind(RS, RM, rp2, wp2) /\ ReaderBehind(rp2, WS, WM, wp2)
  <2>1. PICK rs \in Pointer, rm \in Pointer, ws \in Pointer, wm \in Pointer :
               rs = RS /\ rm = RM /\ ws = WS /\ wm = WM
    BY <1>2
  <2>2. PICK a \in Pointer, b \in Pointer : a = rp /\ b = wp
    BY <1>2
  <2>3. PICK a2 \in {a, Succ(a)}, b2 \in {b, Succ(b)} : a2 = rp2 /\ b2 = wp2
    BY <1>5, <2>2
  <2>4. /\ WriterBehind(rs, rm, a, b) /\ ReaderBehind(a, ws, wm, b)
        /\ a2 # a => ws # a
        /\ b2 # b => Ahead(rs, b) # Depth
    BY <1>4, <1>5, <2>1, <2>2, <2>3
  <2>5. WriterBehind(rs, rm, a2, b2) /\ ReaderBehind(a2, ws, wm, b2)
    BY <2>4, PointersMove, SMTT(30)
  <2> QED
    BY <2>1, <2>3, <2>5
<1>7. /\ Ahead(RS, RM) \in Pointer /\ Ahead(RM, rp) \in Pointer /\ Ahead(rp, wp) \in Pointer
      /\ Ahead(rp, WS) \in Pointer /\ Ahead(WS, WM) \in Pointer /\ Ahead(WM, wp) \in Pointer
      /\ Ahead(RM, rp2) \in Pointer /\ Ahead(rp2, wp2) \in Pointer
  BY <1>2, <1>3, AheadType
<1>8. Ahead(RM, rp) < Depth \/ rp2 = rp
  <2>1. rp2 # rp => Ahead(rp, WS) > 0
    BY <1>2, <1>5, <1>7, AheadZero DEF Pointer
  <2> QED BY <2>1, <1>4, <1>7, DepthAssumption DEF Pointer, WriterBehind, ReaderBehind
<1>9. Ahead(WM, wp) < Depth \/ wp2 = wp
  <2>1. Ahead(RS, rp) = Ahead(RS, RM) + Ahead(RM, rp)
    BY <1>2, <1>4, <1>7, AheadSum, DepthAssumption DEF Pointer, WriterBehind
  <2>2. Ahead(RS, wp) = Ahead(RS, RM) + Ahead(RM, rp) + Ahead(rp, wp)
    BY <2>1, <1>2, <1>4, <1>7, AheadSum, DepthAssumption DEF Pointer, WriterBehind
  <2> QED BY <2>2, <1>4, <1>5, <1>7, DepthAssumption DEF Pointer, WriterBehind, ReaderBehind
<1>10. Ahead(rp2, wp2) <= Depth
  BY <1>6, <1>2, <1>3, <1>7, DepthAssumption DEF Pointer, WriterBehind
<1>11. /\ WriterBehind(RS', RM', rp2, wp2)
       /\ ~full' => Ahead(RS', wp2) # Depth
  <2>1. CASE RS' = RS /\ RM' = RM /\ full' = full /\ wp2 = wp
    BY <2>1, <1>6 DEF IInv, FlagsHold, wp
  <2>2. CASE /\ RS' = RM /\ RM' \in {rp, rp2}
             /\ ~full' => Ahead(RS, wp2) # Depth
    BY <2>2, <1>2, <1>3, <1>5, <1>6, <1>8, WriterSees
  <2> QED BY <1>1, <2>1, <2>2 DEF WriteSideSteps, rp, rp2, wp, wp2
<1>12. /\ ReaderBehind(rp2, WS', WM', wp2)
       /\ ~empty' => WS' # rp2
  <2>1. CASE WS' = WS /\ WM' = WM /\ empty' = empty /\ rp2 = rp
    BY <2>1, <1>6 DEF IInv, FlagsHold, rp
  <2>2. CASE /\ WS' = WM /\ WM' \in {wp, wp2}
             /\ ~empty' => WS # rp2
    BY <2>2, <1>2, <1>3, <1>5, <1>6, <1>9, <1>10, ReaderSees
  <2> QED BY <1>1, <2>1, <2>2 DEF ReadSideSteps, rp, rp2, wp, wp2
<1>13. PointersFollow'
  BY <1>11, <1>12 DEF PointersFollow, WriterBehind, ReaderBehind, RS, RM, WS, WM, Count, rp2, wp2
<1>14. FlagsHold'
  BY <1>11, <1>12 DEF FlagsHold, rp2, wp2
<1> QED BY <1>1, <1>13, <1>14 DEF IInv

\* What the flags say of the number of words inside.
LEMMA IInvFlags == IInv => NoOverflow /\ NoUnderflow
<1> SUFFICES ASSUME IInv PROVE NoOverflow /\ NoUnderflow
  OBVIOUS
<1>1. /\ RS \in Pointer /\ RM \in Pointer /\ rp_binary \in Pointer
      /\ WS \in Pointer /\ WM \in Pointer /\ wp_binary \in Pointer
  BY PointerOfCode DEF IInv, TypeOK, RS, RM, WS, WM
<1>2. WriterBehind(RS, RM, rp_binary, wp_binary) /\ ReaderBehind(rp_binary, WS, WM, wp_binary)
  BY PointersFollowIs DEF IInv
<1>3. /\ Ahead(RS, RM) \in Pointer /\ Ahead(RM, rp_binary) \in Pointer /\ Count \in Pointer
      /\ Ahead(rp_binary, WS) \in Pointer /\ Ahead(WS, WM) \in Pointer /\ Ahead(WM, wp_binary) \in Pointer
  BY <1>1, AheadType DEF Count
<1>4. Ahead(RS, rp_binary) = Ahead(RS, RM) + Ahead(RM, rp_binary)
  BY <1>1, <1>2, <1>3, AheadSum, DepthAssumption DEF Pointer, WriterBehind, Count
<1>5. Ahead(RS, wp_binary) = Ahead(RS, RM) + Ahead(RM, rp_binary) + Count
  BY <1>1, <1>2, <1>3, <1>4, AheadSum, DepthAssumption DEF Pointer, WriterBehind, Count
<1>6. NoOverflow
  BY <1>2, <1>3, <1>5, DepthAssumption DEF IInv, FlagsHold, NoOverflow, WriterBehind, Pointer, Count
<1>7. ~empty => Ahead(rp_binary, WS) > 0
  BY <1>1, <1>3, AheadZero DEF IInv, FlagsHold, Pointer
<1>8. NoUnderflow
  BY <1>2, <1>3, <1>7, DepthAssumption DEF NoUnderflow, ReaderBehind, Pointer, Count
<1> QED BY <1>6, <1>8

LEMMA Invariance == Spec => []IInv
BY InitIInv, NextIInv, PTL DEF Spec

\* The FIFO keeps its type: in particular each Gray register is the code of its
\* binary pointer, and every register of a synchronizer holds the code of some
\* pointer whenever it was sampled.
THEOREM TypeCorrect == Spec => []TypeOK
<1>1. IInv => TypeOK
  BY DEF IInv
<1> QED BY <1>1, Invariance, PTL

\* However the clocks run, no word is written over before it is read and none is
\* read before it is written.
THEOREM FlagsAreSafe == Spec => [](NoOverflow /\ NoUnderflow)
BY IInvFlags, Invariance, PTL

\* What a side sees of the other's pointer never overtakes it or falls back.
THEOREM SynchronizersFollow == Spec => []PointersFollow
<1>1. IInv => PointersFollow
  BY DEF IInv
<1> QED BY <1>1, Invariance, PTL

-----------------------------------------------------------------------------
(* The words between two pointers, as a queue.                               *)

QueueOf(m, rp, wp) == [k \in 1..Ahead(rp, wp) |-> m[Addr(Plus(rp, k - 1))]]

Word == Data \cup {NoData}

LEMMA PlusType ==
  \A p \in Pointer : \A k \in 0..(2 * Depth - 1) :
    /\ Plus(p, k) \in Pointer
    /\ Addr(Plus(p, k)) \in Address
BY DepthAssumption DEF Pointer, Address, Plus, Addr

LEMMA QueueType ==
  ASSUME NEW m \in [Address -> Word], NEW rp \in Pointer, NEW wp \in Pointer
  PROVE  /\ QueueOf(m, rp, wp) \in Seq(Word)
         /\ Len(QueueOf(m, rp, wp)) = Ahead(rp, wp)
         /\ \A k \in 1..Ahead(rp, wp) : QueueOf(m, rp, wp)[k] = m[Addr(Plus(rp, k - 1))]
<1>1. Ahead(rp, wp) \in 0..(2 * Depth - 1) /\ Ahead(rp, wp) \in Nat
  BY AheadType DEF Pointer
<1>2. \A k \in 1..Ahead(rp, wp) : k - 1 \in 0..(2 * Depth - 1)
  BY <1>1, DepthAssumption
<1>3. \A k \in 1..Ahead(rp, wp) : m[Addr(Plus(rp, k - 1))] \in Word
  BY <1>2, PlusType
<1>4. QueueOf(m, rp, wp) \in [1..Ahead(rp, wp) -> Word]
  BY <1>3 DEF QueueOf
<1>5. QueueOf(m, rp, wp) \in Seq(Word)
  BY <1>1, <1>4, SeqDef
<1>6. Len(QueueOf(m, rp, wp)) = Ahead(rp, wp)
  BY <1>1, <1>4, <1>5, LenProperties
<1> QED BY <1>5, <1>6 DEF QueueOf

\* A word written at the write pointer goes to the end of the queue.
LEMMA QueuePush ==
  ASSUME NEW m \in [Address -> Word], NEW rp \in Pointer, NEW wp \in Pointer,
         NEW d \in Word, Ahead(rp, wp) < Depth
  PROVE  QueueOf([m EXCEPT ![Addr(wp)] = d], rp, Succ(wp)) = QueueOf(m, rp, wp) \o <<d>>
<1> DEFINE n == Ahead(rp, wp)
           m2 == [m EXCEPT ![Addr(wp)] = d]
           q == QueueOf(m, rp, wp)
           q2 == QueueOf(m2, rp, Succ(wp))
<1>1. m2 \in [Address -> Word] /\ Succ(wp) \in Pointer
  BY SuccType
<1>2. n \in Nat /\ Ahead(rp, Succ(wp)) = n + 1
  BY AheadType, AheadSucc, DepthAssumption DEF Pointer
<1>3. Plus(rp, n) = wp
  BY DepthAssumption DEF Plus, Ahead, Pointer
<1>4. \A k \in 1..n : Addr(Plus(rp, k - 1)) # Addr(wp) /\ Addr(Plus(rp, k - 1)) \in Address
  BY <1>2, DepthAssumption DEF Plus, Ahead, Addr, Pointer, Address
<1>5. Addr(wp) \in Address
  BY DepthAssumption DEF Addr, Pointer, Address
<1>6. /\ q \in Seq(Word) /\ Len(q) = n
      /\ \A k \in 1..n : q[k] = m[Addr(Plus(rp, k - 1))]
  BY QueueType
<1>7. /\ q2 \in Seq(Word) /\ Len(q2) = n + 1
      /\ \A k \in 1..(n + 1) : q2[k] = m2[Addr(Plus(rp, k - 1))]
  <2> HIDE DEF m2
  <2>1. /\ q2 \in Seq(Word) /\ Len(q2) = Ahead(rp, Succ(wp))
        /\ \A k \in 1..Ahead(rp, Succ(wp)) : q2[k] = m2[Addr(Plus(rp, k - 1))]
    BY <1>1, QueueType
  <2> HIDE DEF q2, n
  <2> QED BY <1>2, <2>1
<1>8. \A k \in 1..n : q2[k] = q[k]
  <2> SUFFICES ASSUME NEW k \in 1..n PROVE q2[k] = q[k]
    OBVIOUS
  <2>1. k \in 1..(n + 1)
    BY <1>2
  <2>2. m2[Addr(Plus(rp, k - 1))] = m[Addr(Plus(rp, k - 1))]
    BY <1>4
  <2> HIDE DEF q, q2, m2, n
  <2> QED BY <2>1, <2>2, <1>6, <1>7
<1>9. q2[n + 1] = d
  <2>1. n + 1 \in 1..(n + 1) /\ (n + 1) - 1 = n
    BY <1>2
  <2>2. m2[Addr(wp)] = d
    BY <1>5
  <2> HIDE DEF q2, m2, n
  <2> QED BY <2>1, <2>2, <1>3, <1>7
<1> HIDE DEF q, q2, m2, n
<1>10. <<d>> \in Seq(Word) /\ Len(<<d>>) = 1 /\ <<d>>[1] = d
  OBVIOUS
<1>11. /\ q \o <<d>> \in Seq(Word) /\ Len(q \o <<d>>) = n + 1
       /\ \A k \in 1..(n + 1) : (q \o <<d>>)[k] = IF k <= n THEN q[k] ELSE <<d>>[k - n]
  BY <1>6, <1>10, ConcatProperties
<1>12. \A k \in 1..(n + 1) : q2[k] = (q \o <<d>>)[k]
  <2> SUFFICES ASSUME NEW k \in 1..(n + 1) PROVE q2[k] = (q \o <<d>>)[k]
    OBVIOUS
  <2>1. CASE k <= n
    <3>1. k \in 1..n
      BY <2>1, <1>2
    <3>2. (q \o <<d>>)[k] = q[k]
      BY <2>1, <1>11
    <3> QED BY <3>1, <3>2, <1>8
  <2>2. CASE k = n + 1
    <3>1. k - n = 1 /\ ~(k <= n)
      BY <2>2, <1>2
    <3>2. (q \o <<d>>)[k] = <<d>>[k - n]
      BY <3>1, <1>11
    <3>3. (q \o <<d>>)[k] = d
      BY <3>1, <3>2, <1>10
    <3> QED BY <3>3, <2>2, <1>9
  <2>3. k <= n \/ k = n + 1
    BY <1>2
  <2> QED BY <2>1, <2>2, <2>3
<1>13. q2 = q \o <<d>>
  BY <1>7, <1>11, <1>12, SeqEqual
<1> QED BY <1>13 DEF q, q2, m2

\* The word at the read pointer is the head of the queue, and the queue without it
\* begins at the next place.
LEMMA QueuePop ==
  ASSUME NEW m \in [Address -> Word], NEW rp \in Pointer, NEW wp \in Pointer,
         Ahead(rp, wp) > 0
  PROVE  /\ QueueOf(m, rp, wp) # <<>>
         /\ Head(QueueOf(m, rp, wp)) = m[Addr(rp)]
         /\ QueueOf(m, Succ(rp), wp) = Tail(QueueOf(m, rp, wp))
<1> DEFINE n == Ahead(rp, wp)
           q == QueueOf(m, rp, wp)
           q2 == QueueOf(m, Succ(rp), wp)
<1>1. Succ(rp) \in Pointer
  BY SuccType
<1>2. n \in Nat \ {0} /\ Ahead(Succ(rp), wp) = n - 1
  <2>1. n \in Pointer /\ n > 0
    BY AheadType
  <2>2. Ahead(Succ(rp), wp) = IF n = 0 THEN 2 * Depth - 1 ELSE n - 1
    BY AheadOfSucc
  <2> HIDE DEF n
  <2> QED BY <2>1, <2>2, DepthAssumption DEF Pointer
<1>3. \A k \in 1..(n - 1) : Plus(Succ(rp), k - 1) = Plus(rp, (k + 1) - 1)
  BY <1>2, DepthAssumption DEF Plus, Succ, Ahead, Pointer
<1>4. Plus(rp, 1 - 1) = rp
  BY DepthAssumption DEF Plus, Pointer
<1>5. /\ q \in Seq(Word) /\ Len(q) = n
      /\ \A k \in 1..n : q[k] = m[Addr(Plus(rp, k - 1))]
  BY QueueType
<1>6. /\ q2 \in Seq(Word) /\ Len(q2) = n - 1
      /\ \A k \in 1..(n - 1) : q2[k] = m[Addr(Plus(Succ(rp), k - 1))]
  <2>1. /\ q2 \in Seq(Word) /\ Len(q2) = Ahead(Succ(rp), wp)
        /\ \A k \in 1..Ahead(Succ(rp), wp) : q2[k] = m[Addr(Plus(Succ(rp), k - 1))]
    BY <1>1, QueueType
  <2> HIDE DEF q2, n
  <2> QED BY <1>2, <2>1
<1> HIDE DEF q, q2, n
<1>7. q # <<>>
  BY <1>2, <1>5, EmptySeq
<1>8. Head(q) = q[1] /\ q[1] = m[Addr(rp)]
  BY <1>2, <1>4, <1>5
<1>9. /\ Tail(q) \in Seq(Word) /\ Len(Tail(q)) = n - 1
      /\ \A k \in 1..(n - 1) : Tail(q)[k] = q[k + 1]
  BY <1>5, <1>7, HeadTailProperties
<1>10. \A k \in 1..(n - 1) : q2[k] = Tail(q)[k]
  <2> SUFFICES ASSUME NEW k \in 1..(n - 1) PROVE q2[k] = Tail(q)[k]
    OBVIOUS
  <2>1. k + 1 \in 1..n
    BY <1>2
  <2>2. q[k + 1] = m[Addr(Plus(rp, (k + 1) - 1))]
    BY <2>1, <1>5
  <2> QED BY <2>2, <1>3, <1>6, <1>9
<1>11. q2 = Tail(q)
  BY <1>6, <1>9, <1>10, SeqEqual
<1> QED BY <1>7, <1>8, <1>11 DEF q, q2

-----------------------------------------------------------------------------
(* The refinement.                                                           *)

Queue == QueueOf(mem, rp_binary, wp_binary)

\* An edge of the write clock, with the queue from any read pointer.
LEMMA WriteEdgeQueue ==
  ASSUME TypeOK, NoOverflow, WriteEdge,
         NEW rp \in Pointer, Ahead(rp, wp_binary) <= Count
  PROVE  \E in \in Fifo!Entering :
           QueueOf(mem', rp, wp_binary') = QueueOf(mem, rp, wp_binary) \o in
<1>1. PICK push \in BOOLEAN, wdata \in Data : (push => ~full) /\ Write(push, wdata)
  BY DEF WriteEdge
<1>2. wp_binary \in Pointer /\ rp_binary \in Pointer /\ mem \in [Address -> Word]
  BY DEF TypeOK, Word
<1>3. CASE push
  <2>1. /\ wp_binary' = Succ(wp_binary)
        /\ mem' = [mem EXCEPT ![Addr(wp_binary)] = wdata]
    BY <1>1, <1>3 DEF Write, wp_binary_next, WriteAddress
  <2>2. Count < Depth
    BY <1>1, <1>3 DEF NoOverflow
  <2>3. Ahead(rp, wp_binary) < Depth
    BY <2>2, <1>2, AheadType, DepthAssumption DEF Count, Pointer
  <2>4. QueueOf(mem', rp, wp_binary') = QueueOf(mem, rp, wp_binary) \o <<wdata>>
    <3>1. PICK m \in [Address -> Word], wp \in Pointer : m = mem /\ wp = wp_binary
      BY <1>2
    <3>2. wdata \in Word /\ Ahead(rp, wp) < Depth
      BY <2>3, <3>1 DEF Word
    <3>3. QueueOf([m EXCEPT ![Addr(wp)] = wdata], rp, Succ(wp)) = QueueOf(m, rp, wp) \o <<wdata>>
      BY <3>2, QueuePush
    <3>4. mem' = [m EXCEPT ![Addr(wp)] = wdata] /\ wp_binary' = Succ(wp)
      BY <2>1, <3>1
    <3> QED
      BY <3>1, <3>3, <3>4
  <2>5. Len(Queue) = Count
    BY <1>2, QueueType DEF Queue, Count
  <2>6. <<wdata>> \in Fifo!Entering
    BY <2>2, <2>5 DEF Fifo!Entering, Queue, QueueOf, Count
  <2> QED BY <2>4, <2>6
<1>4. CASE ~push
  <2>1. wp_binary' = wp_binary /\ mem' = mem
    BY <1>1, <1>4 DEF Write
  <2>2. QueueOf(mem, rp, wp_binary) \in Seq(Word)
    BY <1>2, QueueType
  <2>3. QueueOf(mem', rp, wp_binary') = QueueOf(mem, rp, wp_binary) \o <<>>
    BY <2>1, <2>2, ConcatEmptySeq
  <2>4. <<>> \in Fifo!Entering
    BY DEF Fifo!Entering
  <2> QED BY <2>3, <2>4
<1> QED BY <1>3, <1>4

\* An edge of the read clock, with the queue up to the present write pointer.
LEMMA ReadEdgeQueue ==
  ASSUME TypeOK, NoUnderflow, ReadEdge
  PROVE  \/ rp_binary' = rp_binary /\ rdata' = rdata
         \/ /\ rp_binary' = Succ(rp_binary)
            /\ Queue # <<>>
            /\ rdata' = Head(Queue)
            /\ QueueOf(mem, rp_binary', wp_binary) = Tail(Queue)
            /\ Count > 0
<1>1. PICK pop \in BOOLEAN : (pop => ~empty) /\ Read(pop)
  BY DEF ReadEdge
<1>2. wp_binary \in Pointer /\ rp_binary \in Pointer /\ mem \in [Address -> Word]
  BY DEF TypeOK, Word
<1>3. CASE pop
  <2>1. rp_binary' = Succ(rp_binary) /\ rdata' = mem[Addr(rp_binary)]
    BY <1>1, <1>3 DEF Read, rp_binary_next
  <2>2. Count > 0
    BY <1>1, <1>3 DEF NoUnderflow
  <2>3. /\ Queue # <<>>
        /\ Head(Queue) = mem[Addr(rp_binary)]
        /\ QueueOf(mem, Succ(rp_binary), wp_binary) = Tail(Queue)
    BY <1>2, <2>2, QueuePop DEF Queue, Count
  <2> QED BY <2>1, <2>2, <2>3
<1>4. CASE ~pop
  BY <1>1, <1>4 DEF Read
<1> QED BY <1>3, <1>4

LEMMA InitQueue == Init => Fifo!Init
<1> SUFFICES ASSUME Init PROVE Fifo!Init
  OBVIOUS
<1>1. Count = 0
  BY DepthAssumption DEF Init, Count, Ahead
<1>2. Queue = [k \in 1..0 |-> mem[Addr(Plus(rp_binary, k - 1))]]
  BY <1>1 DEF Queue, QueueOf, Count
<1>3. Queue = <<>>
  BY <1>2
<1> QED BY <1>3 DEF Fifo!Init, Init, Queue, QueueOf, Count

LEMMA NextQueue ==
  ASSUME IInv, [Next]_vars
  PROVE  [Fifo!Step]_(Fifo!vars)
<1>1. NoOverflow /\ NoUnderflow /\ TypeOK
  BY IInvFlags DEF IInv
<1>2. wp_binary \in Pointer /\ rp_binary \in Pointer /\ mem \in [Address -> Word]
  BY <1>1 DEF TypeOK, Word
<1>3. Queue \in Seq(Word) /\ Count \in Nat
  <2>1. Queue \in Seq(Word)
    BY <1>2, QueueType DEF Queue
  <2>2. Count \in Pointer
    BY <1>2, AheadType DEF Count
  <2> QED BY <2>1, <2>2, DepthAssumption DEF Pointer
\* The abstract step, of the queue by its name here.
<1>4. SUFFICES \/ Queue' = Queue /\ rdata' = rdata
               \/ \E in \in Fifo!Entering :
                    \/ Queue' = Queue \o in /\ rdata' = rdata
                    \/ /\ Queue # <<>>
                       /\ rdata' = Head(Queue)
                       /\ Queue' = Tail(Queue) \o in
  BY DEF Fifo!Step, Fifo!vars, Queue, QueueOf, Count
<1>5. CASE WriteClock
  <2>1. WriteEdge /\ rp_binary' = rp_binary /\ rdata' = rdata
    BY <1>5 DEF WriteClock, readVars
  <2>2. Ahead(rp_binary, wp_binary) <= Count
    BY <1>3 DEF Count
  <2>3. PICK in \in Fifo!Entering :
          QueueOf(mem', rp_binary, wp_binary') = QueueOf(mem, rp_binary, wp_binary) \o in
    BY <1>1, <1>2, <2>1, <2>2, WriteEdgeQueue
  <2>4. Queue' = Queue \o in
    BY <2>1, <2>3 DEF Queue
  <2> QED BY <2>1, <2>4
<1>6. CASE ReadClock
  <2>1. ReadEdge /\ wp_binary' = wp_binary /\ mem' = mem
    BY <1>6 DEF ReadClock, writeVars
  <2>2. CASE rp_binary' = rp_binary /\ rdata' = rdata
    <3>1. Queue' = Queue
      BY <2>1, <2>2 DEF Queue
    <3> QED BY <3>1, <2>2
  <2>3. CASE /\ Queue # <<>> /\ rdata' = Head(Queue)
             /\ QueueOf(mem, rp_binary', wp_binary) = Tail(Queue)
    <3>1. Queue' = Tail(Queue)
      BY <2>1, <2>3 DEF Queue
    <3>2. Tail(Queue) \o <<>> = Tail(Queue)
      BY <1>3, <2>3, HeadTailProperties, ConcatEmptySeq
    <3>3. <<>> \in Fifo!Entering
      BY DEF Fifo!Entering
    <3> QED BY <3>1, <3>2, <3>3, <2>3
  <2> QED BY <1>1, <2>1, <2>2, <2>3, ReadEdgeQueue
<1>7. CASE BothClocks
  <2>1. WriteEdge /\ ReadEdge
    BY <1>7 DEF BothClocks
  <2>2. CASE rp_binary' = rp_binary /\ rdata' = rdata
    <3>1. Ahead(rp_binary, wp_binary) <= Count
      BY <1>3 DEF Count
    <3>2. PICK in \in Fifo!Entering :
            QueueOf(mem', rp_binary, wp_binary') = QueueOf(mem, rp_binary, wp_binary) \o in
      BY <1>1, <1>2, <2>1, <3>1, WriteEdgeQueue
    <3>3. Queue' = Queue \o in
      BY <2>2, <3>2 DEF Queue
    <3> QED BY <2>2, <3>3
  <2>3. CASE /\ rp_binary' = Succ(rp_binary) /\ Count > 0
             /\ Queue # <<>> /\ rdata' = Head(Queue)
             /\ QueueOf(mem, rp_binary', wp_binary) = Tail(Queue)
    <3>1. rp_binary' \in Pointer
      BY <1>2, <2>3, SuccType
    <3>2. Ahead(rp_binary', wp_binary) <= Count
      BY <1>2, <1>3, <2>3, AheadOfSucc DEF Count
    <3>3. PICK in \in Fifo!Entering :
            QueueOf(mem', rp_binary', wp_binary') = QueueOf(mem, rp_binary', wp_binary) \o in
      BY <1>1, <2>1, <3>1, <3>2, WriteEdgeQueue
    <3>4. Queue' = Tail(Queue) \o in
      BY <2>3, <3>3 DEF Queue
    <3> QED BY <2>3, <3>4
  <2> QED BY <1>1, <2>1, <2>2, <2>3, ReadEdgeQueue
<1>8. CASE UNCHANGED vars
  BY <1>8 DEF vars, writeVars, readVars, Queue, QueueOf
<1> QED BY <1>5, <1>6, <1>7, <1>8 DEF Next

\* For every depth and every speed of the clocks the circuit is a FIFO of that
\* depth: each word that is pushed comes out once, in order, and unchanged.
THEOREM Refinement == Spec => ImplementsBoundedFifo
<1>1. Init => Fifo!Init
  BY InitQueue
<1>2. IInv /\ [Next]_vars => [Fifo!Step]_(Fifo!vars)
  BY NextQueue
<1> QED BY <1>1, <1>2, Invariance, PTL DEF Spec, Fifo!Spec, ImplementsBoundedFifo

-----------------------------------------------------------------------------
(* The code of the circuit, for words of any width: induction along its      *)
(* bits, the numbers something holds of being given as a set.                *)

\* Every set of numbers has a least one.
LEMMA LeastNumber ==
  ASSUME NEW T, T \subseteq Nat, T # {}
  PROVE  \E m \in T : \A k \in T : m <= k
<1>1. PICK m \in T : \A k \in T : <<k, m>> \notin OpToRel(<, Nat)
  BY NatLessThanWellFounded, WFMin
<1>2. ASSUME NEW k \in T
      PROVE  m <= k
  <2>1. k \in Nat /\ m \in Nat
    OBVIOUS
  <2>2. ~(k < m)
    BY <1>1, <2>1, Zenon DEF OpToRel
  <2> QED BY <2>1, <2>2
<1> QED BY <1>2

\* What holds at 0 and from each number below n to the next holds of all up to n.
LEMMA InductionTo ==
  ASSUME NEW n \in Nat, NEW S, 0 \in S, \A k \in 1..n : k - 1 \in S => k \in S
  PROVE  0..n \subseteq S
<1> DEFINE T == (0..n) \ S
<1>1. SUFFICES ASSUME T # {} PROVE FALSE
  OBVIOUS
<1>2. PICK m \in T : \A k \in T : m <= k
  <2>1. T \subseteq Nat
    OBVIOUS
  <2> HIDE DEF T
  <2> QED BY <1>1, <2>1, LeastNumber
<1>3. m \in 1..n
  OBVIOUS
<1>4. m - 1 \in 0..n /\ m - 1 \notin T
  BY <1>2, <1>3
<1> QED BY <1>3, <1>4

\* f[k] is a after k applications of h.
Applied(f, a, n, h) ==
  f \in [0..n -> Nat] /\ f[0] = a /\ \A k \in 1..n : f[k] = h[f[k - 1]]

LEMMA AppliedExists ==
  ASSUME NEW a \in Nat, NEW n \in Nat, NEW h \in [Nat -> Nat]
  PROVE  \E f : Applied(f, a, n, h)
<1> DEFINE R == {m \in 0..n : \E f : Applied(f, a, m, h)}
<1>1. 0 \in R
  <2>1. Applied([k \in 0..0 |-> a], a, 0, h)
    BY DEF Applied
  <2> QED BY <2>1
<1>2. ASSUME NEW m \in 1..n, m - 1 \in R
      PROVE  m \in R
  <2>1. PICK f : Applied(f, a, m - 1, h)
    BY <1>2
  <2> DEFINE g == [k \in 0..m |-> IF k = m THEN h[f[m - 1]] ELSE f[k]]
  <2>2. m - 1 \in 0..m - 1 /\ f[m - 1] \in Nat
    BY <2>1 DEF Applied
  <2>3. g \in [0..m -> Nat] /\ g[0] = a
    <3>1. h[f[m - 1]] \in Nat
      BY <2>2
    <3>2. f \in [0..m - 1 -> Nat] /\ f[0] = a
      BY <2>1 DEF Applied
    <3>3. \A k \in 0..m : k = m \/ k \in 0..m - 1
      OBVIOUS
    <3>4. 0 \in 0..m /\ 0 # m
      OBVIOUS
    <3> QED BY <3>1, <3>2, <3>3, <3>4
  <2>4. ASSUME NEW k \in 1..m
        PROVE  g[k] = h[g[k - 1]]
    <3>1. CASE k = m
      BY <3>1
    <3>2. CASE k # m
      <4>1. k \in 1..m - 1 /\ k - 1 \in 0..m - 1 /\ k - 1 # m
        BY <3>2
      <4>2. f[k] = h[f[k - 1]]
        BY <2>1, <4>1 DEF Applied
      <4>3. g[k] = f[k] /\ g[k - 1] = f[k - 1]
        BY <3>2, <4>1
      <4> QED BY <4>2, <4>3
    <3> QED BY <3>1, <3>2
  <2> HIDE DEF g
  <2>5. Applied(g, a, m, h)
    BY <2>3, <2>4 DEF Applied
  <2> QED BY <2>5
<1> HIDE DEF R
<1>3. 0..n \subseteq R
  BY <1>1, <1>2, InductionTo
<1> QED BY <1>3 DEF R

LEMMA PowersAre ==
  ASSUME NEW n \in Nat
  PROVE  /\ Powers(n) \in [0..n -> Nat] /\ Powers(n)[0] = 1
         /\ \A i \in 1..n : Powers(n)[i] = 2 * Powers(n)[i - 1]
<1> DEFINE h == [x \in Nat |-> 2 * x]
           Is(f) == f = [i \in 0..n |-> IF i = 0 THEN 1 ELSE 2 * f[i - 1]]
           p == CHOOSE f : Is(f)
<1>1. PICK f : Applied(f, 1, n, h)
  <2>1. h \in [Nat -> Nat]
    OBVIOUS
  <2> HIDE DEF h
  <2> QED BY <2>1, AppliedExists
<1>2. f \in [0..n -> Nat] /\ f[0] = 1
  BY <1>1 DEF Applied
<1>3. ASSUME NEW i \in 1..n
      PROVE  f[i] = 2 * f[i - 1]
  <2>1. f[i] = h[f[i - 1]]
    <3> HIDE DEF h
    <3> QED BY <1>1 DEF Applied
  <2>2. f[i - 1] \in Nat
    BY <1>2
  <2> QED BY <2>1, <2>2
<1>4. Is(f)
  BY <1>2, <1>3
<1>5. Is(p)
  <2> HIDE DEF Is
  <2> QED BY <1>4
<1>6. p = Powers(n)
  BY DEF p, Powers
<1> HIDE DEF p
<1>7. DOMAIN p = 0..n /\ p[0] = 1 /\ \A i \in 1..n : p[i] = 2 * p[i - 1]
  BY <1>5
<1> DEFINE T == {i \in 0..n : p[i] \in Nat}
<1>8. 0..n \subseteq T
  <2>1. 0 \in T
    BY <1>7
  <2>2. ASSUME NEW i \in 1..n, i - 1 \in T
        PROVE  i \in T
    BY <1>7, <2>2
  <2> HIDE DEF T
  <2> QED BY <2>1, <2>2, InductionTo
<1>9. p \in [0..n -> Nat]
  BY <1>5, <1>8
<1> QED BY <1>6, <1>7, <1>9

LEMMA ShiftsAre ==
  ASSUME NEW AW \in Nat, NEW word \in Nat
  PROVE  /\ Shifts(AW, word) \in [0..AW + 1 -> Nat] /\ Shifts(AW, word)[0] = word
         /\ \A i \in 0..AW : Shifts(AW, word)[i + 1] = Shifts(AW, word)[i] \div 2
<1> DEFINE n == AW + 1
           h == [x \in Nat |-> x \div 2]
           Is(f) == f = [i \in 0..n |-> IF i = 0 THEN word ELSE f[i - 1] \div 2]
           s == CHOOSE f : Is(f)
<1>1. PICK f : Applied(f, word, n, h)
  <2>1. h \in [Nat -> Nat] /\ n \in Nat
    OBVIOUS
  <2> HIDE DEF h, n
  <2> QED BY <2>1, AppliedExists
<1>2. f \in [0..n -> Nat] /\ f[0] = word
  BY <1>1 DEF Applied
<1>3. ASSUME NEW i \in 1..n
      PROVE  f[i] = f[i - 1] \div 2
  <2>1. f[i] = h[f[i - 1]]
    <3> HIDE DEF h
    <3> QED BY <1>1 DEF Applied
  <2>2. f[i - 1] \in Nat
    BY <1>2
  <2> QED BY <2>1, <2>2
<1>4. Is(f)
  BY <1>2, <1>3
<1>5. Is(s)
  <2> HIDE DEF Is
  <2> QED BY <1>4
<1>6. s = Shifts(AW, word)
  BY DEF s, Shifts
<1> HIDE DEF s
<1>7. s[0] = word /\ \A i \in 1..n : s[i] = s[i - 1] \div 2
  BY <1>5
<1> DEFINE T == {i \in 0..n : s[i] \in Nat}
<1>8. 0..n \subseteq T
  <2>1. 0 \in T
    BY <1>7
  <2>2. ASSUME NEW i \in 1..n, i - 1 \in T
        PROVE  i \in T
    BY <1>7, <2>2
  <2>3. n \in Nat
    OBVIOUS
  <2> HIDE DEF T, n
  <2> QED BY <2>1, <2>2, <2>3, InductionTo
<1>9. s \in [0..n -> Nat]
  BY <1>5, <1>8
<1>10. \A i \in 0..AW : s[i + 1] = s[i] \div 2
  BY <1>7
<1> QED BY <1>6, <1>7, <1>9, <1>10

\* Nothing is left of a pointer behind its AW+1 bits.
LEMMA PointerHasBits ==
  ASSUME NEW AW \in Nat, NEW word \in Nat, word < 2 * Powers(AW)[AW]
  PROVE  Shifts(AW, word)[AW + 1] = 0
<1> DEFINE s == Shifts(AW, word)
           p == Powers(AW)
           T == {i \in 0..AW : s[i] < 2 * p[AW - i]}
<1>1. /\ s \in [0..AW + 1 -> Nat] /\ s[0] = word
      /\ \A i \in 0..AW : s[i + 1] = s[i] \div 2
  BY ShiftsAre
<1>2. p \in [0..AW -> Nat] /\ p[0] = 1 /\ \A i \in 1..AW : p[i] = 2 * p[i - 1]
  BY PowersAre
<1> HIDE DEF s, p
<1>3. 0..AW \subseteq T
  <2>1. 0 \in T
    BY <1>1 DEF p
  <2>2. ASSUME NEW i \in 1..AW, i - 1 \in T
        PROVE  i \in T
    <3> DEFINE x == s[i - 1]
               y == p[AW - i]
    <3>0. i - 1 \in 0..AW /\ i - 1 \in 0..AW + 1 /\ i - 1 + 1 = i /\ AW - i \in 0..AW
      OBVIOUS
    <3>1. x \in Nat /\ y \in Nat /\ s[i] = x \div 2
      BY <1>1, <1>2, <3>0
    <3>2. AW - (i - 1) \in 1..AW /\ AW - (i - 1) - 1 = AW - i
      OBVIOUS
    <3>3. p[AW - (i - 1)] = 2 * y
      BY <1>2, <3>2
    <3>4. x < 2 * (2 * y)
      BY <2>2, <3>3
    <3> HIDE DEF x, y
    <3>5. x \div 2 < 2 * y
      BY <3>1, <3>4
    <3> QED BY <3>1, <3>5 DEF y
  <2> HIDE DEF T
  <2> QED BY <2>1, <2>2, InductionTo
<1>4. s[AW] < 2 * p[0] /\ s[AW] \in Nat
  BY <1>1, <1>3
<1>5. s[AW] \div 2 = 0
  <2>1. s[AW] < 2
    BY <1>2, <1>4
  <2> QED BY <1>4, <2>1
<1> QED BY <1>1, <1>5 DEF s

-----------------------------------------------------------------------------
(* Decoding.                                                                 *)

\* The bits are decoded from the highest to the lowest.
LEMMA BitsComeBack ==
  ASSUME NEW AW \in Nat, NEW word \in Nat, word < 2 * Powers(AW)[AW]
  PROVE  \A i \in 0..AW + 1 : BinaryBits(AW, GrayOf(AW, word))[i] = BitAt(AW, word, i)
<1> DEFINE s == Shifts(AW, word)
           g == GrayOf(AW, word)
           Is(f) == f = [i \in 0..AW + 1 |->
                           IF i = AW + 1 THEN 0
                           ELSE IF i \in g THEN 1 - f[i + 1] ELSE f[i + 1]]
           b == CHOOSE f : Is(f)
           c == [i \in 0..AW + 1 |-> s[i] % 2]
<1>1. s \in [0..AW + 1 -> Nat] /\ s[AW + 1] = 0
  BY ShiftsAre, PointerHasBits
<1>2. \A i \in 0..AW : i \in g <=> s[i] % 2 # s[i + 1] % 2
  BY DEF GrayOf, BitAt
<1> HIDE DEF s, g
<1>3. \A i \in 0..AW + 1 : c[i] \in {0, 1}
  BY <1>1
<1>4. \A i \in 0..AW : c[i] = IF i \in g THEN 1 - c[i + 1] ELSE c[i + 1]
  <2> TAKE i \in 0..AW
  <2>1. c[i] \in {0, 1} /\ c[i + 1] \in {0, 1}
    BY <1>3
  <2>2. i \in g <=> c[i] # c[i + 1]
    BY <1>2
  <2> HIDE DEF c
  <2> QED BY <2>1, <2>2
<1>5. c[AW + 1] = 0 /\ c = [i \in 0..AW + 1 |-> c[i]]
  BY <1>1
<1> HIDE DEF c
<1>6. Is(c)
  <2>1. \A i \in 0..AW + 1 :
          c[i] = IF i = AW + 1 THEN 0 ELSE IF i \in g THEN 1 - c[i + 1] ELSE c[i + 1]
    <3> TAKE i \in 0..AW + 1
    <3>1. i = AW + 1 \/ (i # AW + 1 /\ i \in 0..AW)
      OBVIOUS
    <3> QED BY <1>4, <1>5, <3>1
  <2> QED BY <1>5, <2>1
<1>7. Is(b)
  <2> HIDE DEF Is
  <2> QED BY <1>6
<1>8. b = BinaryBits(AW, g)
  BY DEF b, BinaryBits
<1> HIDE DEF b
<1>9. b[AW + 1] = 0 /\ \A i \in 0..AW : b[i] = IF i \in g THEN 1 - b[i + 1] ELSE b[i + 1]
  BY <1>7
<1> DEFINE T == {k \in 0..AW + 1 : b[AW + 1 - k] = c[AW + 1 - k]}
<1>10. 0..AW + 1 \subseteq T
  <2>1. 0 \in T
    BY <1>5, <1>9
  <2>2. ASSUME NEW k \in 1..AW + 1, k - 1 \in T
        PROVE  k \in T
    <3> DEFINE i == AW + 1 - k
    <3>1. i \in 0..AW /\ AW + 1 - (k - 1) = i + 1
      OBVIOUS
    <3>2. b[i + 1] = c[i + 1]
      BY <2>2, <3>1
    <3> HIDE DEF i
    <3>3. b[i] = c[i]
      BY <1>4, <1>9, <3>1, <3>2
    <3> QED BY <3>3 DEF i
  <2>3. AW + 1 \in Nat
    OBVIOUS
  <2> HIDE DEF T
  <2> QED BY <2>1, <2>2, <2>3, InductionTo
<1>11. ASSUME NEW i \in 0..AW + 1
       PROVE  b[i] = c[i]
  <2>1. AW + 1 - i \in T /\ AW + 1 - (AW + 1 - i) = i
    BY <1>10
  <2> QED BY <2>1
<1>12. \A i \in 0..AW + 1 : c[i] = BitAt(AW, word, i)
  BY DEF c, s, BitAt
<1> QED BY <1>8, <1>11, <1>12 DEF g

\* And make up the word.
LEMMA WordComesBack ==
  ASSUME NEW AW \in Nat, NEW word \in Nat, word < 2 * Powers(AW)[AW]
  PROVE  BinaryOf(AW, GrayOf(AW, word)) = word
<1> DEFINE s == Shifts(AW, word)
           bit == BinaryBits(AW, GrayOf(AW, word))
           Is(f) == f = [i \in 0..AW + 1 |->
                           IF i = AW + 1 THEN 0 ELSE bit[i] + 2 * f[i + 1]]
           v == CHOOSE f : Is(f)
<1>1. /\ s \in [0..AW + 1 -> Nat] /\ s[0] = word /\ s[AW + 1] = 0
      /\ \A i \in 0..AW : s[i + 1] = s[i] \div 2
  BY ShiftsAre, PointerHasBits
<1>2. \A i \in 0..AW + 1 : bit[i] = s[i] % 2
  BY BitsComeBack DEF BitAt
<1>3. v[0] = BinaryOf(AW, GrayOf(AW, word))
  BY DEF v, BinaryOf
<1> HIDE DEF s, bit
<1>4. \A i \in 0..AW : s[i] = bit[i] + 2 * s[i + 1]
  <2> TAKE i \in 0..AW
  <2>0. i \in 0..AW + 1
    OBVIOUS
  <2>1. s[i] \in Nat /\ s[i + 1] = s[i] \div 2 /\ bit[i] = s[i] % 2
    BY <1>1, <1>2, <2>0
  <2> QED BY <2>1
<1>5. Is(s)
  BY <1>1, <1>4
<1>6. Is(v)
  <2> HIDE DEF Is
  <2> QED BY <1>5
<1> HIDE DEF v
<1>7. v[AW + 1] = 0 /\ \A i \in 0..AW : v[i] = bit[i] + 2 * v[i + 1]
  BY <1>6
<1> DEFINE T == {k \in 0..AW + 1 : v[AW + 1 - k] = s[AW + 1 - k]}
<1>8. 0..AW + 1 \subseteq T
  <2>1. 0 \in T
    BY <1>1, <1>7
  <2>2. ASSUME NEW k \in 1..AW + 1, k - 1 \in T
        PROVE  k \in T
    <3> DEFINE i == AW + 1 - k
    <3>1. i \in 0..AW /\ AW + 1 - (k - 1) = i + 1
      OBVIOUS
    <3>2. v[i + 1] = s[i + 1]
      BY <2>2, <3>1
    <3> HIDE DEF i
    <3>3. v[i] = s[i]
      BY <1>4, <1>7, <3>1, <3>2
    <3> QED BY <3>3 DEF i
  <2>3. AW + 1 \in Nat
    OBVIOUS
  <2> HIDE DEF T
  <2> QED BY <2>1, <2>2, <2>3, InductionTo
<1>9. v[0] = s[0]
  <2>1. AW + 1 \in T /\ AW + 1 - (AW + 1) = 0
    BY <1>8
  <2> QED BY <2>1
<1> QED BY <1>1, <1>3, <1>9

-----------------------------------------------------------------------------
(* One bit changes.                                                          *)

\* Shifted by i, two words are the same, or the second is the successor of the first: the
\* carry has gone through the i places before.
Carry(AW, word, next, i) == Shifts(AW, next)[i] = Shifts(AW, word)[i] + 1

LEMMA CarryFacts ==
  ASSUME NEW AW \in Nat, NEW word \in Nat
  PROVE  \A i \in 0..AW :
           LET s == Shifts(AW, word)
               t == Shifts(AW, word + 1)
           IN  /\ Carry(AW, word, word + 1, i) \/ t[i] = s[i]
               /\ Carry(AW, word, word + 1, i + 1) \/ t[i + 1] = s[i + 1]
               /\ Carry(AW, word, word + 1, i + 1) => Carry(AW, word, word + 1, i)
<1> DEFINE s == Shifts(AW, word)
           t == Shifts(AW, word + 1)
           T == {i \in 0..AW + 1 : t[i] = s[i] + 1 \/ t[i] = s[i]}
<1>1. /\ s \in [0..AW + 1 -> Nat] /\ s[0] = word
      /\ \A i \in 0..AW : s[i + 1] = s[i] \div 2
  BY ShiftsAre
<1>2. /\ t \in [0..AW + 1 -> Nat] /\ t[0] = word + 1
      /\ \A i \in 0..AW : t[i + 1] = t[i] \div 2
  <2>1. word + 1 \in Nat
    OBVIOUS
  <2> QED BY <2>1, ShiftsAre
<1>3. \A i \in 0..AW + 1 : Carry(AW, word, word + 1, i) <=> t[i] = s[i] + 1
  BY DEF Carry
<1> HIDE DEF s, t
<1>4. 0..AW + 1 \subseteq T
  <2>1. 0 \in T
    BY <1>1, <1>2
  <2>2. ASSUME NEW k \in 1..AW + 1, k - 1 \in T
        PROVE  k \in T
    <3> DEFINE x == s[k - 1]
               y == t[k - 1]
    <3>1. x \in Nat /\ y \in Nat /\ (y = x + 1 \/ y = x)
      BY <1>1, <1>2, <2>2
    <3>2. k - 1 \in 0..AW /\ k - 1 + 1 = k
      OBVIOUS
    <3>3. s[k] = x \div 2 /\ t[k] = y \div 2
      BY <1>1, <1>2, <3>2
    <3> HIDE DEF x, y
    <3>4. y \div 2 = x \div 2 + 1 \/ y \div 2 = x \div 2
      BY <3>1
    <3> QED BY <3>3, <3>4
  <2>3. AW + 1 \in Nat
    OBVIOUS
  <2> HIDE DEF T
  <2> QED BY <2>1, <2>2, <2>3, InductionTo
<1>5. ASSUME NEW i \in 0..AW
      PROVE  /\ t[i] = s[i] + 1 \/ t[i] = s[i]
             /\ t[i + 1] = s[i + 1] + 1 \/ t[i + 1] = s[i + 1]
             /\ t[i + 1] = s[i + 1] + 1 => t[i] = s[i] + 1
  <2>1. i \in T /\ i + 1 \in T
    BY <1>4
  <2>2. s[i + 1] = s[i] \div 2 /\ t[i + 1] = t[i] \div 2 /\ s[i + 1] \in Nat
    BY <1>1, <1>2
  <2>3. t[i] = s[i] => t[i + 1] # s[i + 1] + 1
    BY <2>2
  <2> QED BY <2>1, <2>3
<1>6. ASSUME NEW i \in 0..AW
      PROVE  i \in 0..AW + 1 /\ i + 1 \in 0..AW + 1
  OBVIOUS
<1> QED BY <1>3, <1>5, <1>6 DEF s, t

\* A bit of the code changes where the carry ends.
LEMMA CodeChanges ==
  ASSUME NEW AW \in Nat, NEW word \in Nat, NEW i \in 0..AW,
         ~(i \in GrayOf(AW, word) <=> i \in GrayOf(AW, word + 1))
  PROVE  Carry(AW, word, word + 1, i) /\ ~Carry(AW, word, word + 1, i + 1)
<1> DEFINE s == Shifts(AW, word)
           t == Shifts(AW, word + 1)
           x == s[i]
           y == t[i]
<1>1. s \in [0..AW + 1 -> Nat] /\ s[i + 1] = x \div 2
  BY ShiftsAre
<1>2. t \in [0..AW + 1 -> Nat] /\ t[i + 1] = y \div 2
  <2>1. word + 1 \in Nat
    OBVIOUS
  <2> QED BY <2>1, ShiftsAre
<1>3. x \in Nat /\ y \in Nat
  BY <1>1, <1>2
<1>4. i \in GrayOf(AW, word) <=> x % 2 # (x \div 2) % 2
  BY <1>1 DEF GrayOf, BitAt
<1>5. i \in GrayOf(AW, word + 1) <=> y % 2 # (y \div 2) % 2
  BY <1>2 DEF GrayOf, BitAt
<1>6. y = x + 1 \/ y = x
  BY CarryFacts DEF Carry
<1>7. Carry(AW, word, word + 1, i) <=> y = x + 1
  BY DEF Carry
<1>8. Carry(AW, word, word + 1, i + 1) <=> y \div 2 = x \div 2 + 1
  BY <1>1, <1>2 DEF Carry
<1> HIDE DEF s, t, x, y
<1>9. y = x + 1 /\ y \div 2 # x \div 2 + 1
  <2>1. y = x + 1
    BY <1>4, <1>5, <1>6
  <2>2. ASSUME y \div 2 = x \div 2 + 1
        PROVE  FALSE
    <3>1. x % 2 = 1 /\ y % 2 = 0
      BY <1>3, <2>1, <2>2
    <3>2. (y \div 2) % 2 = 1 - ((x \div 2) % 2) /\ (x \div 2) % 2 \in {0, 1}
      BY <1>3, <2>2
    <3> QED BY <1>4, <1>5, <3>1, <3>2
  <2> QED BY <2>1, <2>2
<1> QED BY <1>7, <1>8, <1>9

\* The carry ends once.
LEMMA CarryEndsOnce ==
  ASSUME NEW AW \in Nat, NEW word \in Nat, NEW i \in 0..AW, NEW j \in 0..AW, i < j,
         ~Carry(AW, word, word + 1, i + 1)
  PROVE  ~Carry(AW, word, word + 1, j)
<1> DEFINE T == {k \in 0..j : k > i => ~Carry(AW, word, word + 1, k)}
<1>1. 0 \in T
  OBVIOUS
<1>2. ASSUME NEW k \in 1..j, k - 1 \in T
      PROVE  k \in T
  <2>1. CASE k - 1 > i
    <3>1. k - 1 \in 0..AW /\ k - 1 + 1 = k
      OBVIOUS
    <3>2. Carry(AW, word, word + 1, k) => Carry(AW, word, word + 1, k - 1)
      BY <3>1, CarryFacts
    <3> QED BY <1>2, <2>1, <3>2
  <2>2. CASE k - 1 = i
    <3>1. k = i + 1
      BY <2>2
    <3> QED BY <3>1
  <2>3. CASE k - 1 < i
    BY <2>3
  <2> QED BY <2>1, <2>2, <2>3
<1>3. 0..j \subseteq T
  <2> HIDE DEF T
  <2> QED BY <1>1, <1>2, InductionTo
<1> QED BY <1>3

\* Two codes that are the same but for one place.
OneBitApart(old, new) == \E i : \A j : (j \in old <=> j \in new) \/ j = i

\* A word that changes in one place is sampled as it was or as it is going to be.
LEMMA SampledOneBit ==
  ASSUME NEW old, NEW new, OneBitApart(old, new)
  PROVE  Sampled(old, new) \subseteq {old, new}
<1>i. PICK i : \A j : (j \in old <=> j \in new) \/ j = i
  BY DEF OneBitApart
<1> SUFFICES ASSUME NEW word \in Sampled(old, new)
             PROVE  word = old \/ word = new
  OBVIOUS
<1>1. \A j : (j \in word => j \in old \/ j \in new) /\ (j \in old /\ j \in new => j \in word)
  BY DEF Sampled
<1>2. CASE i \in word <=> i \in old
  <2>1. \A j : j \in word <=> j \in old
    BY <1>i, <1>1, <1>2
  <2> QED BY <2>1
<1>3. CASE ~(i \in word <=> i \in old)
  <2>1. \A j : j \in word <=> j \in new
    BY <1>i, <1>1, <1>3
  <2> QED BY <2>1
<1> QED BY <1>2, <1>3

LEMMA StepInOneBit ==
  ASSUME NEW AW \in Nat, NEW word \in Nat
  PROVE  OneBitApart(GrayOf(AW, word), GrayOf(AW, word + 1))
<1> DEFINE D == {j \in 0..AW : ~(j \in GrayOf(AW, word) <=> j \in GrayOf(AW, word + 1))}
<1>1. \A j : j \notin D => (j \in GrayOf(AW, word) <=> j \in GrayOf(AW, word + 1))
  BY DEF GrayOf
<1>2. \A i, j \in D : ~(i < j)
  <2> SUFFICES ASSUME NEW i \in D, NEW j \in D, i < j
               PROVE  FALSE
    OBVIOUS
  <2>1. ~Carry(AW, word, word + 1, i + 1)
    BY CodeChanges
  <2>2. Carry(AW, word, word + 1, j)
    BY CodeChanges
  <2> QED BY <2>1, <2>2, CarryEndsOnce
<1>3. \A i, j \in D : i = j
  <2> TAKE i, j \in D
  <2>1. i \in Nat /\ j \in Nat /\ ~(i < j) /\ ~(j < i)
    BY <1>2
  <2> QED BY <2>1
<1> HIDE DEF D
<1>4. CASE D = {}
  BY <1>1, <1>4 DEF OneBitApart
<1>5. CASE D # {}
  <2>1. PICK i : i \in D
    BY <1>5
  <2>2. \A j : j \in D => j = i
    BY <1>3, <2>1
  <2> QED BY <1>1, <2>2 DEF OneBitApart
<1> QED BY <1>4, <1>5

\* The last pointer has its highest bit in its code and no other.
LEMMA LastCode ==
  ASSUME NEW AW \in Nat
  PROVE  /\ 2 * Powers(AW)[AW] - 1 \in Nat
         /\ GrayOf(AW, 2 * Powers(AW)[AW] - 1) \subseteq {AW}
<1> DEFINE p == Powers(AW)
           last == 2 * p[AW] - 1
           s == Shifts(AW, last)
           T == {i \in 0..AW : p[i] > 0}
           U == {i \in 0..AW : s[i] = 2 * p[AW - i] - 1}
<1>1. p \in [0..AW -> Nat] /\ p[0] = 1 /\ \A i \in 1..AW : p[i] = 2 * p[i - 1]
  BY PowersAre
<1> HIDE DEF p
<1>2. 0..AW \subseteq T
  <2>1. 0 \in T
    BY <1>1
  <2>2. ASSUME NEW i \in 1..AW, i - 1 \in T
        PROVE  i \in T
    BY <1>1, <2>2
  <2> HIDE DEF T
  <2> QED BY <2>1, <2>2, InductionTo
<1>3. last \in Nat
  BY <1>1, <1>2
<1>4. /\ s \in [0..AW + 1 -> Nat] /\ s[0] = last
      /\ \A i \in 0..AW : s[i + 1] = s[i] \div 2
  <2> HIDE DEF last
  <2> QED BY <1>3, ShiftsAre
<1> HIDE DEF s
<1>5. 0..AW \subseteq U
  <2>1. 0 \in U
    BY <1>4
  <2>2. ASSUME NEW i \in 1..AW, i - 1 \in U
        PROVE  i \in U
    <3> DEFINE y == p[AW - i]
    <3>1. i - 1 \in 0..AW /\ i - 1 + 1 = i /\ AW - i \in 0..AW
      OBVIOUS
    <3>2. y \in Nat /\ s[i] = s[i - 1] \div 2
      BY <1>1, <1>4, <3>1
    <3>3. AW - (i - 1) \in 1..AW /\ AW - (i - 1) - 1 = AW - i
      OBVIOUS
    <3>4. p[AW - (i - 1)] = 2 * y
      BY <1>1, <3>3
    <3>5. s[i - 1] = 2 * (2 * y) - 1
      BY <2>2, <3>4
    <3> HIDE DEF y
    <3>6. (2 * (2 * y) - 1) \div 2 = 2 * y - 1
      BY <3>2
    <3> QED BY <3>2, <3>5, <3>6 DEF y
  <2> HIDE DEF U
  <2> QED BY <2>1, <2>2, InductionTo
<1>6. ASSUME NEW i \in 0..AW
      PROVE  s[i] % 2 = 1
  <2>0. AW - i \in 0..AW
    OBVIOUS
  <2>1. s[i] = 2 * p[AW - i] - 1 /\ p[AW - i] \in Nat /\ p[AW - i] > 0
    BY <1>1, <1>2, <1>5, <2>0
  <2> QED BY <2>1
<1>7. ASSUME NEW i \in GrayOf(AW, last)
      PROVE  i = AW
  <2>1. i \in 0..AW /\ s[i] % 2 # s[i + 1] % 2
    BY DEF GrayOf, BitAt, s
  <2>2. ASSUME i # AW
        PROVE  FALSE
    <3>1. i + 1 \in 0..AW
      BY <2>1, <2>2
    <3> QED BY <1>6, <2>1, <3>1
  <2> QED BY <2>2
<1> QED BY <1>3, <1>7 DEF p

LEMMA CodeOfZero ==
  ASSUME NEW AW \in Nat
  PROVE  GrayOf(AW, 0) = {}
<1> DEFINE s == Shifts(AW, 0)
           T == {i \in 0..AW + 1 : s[i] = 0}
<1>1. s[0] = 0 /\ \A i \in 0..AW : s[i + 1] = s[i] \div 2
  BY ShiftsAre
<1> HIDE DEF s
<1>2. 0..AW + 1 \subseteq T
  <2>1. 0 \in T
    BY <1>1
  <2>2. ASSUME NEW k \in 1..AW + 1, k - 1 \in T
        PROVE  k \in T
    <3>1. k - 1 \in 0..AW /\ k - 1 + 1 = k
      OBVIOUS
    <3>2. s[k] = s[k - 1] \div 2 /\ s[k - 1] = 0
      BY <1>1, <2>2, <3>1
    <3> QED BY <3>2
  <2>3. AW + 1 \in Nat
    OBVIOUS
  <2> HIDE DEF T
  <2> QED BY <2>1, <2>2, <2>3, InductionTo
<1>3. ASSUME NEW i \in 0..AW
      PROVE  s[i] = 0 /\ s[i + 1] = 0
  BY <1>2
<1> QED BY <1>3 DEF GrayOf, BitAt, s

\* dp_fifo.v, the Gray pointer logic: for every width of the address, with as many words
\* as it can address, the conversions are what GrayAssumption says.
THEOREM RealCode ==
  ASSUME NEW AW \in Nat, Depth = Powers(AW)[AW]
  PROVE  IsGrayCode([p \in Pointer |-> GrayOf(AW, p)],
                    [g \in SUBSET (0..AW) |-> BinaryOf(AW, g)])
<1> DEFINE gray == [p \in Pointer |-> GrayOf(AW, p)]
           binary == [g \in SUBSET (0..AW) |-> BinaryOf(AW, g)]
<1>1. \A p \in Pointer : p \in Nat /\ p < 2 * Powers(AW)[AW] /\ Succ(p) \in Pointer
  BY DepthAssumption, SuccType DEF Pointer
<1>2. 0 \in Pointer
  BY DepthAssumption DEF Pointer
<1>3. gray[0] = {}
  BY <1>2, CodeOfZero
<1>4. ASSUME NEW p \in Pointer
      PROVE  binary[gray[p]] = p
  <2>1. GrayOf(AW, p) \in SUBSET (0..AW)
    BY DEF GrayOf
  <2> QED BY <1>1, <2>1, WordComesBack
<1>5. ASSUME NEW p \in Pointer
      PROVE  Sampled(gray[p], gray[Succ(p)]) \subseteq {gray[p], gray[Succ(p)]}
  <2>1. CASE p = 2 * Depth - 1
    <3>1. Succ(p) = 0
      BY <2>1 DEF Succ
    <3>2. gray[p] \subseteq {AW}
      BY <2>1, LastCode
    <3>3. OneBitApart(gray[p], gray[0])
      <4> HIDE DEF gray
      <4> QED BY <1>3, <3>2 DEF OneBitApart
    <3> HIDE DEF gray
    <3>4. Sampled(gray[p], gray[0]) \subseteq {gray[p], gray[0]}
      BY <3>3, SampledOneBit
    <3> QED BY <3>1, <3>4
  <2>2. CASE p # 2 * Depth - 1
    <3>1. Succ(p) = p + 1
      BY <2>2 DEF Succ
    <3>2. gray[p] = GrayOf(AW, p) /\ gray[Succ(p)] = GrayOf(AW, p + 1)
      BY <1>1, <3>1
    <3>3. OneBitApart(GrayOf(AW, p), GrayOf(AW, p + 1))
      BY <1>1, StepInOneBit
    <3>4. Sampled(GrayOf(AW, p), GrayOf(AW, p + 1))
            \subseteq {GrayOf(AW, p), GrayOf(AW, p + 1)}
      BY <3>3, SampledOneBit
    <3> HIDE DEF gray
    <3> QED BY <3>2, <3>4
  <2> QED BY <2>1, <2>2
<1> HIDE DEF gray, binary
<1>6. IsGrayCode(gray, binary)
  BY <1>3, <1>4, <1>5 DEF IsGrayCode
<1> QED BY <1>6 DEF gray, binary
=============================================================================
