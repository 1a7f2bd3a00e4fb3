-------------------------- MODULE ApbMasterMcProofs --------------------------
(***************************************************************************)
(* Theorems about ApbMasterMc, for every depth, every set of ratios, with  *)
(* the register written at any time, and slaves that may take any time.    *)
(*                                                                         *)
(* The two machines run in step until a request is taken over a transfer:  *)
(* the arbiter is in a setup state while a transfer is in its access phase,*)
(* and in an active state in the cycle after it took one.  What it chose in*)
(* between is still there, as nobody else takes from its FIFOs.            *)
(***************************************************************************)
EXTENDS ApbMasterMc, TLAPS

\* Where the master is when the arbiter is somewhere.
InStep ==
  /\ arb = "IDLE" => cstate \in {"IDLE", "RACTIVE", "WACTIVE"}
  /\ arb \in {"RACTIVE", "WACTIVE"} =>
       cstate \in {"RSETUP", "WSETUP"} \/ (lost /\ cstate \in {"RACTIVE", "WACTIVE"})
  /\ arb \in {"RSETUP", "WSETUP"} =>
       cstate \in {"RACTIVE", "WACTIVE"} \/ (lost /\ cstate = "IDLE")

\* What the arbiter chose is there.
ChosenIsThere == (arb = "RSETUP" => ra_avail) /\ (arb = "WSETUP" => wr_avail)

\* The history is the request on the bus.
OnBus ==
  popped = CASE cstate \in {"RSETUP", "RACTIVE"} -> <<"read">>
             [] cstate \in {"WSETUP", "WACTIVE"} -> <<"write">>
             [] cstate = "IDLE" -> <<>>

\* The types but for the histories.
CircuitTypes ==
  /\ ratio \in Ratios
  /\ arb \in States /\ cstate \in States
  /\ cmd_cnt \in 0..3
  /\ ra \in 0..Depth /\ wa \in 0..Depth /\ wd \in 0..Depth
  /\ room \in 0..Depth
  /\ PREADY \in BOOLEAN /\ lost \in BOOLEAN

IInv ==
  /\ CircuitTypes /\ passed \in 0..PassedBound
  /\ Reads <= ReadLimit
  /\ InStep /\ ChosenIsThere /\ OnBus

-----------------------------------------------------------------------------

\* In any state of the invariant what is taken is there, one request at a time, and only
\* when the master can start it or from IDLE.
LEMMA Wires ==
  ASSUME IInv
  PROVE  /\ apb_rd <=> cstate = "RACTIVE" /\ PREADY
         /\ apb_wr <=> cstate = "WACTIVE" /\ PREADY
         /\ waiting <=> cstate \in {"RACTIVE", "WACTIVE"} /\ ~PREADY
         /\ rd_en => ra_avail /\ ~wr_en
         /\ wr_en => wr_avail /\ ~rd_en
         /\ rd_en \/ wr_en => \/ TakenOver /\ cstate \in {"RACTIVE", "WACTIVE"} /\ ~PREADY
                              \/ ~TakenOver /\ cstate = "IDLE"
                              \/ ~TakenOver /\ cstate \in {"RACTIVE", "WACTIVE"} /\ PREADY
         /\ TakenOver => rd_en \/ wr_en
         /\ apb_rd => room > 0
<1>1. /\ apb_rd <=> cstate = "RACTIVE" /\ PREADY
      /\ apb_wr <=> cstate = "WACTIVE" /\ PREADY
      /\ waiting <=> cstate \in {"RACTIVE", "WACTIVE"} /\ ~PREADY
  BY DEF IInv, CircuitTypes, States, apb_rd, apb_wr, waiting, PSELx, PENABLE, PWRITE
<1>2. ASSUME rd_en PROVE ra_avail /\ ~wr_en
  BY <1>2 DEF rd_en, wr_en, IInv, ChosenIsThere, r_avail, both_avail
<1>3. ASSUME wr_en PROVE wr_avail /\ ~rd_en
  BY <1>3 DEF rd_en, wr_en, IInv, ChosenIsThere, r_avail, both_avail
<1>4. ASSUME rd_en \/ wr_en
      PROVE  \/ TakenOver /\ cstate \in {"RACTIVE", "WACTIVE"} /\ ~PREADY
             \/ ~TakenOver /\ cstate = "IDLE"
             \/ ~TakenOver /\ cstate \in {"RACTIVE", "WACTIVE"} /\ PREADY
  <2>1. arb = "IDLE" \/ (arb \in {"RSETUP", "WSETUP"} /\ done)
    BY <1>4 DEF rd_en, wr_en
  <2>2. CASE arb = "IDLE"
    BY <1>1, <1>4, <2>2 DEF TakenOver, IInv, InStep
  <2>3. CASE arb \in {"RSETUP", "WSETUP"} /\ done
    BY <1>1, <2>3 DEF TakenOver, done
  <2> QED  BY <2>1, <2>2, <2>3
<1>5. apb_rd => room > 0
  BY <1>1, DepthAssumption, ReadLimitAssumption
  DEF IInv, CircuitTypes, Reads, OnTheBus
<1>6. TakenOver => rd_en \/ wr_en
  BY DEF TakenOver
<1> QED  BY <1>1, <1>2, <1>3, <1>4, <1>5, <1>6

\* The arbiter takes a request exactly when it goes to an active state.
LEMMA TakesWhenActive ==
  ASSUME IInv
  PROVE  ArbNext \in {"RACTIVE", "WACTIVE"} <=> rd_en \/ wr_en
<1> USE DEF ArbNext, rd_en, wr_en
<1>1. CASE arb = "IDLE"
  <2>1. r_avail => ra_avail
    BY DEF r_avail
  <2>2. both_avail <=> ra_avail /\ wr_avail
    BY DEF both_avail
  <2> QED  BY <1>1, <2>1, <2>2 DEF FromIdle
<1>2. CASE arb \in {"RSETUP", "WSETUP"}
  BY <1>2
<1>3. CASE arb \in {"RACTIVE", "WACTIVE"}
  <2>1. AfterActive \in {"RSETUP", "WSETUP", "IDLE"}
    BY DEF AfterActive, Preferred
  <2> QED  BY <1>3, <2>1
<1> QED  BY <1>1, <1>2, <1>3 DEF IInv, CircuitTypes, States

\* What the arbiter chooses is there when it does.
LEMMA Chooses ==
  ASSUME IInv
  PROVE  /\ ArbNext \in States
         /\ arb \in {"RACTIVE", "WACTIVE"} => ArbNext \in {"RSETUP", "WSETUP", "IDLE"}
         /\ arb \in {"RACTIVE", "WACTIVE"} /\ ArbNext = "RSETUP" => ra_avail
         /\ arb \in {"RACTIVE", "WACTIVE"} /\ ArbNext = "WSETUP" => wr_avail
         /\ arb = "IDLE" => ArbNext \in {"RACTIVE", "WACTIVE", "IDLE"}
         /\ arb = "RSETUP" => ArbNext = IF done THEN "RACTIVE" ELSE "RSETUP"
         /\ arb = "WSETUP" => ArbNext = IF done THEN "WACTIVE" ELSE "WSETUP"
<1>1. AfterActive \in {"RSETUP", "WSETUP", "IDLE"}
  BY DEF AfterActive, Preferred
<1>2. arb \in {"RACTIVE", "WACTIVE"} /\ AfterActive = "RSETUP" => ra_avail
  BY DEF AfterActive, Preferred, r_avail, both_avail
<1>3. arb \in {"RACTIVE", "WACTIVE"} /\ AfterActive = "WSETUP" => wr_avail
  BY DEF AfterActive, Preferred, r_avail, both_avail
<1>4. FromIdle \in {"RACTIVE", "WACTIVE", "IDLE"}
  BY DEF FromIdle
<1> QED  BY <1>1, <1>2, <1>3, <1>4 DEF ArbNext, IInv, CircuitTypes, States

-----------------------------------------------------------------------------

LEMMA InitHolds ==
  ASSUME Init PROVE IInv
<1>1. PREADY \in BOOLEAN /\ lost \in BOOLEAN
  BY DEF Init
<1>2. CircuitTypes
  BY <1>1, DepthAssumption DEF Init, CircuitTypes, States
<1>3. Reads <= ReadLimit
  BY DepthAssumption, ReadLimitAssumption DEF Init, Reads, OnTheBus
<1>4. passed \in 0..PassedBound /\ InStep /\ ChosenIsThere /\ OnBus
  BY DEF Init, PassedBound, InStep, ChosenIsThere, OnBus
<1> QED  BY <1>2, <1>3, <1>4 DEF IInv

\* Where the master goes.
LEMMA MasterMoves ==
  ASSUME IInv
  PROVE  /\ MasterNext \in States
         /\ cstate \in {"RSETUP", "WSETUP"} =>
              MasterNext = IF cstate = "RSETUP" THEN "RACTIVE" ELSE "WACTIVE"
         /\ cstate \in {"RACTIVE", "WACTIVE"} /\ ~PREADY => MasterNext = cstate
         /\ cstate = "IDLE" \/ (cstate \in {"RACTIVE", "WACTIVE"} /\ PREADY) =>
              MasterNext = IF rd_en THEN "RSETUP" ELSE IF wr_en THEN "WSETUP" ELSE "IDLE"
<1>1. AfterWrite = AfterRead
  BY Wires DEF AfterWrite, AfterRead
<1>2. AfterRead = IF rd_en THEN "RSETUP" ELSE IF wr_en THEN "WSETUP" ELSE "IDLE"
  BY DEF AfterRead
<1>3. cstate \in States
  BY DEF IInv, CircuitTypes
<1> QED  BY <1>1, <1>2, <1>3 DEF MasterNext, States

\* The machines stay in step, as far as they are.
LEMMA MachinesFollow ==
  ASSUME IInv, Edge
  PROVE  arb' \in States /\ cstate' \in States /\ cmd_cnt' \in 0..3 /\ lost' \in BOOLEAN /\ InStep'
<1>1. /\ arb' = ArbNext /\ cstate' = MasterNext /\ cmd_cnt' = CmdCount
      /\ lost' = (lost \/ TakenOver)
      /\ arb \in States /\ cstate \in States
  BY DEF Edge, History, IInv, CircuitTypes
<1>2. CmdCount \in 0..3
  BY DEF CmdCount, IInv, CircuitTypes
<1>3. arb' = "IDLE" => cstate' \in {"IDLE", "RACTIVE", "WACTIVE"}
  <2>1. SUFFICES ASSUME ArbNext = "IDLE" PROVE MasterNext \in {"IDLE", "RACTIVE", "WACTIVE"}
    BY <1>1
  <2>2. ~rd_en /\ ~wr_en
    BY <2>1, TakesWhenActive
  <2> QED  BY <1>1, <2>2, MasterMoves DEF States
<1>4. arb' \in {"RACTIVE", "WACTIVE"} =>
        cstate' \in {"RSETUP", "WSETUP"} \/ (lost' /\ cstate' \in {"RACTIVE", "WACTIVE"})
  <2>1. SUFFICES ASSUME ArbNext \in {"RACTIVE", "WACTIVE"}
                 PROVE  \/ MasterNext \in {"RSETUP", "WSETUP"}
                        \/ TakenOver /\ MasterNext \in {"RACTIVE", "WACTIVE"}
    BY <1>1
  <2>2. rd_en \/ wr_en
    BY <2>1, TakesWhenActive
  <2> QED  BY <2>2, Wires, MasterMoves
<1>5. arb' \in {"RSETUP", "WSETUP"} =>
        cstate' \in {"RACTIVE", "WACTIVE"} \/ (lost' /\ cstate' = "IDLE")
  <2>1. SUFFICES ASSUME ArbNext \in {"RSETUP", "WSETUP"}
                 PROVE  \/ MasterNext \in {"RACTIVE", "WACTIVE"}
                        \/ lost /\ MasterNext = "IDLE"
    BY <1>1
  <2>2. ~rd_en /\ ~wr_en
    BY <2>1, TakesWhenActive
  <2>3. CASE arb \in {"RACTIVE", "WACTIVE"}
    BY <2>2, <2>3, MasterMoves DEF IInv, InStep
  <2>4. CASE arb \in {"RSETUP", "WSETUP"}
    <3>1. ~done
      BY <2>1, <2>4, Chooses
    <3>2. (cstate \in {"RACTIVE", "WACTIVE"} /\ ~PREADY) \/ (lost /\ cstate = "IDLE")
      BY <2>4, <3>1, Wires DEF IInv, InStep, done
    <3> QED  BY <2>2, <3>2, MasterMoves
  <2> QED  BY <1>1, <2>1, <2>3, <2>4, Chooses DEF States
<1>6. lost' \in BOOLEAN
  BY <1>1 DEF IInv, CircuitTypes, TakenOver
<1> QED  BY <1>1, <1>2, <1>3, <1>4, <1>5, <1>6, Chooses, MasterMoves DEF InStep

\* The FIFOs neither run out nor over, and what was chosen stays there.
LEMMA FifosFollow ==
  ASSUME IInv, Edge
  PROVE  /\ ra' \in 0..Depth /\ wa' \in 0..Depth /\ wd' \in 0..Depth /\ room' \in 0..Depth
         /\ Reads' <= ReadLimit
         /\ ChosenIsThere'
<1>1. /\ ra' \in Minus(ra, rd_en)..Depth
      /\ wa' \in Minus(wa, wr_en)..Depth
      /\ wd' \in Minus(wd, wr_en)..Depth
      /\ room' \in Minus(room, apb_rd)..Depth
      /\ Reads' <= ReadLimit
      /\ arb' = ArbNext
  BY DEF Edge, Fifos
<1>2. ra \in 0..Depth /\ wa \in 0..Depth /\ wd \in 0..Depth /\ room \in 0..Depth
  BY DEF IInv, CircuitTypes
<1>3. (rd_en => ra > 0) /\ (wr_en => wa > 0 /\ wd > 0) /\ (apb_rd => room > 0)
  BY Wires DEF ra_avail, wr_avail
<1>4. ra' \in 0..Depth /\ wa' \in 0..Depth /\ wd' \in 0..Depth /\ room' \in 0..Depth
  BY <1>1, <1>2, <1>3, DepthAssumption DEF Minus
<1>5. ASSUME ArbNext \in {"RSETUP", "WSETUP"} PROVE ~rd_en /\ ~wr_en
  BY <1>5, TakesWhenActive
<1>6. /\ ArbNext = "RSETUP" => ra > 0
      /\ ArbNext = "WSETUP" => wa > 0 /\ wd > 0
  <2>1. CASE arb \in {"RACTIVE", "WACTIVE", "IDLE"}
    BY <2>1, Chooses DEF ra_avail, wr_avail
  <2>2. CASE arb \in {"RSETUP", "WSETUP"}
    BY <2>2, Chooses DEF IInv, ChosenIsThere, ra_avail, wr_avail
  <2> QED  BY <2>1, <2>2 DEF IInv, CircuitTypes, States
<1>7. ASSUME arb' = "RSETUP" PROVE ra' > 0
  BY <1>1, <1>2, <1>5, <1>6, <1>7, DepthAssumption DEF Minus
<1>8. ASSUME arb' = "WSETUP" PROVE wa' > 0 /\ wd' > 0
  BY <1>1, <1>2, <1>5, <1>6, <1>8, DepthAssumption DEF Minus
<1> QED  BY <1>1, <1>4, <1>7, <1>8 DEF ChosenIsThere, ra_avail, wr_avail

\* A request is taken as the one before is done, and is the one that is started, unless
\* it is taken over a transfer, which goes on.
LEMMA HistoryFollows ==
  ASSUME IInv, Edge
  PROVE  OnBus' /\ passed' \in 0..PassedBound
<1> DEFINE Started == IF TakenOver THEN <<>> ELSE TakenNow
<1>1. /\ popped' = (IF done /\ popped # <<>> THEN Tail(popped) ELSE popped) \o Started
      /\ cstate' = MasterNext /\ passed' = PassedNext
  BY DEF Edge, History
<1>2. PassedNext \in 0..PassedBound
  BY DEF PassedNext, OneMore, PassedBound, IInv
<1>3. cstate \in States /\ OnBus
  BY DEF IInv, CircuitTypes
<1>4. done <=> cstate \in {"RACTIVE", "WACTIVE"} /\ PREADY
  BY Wires DEF done
<1>5. TakenNow = IF rd_en THEN <<"read">> ELSE IF wr_en THEN <<"write">> ELSE <<>>
  <2>1. ASSUME rd_en PROVE TakenNow = <<"read">>
    <3>1. ~wr_en
      BY <2>1, Wires
    <3> QED  BY <2>1, <3>1 DEF TakenNow
  <2>2. ASSUME ~rd_en, wr_en PROVE TakenNow = <<"write">>
    BY <2>2 DEF TakenNow
  <2>3. ASSUME ~rd_en, ~wr_en PROVE TakenNow = <<>>
    BY <2>3 DEF TakenNow
  <2> QED  BY <2>1, <2>2, <2>3
<1>5a. /\ popped \in {<<>>, <<"read">>, <<"write">>} /\ (cstate = "IDLE" => popped = <<>>)
       /\ \A s \in {<<>>, <<"read">>, <<"write">>} :
            s \o <<>> = s /\ <<>> \o s = s /\ (s # <<>> => Tail(s) = <<>>)
  <2>1. popped \in {<<>>, <<"read">>, <<"write">>} /\ (cstate = "IDLE" => popped = <<>>)
    BY <1>3 DEF OnBus, States
  <2> QED  BY <2>1
<1>6. CASE cstate \in {"RSETUP", "WSETUP"} \/ (cstate \in {"RACTIVE", "WACTIVE"} /\ ~PREADY)
  <2>1. ~done /\ Started = <<>>
    BY <1>4, <1>5, <1>6, Wires
  <2>2. popped' = popped
    BY <1>1, <1>5a, <2>1
  <2> QED  BY <1>1, <1>2, <1>3, <1>6, <2>2, MasterMoves DEF OnBus
<1>7. CASE cstate = "IDLE" \/ (cstate \in {"RACTIVE", "WACTIVE"} /\ PREADY)
  <2>1. Started = IF rd_en THEN <<"read">> ELSE IF wr_en THEN <<"write">> ELSE <<>>
    BY <1>5, <1>7, Wires
  <2> HIDE DEF Started
  <2>2. Started \in {<<>>, <<"read">>, <<"write">>}
    BY <2>1
  <2>3. popped' = Started
    <3>1. CASE popped = <<>>
      BY <1>1, <1>5a, <2>2, <3>1
    <3>2. CASE popped # <<>>
      BY <1>1, <1>4, <1>5a, <1>7, <2>2, <3>2
    <3> QED  BY <3>1, <3>2
  <2> QED  BY <1>1, <1>2, <1>7, <2>1, <2>3, MasterMoves DEF OnBus
<1> QED  BY <1>3, <1>6, <1>7 DEF IInv, CircuitTypes, States

LEMMA StepHolds ==
  ASSUME IInv, [Next]_vars PROVE IInv'
<1>1. CASE Edge
  <2>1. ratio' = ratio /\ PREADY' \in BOOLEAN
    BY <1>1, WaitStatesAssumption DEF Edge
  <2> QED  BY <1>1, <2>1, MachinesFollow, FifosFollow, HistoryFollows DEF IInv, CircuitTypes
<1>2. CASE WriteRatio
  BY <1>2, RatiosAssumption
  DEF WriteRatio, IInv, CircuitTypes, machineVars, fifoVars, Reads, OnTheBus, InStep,
      ChosenIsThere, ra_avail, wr_avail, OnBus, PassedBound
<1>3. CASE UNCHANGED vars
  BY <1>3
  DEF vars, IInv, CircuitTypes, machineVars, fifoVars, Reads, OnTheBus, InStep,
      ChosenIsThere, ra_avail, wr_avail, OnBus
<1> QED  BY <1>1, <1>2, <1>3 DEF Next

LEMMA InvariantHolds == Spec => []IInv
<1>1. Init => IInv
  BY InitHolds
<1>2. IInv /\ [Next]_vars => IInv'
  BY StepHolds
<1> QED  BY <1>1, <1>2, PTL DEF Spec

-----------------------------------------------------------------------------

\* The circuit's registers and FIFO counts stay in their ranges: in particular no
\* FIFO is read when it is empty and the read data never run over theirs.
THEOREM TypeCorrect == Spec => []TypeOK
<1>1. IInv => TypeOK
  <2>1. ASSUME OnBus, cstate \in States PROVE popped \in {<<>>, <<"read">>, <<"write">>}
    BY <2>1 DEF OnBus, States
  <2>2. <<>> \in Seq({"read", "write"}) /\ <<"read">> \in Seq({"read", "write"})
    OBVIOUS
  <2>3. <<"write">> \in Seq({"read", "write"})
    OBVIOUS
  <2>4. OnBus /\ cstate \in States => popped \in Seq({"read", "write"})
    BY <2>1, <2>2, <2>3
  <2> QED  BY <2>4 DEF IInv, CircuitTypes, TypeOK
<1> QED  BY <1>1, InvariantHolds, PTL

\* The arbiter takes no request that is not there.
THEOREM RequestsAreThere == Spec => []TakenIsThere
<1>1. IInv => TakenIsThere
  BY Wires DEF TakenIsThere
<1> QED  BY <1>1, InvariantHolds, PTL

\* Each request taken is on the bus until it is done, alone and however long its slave
\* takes, but for those that the idle arbiter takes over a waiting transfer, which never
\* are; and before one of these the arbiter waits for no transfer that is not there.
THEOREM RequestsAreServiced == Spec => []TakenIsServiced
<1>1. IInv => TakenIsServiced
  <2>1. SUFFICES ASSUME OnBus, cstate \in States, InStep PROVE TakenIsServiced
    BY DEF IInv, CircuitTypes
  <2>2. arb \in {"RSETUP", "WSETUP"} /\ cstate = "IDLE" => lost
    BY <2>1 DEF InStep
  <2>3. CASE cstate \in {"RSETUP", "RACTIVE"}
    BY <2>1, <2>2, <2>3 DEF OnBus, TakenIsServiced
  <2>4. CASE cstate \in {"WSETUP", "WACTIVE"}
    BY <2>1, <2>2, <2>4 DEF OnBus, TakenIsServiced
  <2>5. CASE cstate = "IDLE"
    BY <2>1, <2>2, <2>5 DEF OnBus, TakenIsServiced
  <2> QED  BY <2>1, <2>3, <2>4, <2>5 DEF States
<1> QED  BY <1>1, InvariantHolds, PTL

\* A circuit whose slaves are always ready takes no request over a transfer.
THEOREM ReadySlavesLoseNothing ==
  ASSUME ~WaitStates
  PROVE  Spec => []~lost
<1> DEFINE Ready == PREADY = TRUE /\ lost = FALSE
<1>1. Init => Ready
  BY DEF Init
<1>2. Ready /\ [Next]_vars => Ready'
  <2>1. ASSUME Ready, Edge PROVE Ready'
    BY <2>1 DEF Edge, History, TakenOver, waiting
  <2> QED  BY <2>1 DEF Next, WriteRatio, vars
<1>3. Ready => ~lost
  OBVIOUS
<1> HIDE DEF Ready
<1> QED  BY <1>1, <1>2, <1>3, PTL DEF Spec

-----------------------------------------------------------------------------
(* The ratio.  The preferred kind is called own, and the one that must not  *)
(* be starved other.                                                         *)

OwnSetup == IF ratio.writes THEN "WSETUP" ELSE "RSETUP"
OwnActive == IF ratio.writes THEN "WACTIVE" ELSE "RACTIVE"
OtherSetup == IF ratio.writes THEN "RSETUP" ELSE "WSETUP"
OtherActive == IF ratio.writes THEN "RACTIVE" ELSE "WACTIVE"
own_en == IF ratio.writes THEN wr_en ELSE rd_en
other_en == IF ratio.writes THEN rd_en ELSE wr_en
other_avail == IF ratio.writes THEN r_avail ELSE wr_avail

\* The transfer that starts, if one does, is the request just taken.
SameKind ==
  /\ arb = "RACTIVE" => cstate # "WSETUP"
  /\ arb = "WACTIVE" => cstate # "RSETUP"

\* cmd_cnt follows the requests taken in a row, two behind at most: the one taken in the
\* last cycle and the one taken from IDLE, or at the end of a transfer of the other kind
\* that a request was taken over.
Counted == ratio.count > 1 /\ passed <= cmd_cnt + 2

\* How many of the preferred kind may have been taken in a row, wherever the two machines
\* are: more than one only if cmd_cnt has not gone past the register.
InTurn ==
  /\ arb = "IDLE" => passed = 0 \/ (ratio.count > 1 /\ passed = 1 /\ cstate = OwnActive)
  /\ arb = OwnActive =>
       /\ passed <= 1 \/ (Counted /\ cmd_cnt <= ratio.count /\ cstate # OtherActive)
       /\ cstate = OwnSetup \/ passed = 0 \/ cmd_cnt = 0
  /\ arb = OwnSetup =>
       \/ passed = 0
       \/ cstate = OwnActive /\ Counted /\ cmd_cnt < ratio.count
       \/ cstate = OtherActive /\ ratio.count > 1 /\ passed <= 1 /\ cmd_cnt < ratio.count
       \/ cstate = "IDLE" /\ passed <= Limit + 2
  /\ arb = OtherSetup => passed <= Limit + 2
  /\ arb = OtherActive => passed = 0

\* There is room for every read there is, so the arbiter's three conditions agree.
LEMMA RoomForReads ==
  ASSUME IInv
  PROVE  (r_avail <=> ra_avail) /\ (both_avail <=> r_avail /\ wr_avail)
BY DepthAssumption, ReadLimitAssumption
DEF IInv, CircuitTypes, Reads, OnTheBus, r_avail, ra_avail, rd_avail, both_avail

\* The arbiter goes to the active state of the kind it takes.
LEMMA TakesKind ==
  ASSUME IInv
  PROVE  (ArbNext = "RACTIVE" <=> rd_en) /\ (ArbNext = "WACTIVE" <=> wr_en)
<1>1. CASE arb = "IDLE"
  BY <1>1, RoomForReads DEF ArbNext, FromIdle, rd_en, wr_en
<1>2. CASE arb \in {"RSETUP", "WSETUP"}
  BY <1>2 DEF ArbNext, rd_en, wr_en
<1>3. CASE arb \in {"RACTIVE", "WACTIVE"}
  BY <1>3, Chooses DEF rd_en, wr_en
<1> QED  BY <1>1, <1>2, <1>3 DEF IInv, CircuitTypes, States

\* What an edge does, in terms of the two kinds: the requests and the arbiter.
LEMMA EdgeByKind ==
  ASSUME IInv, SameKind, Edge
  PROVE  /\ passed' = IF other_en \/ ~other_avail THEN 0
                      ELSE IF own_en THEN OneMore ELSE passed
         /\ (arb' = OwnActive <=> own_en) /\ (arb' = OtherActive <=> other_en)
         /\ own_en => arb = "IDLE" \/ (arb = OwnSetup /\ done)
         /\ arb = OwnSetup => arb' = IF done THEN OwnActive ELSE OwnSetup
         /\ arb = OtherSetup => arb' = IF done THEN OtherActive ELSE OtherSetup
         /\ arb = "IDLE" => arb' \in {"IDLE", OwnActive, OtherActive}
         /\ arb' = "IDLE" /\ arb = "IDLE" => ~other_avail
         /\ arb = OwnActive /\ other_avail =>
              \/ arb' = OtherSetup
              \/ ratio.count > 1 /\ cmd_cnt < ratio.count /\ arb' = OwnSetup
              \/ ratio.count > 1 /\ cmd_cnt > ratio.count /\ arb' = "IDLE"
<1>1. /\ arb' = ArbNext /\ passed' = PassedNext
      /\ ratio \in Ratio /\ arb \in States /\ cmd_cnt \in 0..3
  BY RatiosAssumption DEF Edge, History, IInv, CircuitTypes
<1>2. passed' = IF other_en \/ ~other_avail THEN 0
                ELSE IF own_en THEN OneMore ELSE passed
  BY <1>1 DEF PassedNext, own_en, other_en, other_avail
<1>3. /\ arb' = OwnActive <=> own_en
      /\ arb' = OtherActive <=> other_en
  BY <1>1, TakesKind DEF OwnActive, OtherActive, own_en, other_en
<1>4. own_en => arb = "IDLE" \/ (arb = OwnSetup /\ done)
  BY DEF OwnSetup, own_en, rd_en, wr_en
<1>5. /\ arb = OwnSetup => arb' = IF done THEN OwnActive ELSE OwnSetup
      /\ arb = OtherSetup => arb' = IF done THEN OtherActive ELSE OtherSetup
      /\ arb = "IDLE" => arb' \in {"IDLE", OwnActive, OtherActive}
  BY <1>1, Chooses DEF OwnSetup, OtherSetup, OwnActive, OtherActive
<1>6. arb' = "IDLE" /\ arb = "IDLE" => ~other_avail
  BY <1>1, RoomForReads DEF ArbNext, FromIdle, other_avail
<1>7. ASSUME arb = OwnActive, other_avail
      PROVE  \/ arb' = OtherSetup
             \/ ratio.count > 1 /\ cmd_cnt < ratio.count /\ arb' = OwnSetup
             \/ ratio.count > 1 /\ cmd_cnt > ratio.count /\ arb' = "IDLE"
  <2>1. arb' = AfterActive /\ arb \in {"RACTIVE", "WACTIVE"} /\ ratio.count \in 0..3
    BY <1>1, <1>7 DEF ArbNext, OwnActive, Ratio
  <2>2. CASE ratio.writes
    BY <1>1, <1>7, <2>1, <2>2, RoomForReads
    DEF AfterActive, Turn, Preferred, OwnActive, OwnSetup, OtherSetup, other_avail
  <2>3. CASE ~ratio.writes
    BY <1>1, <1>7, <2>1, <2>3, RoomForReads
    DEF AfterActive, Turn, Preferred, OwnActive, OwnSetup, OtherSetup, other_avail
  <2> QED  BY <2>2, <2>3
<1> QED  BY <1>2, <1>3, <1>4, <1>5, <1>6, <1>7

\* And the master.
LEMMA MasterByKind ==
  ASSUME IInv, Edge
  PROVE  /\ cmd <=> cstate = OwnActive /\ PREADY
         /\ done <=> cstate \in {OwnActive, OtherActive} /\ PREADY
         /\ cstate = OwnSetup => cstate' = OwnActive
         /\ cstate \in {OwnActive, OtherActive} /\ ~PREADY => cstate' = cstate
         /\ cstate = "IDLE" \/ done =>
              cstate' = IF own_en THEN OwnSetup ELSE IF other_en THEN OtherSetup ELSE "IDLE"
         /\ own_en => ~other_en
<1>1. cstate' = MasterNext
  BY DEF Edge
<1>2. /\ cmd <=> cstate = OwnActive /\ PREADY
      /\ done <=> cstate \in {OwnActive, OtherActive} /\ PREADY
  BY Wires DEF cmd, done, OwnActive, OtherActive
<1>3. /\ cstate = OwnSetup => cstate' = OwnActive
      /\ cstate \in {OwnActive, OtherActive} /\ ~PREADY => cstate' = cstate
  BY <1>1, MasterMoves DEF OwnSetup, OwnActive, OtherActive
<1>4. own_en => ~other_en
  BY Wires DEF own_en, other_en
<1>5. cstate = "IDLE" \/ done =>
        cstate' = IF own_en THEN OwnSetup ELSE IF other_en THEN OtherSetup ELSE "IDLE"
  BY <1>1, <1>2, <1>4, MasterMoves
  DEF OwnSetup, OtherSetup, OwnActive, OtherActive, own_en, other_en
<1> QED  BY <1>2, <1>3, <1>4, <1>5

LEMMA SameKindFollows ==
  ASSUME IInv, Edge
  PROVE  SameKind'
<1>1. arb' = ArbNext /\ cstate' = MasterNext
  BY DEF Edge
<1>2. ASSUME arb' = "RACTIVE" PROVE cstate' # "WSETUP"
  BY <1>1, <1>2, TakesKind, Wires, MasterMoves
<1>3. ASSUME arb' = "WACTIVE" PROVE cstate' # "RSETUP"
  BY <1>1, <1>3, TakesKind, Wires, MasterMoves
<1> QED  BY <1>2, <1>3 DEF SameKind

LEMMA InTurnFollows ==
  ASSUME IInv, SameKind, InTurn, Edge
  PROVE  InTurn'
<1>1. /\ cmd_cnt' = CmdCount /\ ratio' = ratio
      /\ arb \in States /\ arb' \in States /\ cstate \in States /\ cmd_cnt \in 0..3
      /\ ratio \in Ratio /\ passed \in 0..PassedBound
  BY Chooses, RatiosAssumption DEF Edge, IInv, CircuitTypes
<1>2. /\ UNCHANGED <<OwnSetup, OwnActive, OtherSetup, OtherActive, Limit>>
      /\ ratio.count \in 0..3 /\ Limit \in 1..3 /\ (ratio.count > 1 => Limit = ratio.count)
      /\ OneMore <= passed + 1 /\ OneMore \in Nat /\ passed \in Nat
      /\ States = {"IDLE", OwnSetup, OwnActive, OtherSetup, OtherActive}
  BY <1>1 DEF OwnSetup, OwnActive, OtherSetup, OtherActive, Limit, Ratio, OneMore,
              States, PassedBound
<1>3. /\ OwnSetup \notin {OwnActive, OtherSetup, OtherActive, "IDLE"}
      /\ OwnActive \notin {OtherSetup, OtherActive, "IDLE"}
      /\ OtherSetup \notin {OtherActive, "IDLE"} /\ OtherActive # "IDLE"
  BY DEF OwnSetup, OwnActive, OtherSetup, OtherActive
<1>4. cmd_cnt' \in 0..3 /\ passed' \in Nat /\ passed' <= passed + 1
  BY <1>1, <1>2, EdgeByKind DEF CmdCount
<1>5. \* The arbiter leaves OwnActive with the master in step or in an access phase.
      arb = OwnActive => cstate \in {OwnSetup, OwnActive, OtherActive}
  BY DEF IInv, InStep, SameKind, OwnActive, OwnSetup, OtherActive
<1>6. arb' = OtherActive => passed' = 0
  BY EdgeByKind
<1>7. ASSUME arb' = "IDLE"
      PROVE  passed' = 0 \/ (ratio.count > 1 /\ passed' = 1 /\ cstate' = OwnActive)
  <2>1. ~own_en /\ ~other_en
    BY <1>3, <1>7, EdgeByKind
  <2>2. arb \in {"IDLE", OwnActive, OtherActive}
    BY <1>1, <1>2, <1>3, <1>7, EdgeByKind
  <2>3. passed' = IF other_avail THEN passed ELSE 0
    BY <2>1, EdgeByKind
  <2>4. CASE arb = OwnActive /\ other_avail
    <3>1. ratio.count > 1 /\ cmd_cnt > ratio.count
      BY <1>3, <1>7, <2>4, EdgeByKind
    <3>2. passed <= 1 /\ (cstate = OwnSetup \/ passed = 0)
      BY <1>1, <1>2, <2>4, <3>1 DEF InTurn
    <3> QED  BY <1>2, <2>3, <2>4, <3>1, <3>2, MasterByKind
  <2>5. CASE arb = OtherActive
    BY <2>3, <2>5 DEF InTurn
  <2> QED  BY <1>7, <2>2, <2>3, <2>4, <2>5, EdgeByKind
<1>8. ASSUME arb' = OwnActive
      PROVE  /\ \/ passed' <= 1
                \/ /\ ratio.count > 1 /\ passed' <= cmd_cnt' + 2
                   /\ cmd_cnt' <= ratio.count /\ cstate' # OtherActive
             /\ cstate' = OwnSetup \/ passed' = 0 \/ cmd_cnt' = 0
  <2>1. own_en /\ ~other_en /\ (arb = "IDLE" \/ (arb = OwnSetup /\ done))
    BY <1>8, EdgeByKind, MasterByKind
  <2>2. CASE arb = "IDLE"
    <3>1. cmd_cnt' = 0
      BY <1>1, <2>2 DEF CmdCount
    <3>2. CASE passed = 0
      BY <1>4, <3>1, <3>2
    <3>3. CASE ratio.count > 1 /\ passed = 1 /\ cstate = OwnActive
      <4>1. cstate' \in {OwnActive, OwnSetup}
        BY <2>1, <3>3, MasterByKind
      <4> QED  BY <1>2, <1>3, <1>4, <3>1, <3>3, <4>1
    <3> QED  BY <2>2, <3>2, <3>3 DEF InTurn
  <2>3. CASE arb = OwnSetup /\ done
    <3>1. cstate' = OwnSetup /\ cstate \in {OwnActive, OtherActive}
      BY <2>1, <2>3, MasterByKind
    <3>2. CASE passed = 0
      <4>1. passed' <= 1
        BY <1>4, <3>2
      <4> QED  BY <3>1, <4>1
    <3>3. CASE cstate = OwnActive /\ Counted /\ cmd_cnt < ratio.count
      <4>1. cmd
        BY <2>3, <3>3, MasterByKind
      <4>2. cmd_cnt' = cmd_cnt + 1
        BY <1>1, <1>2, <1>3, <2>3, <3>3, <4>1 DEF CmdCount, Counted
      <4> QED  BY <1>1, <1>2, <1>3, <1>4, <3>1, <3>3, <4>2 DEF Counted
    <3>4. CASE cstate = OtherActive /\ ratio.count > 1 /\ passed <= 1 /\ cmd_cnt < ratio.count
      <4>1. ~cmd
        BY <1>3, <3>4, MasterByKind
      <4>2. cmd_cnt' = cmd_cnt
        BY <1>1, <1>2, <1>3, <2>3, <3>4, <4>1 DEF CmdCount
      <4> QED  BY <1>1, <1>2, <1>3, <1>4, <3>1, <3>4, <4>2
    <3> QED  BY <1>3, <2>3, <3>1, <3>2, <3>3, <3>4 DEF InTurn
  <2> QED  BY <2>1, <2>2, <2>3
<1>9. ASSUME arb' = OwnSetup
      PROVE  \/ passed' = 0
             \/ /\ cstate' = OwnActive /\ ratio.count > 1 /\ passed' <= cmd_cnt' + 2
                /\ cmd_cnt' < ratio.count
             \/ /\ cstate' = OtherActive /\ ratio.count > 1 /\ passed' <= 1
                /\ cmd_cnt' < ratio.count
             \/ cstate' = "IDLE" /\ passed' <= Limit + 2
  <2>1. ~own_en /\ ~other_en
    BY <1>3, <1>9, EdgeByKind
  <2>2. passed' = IF other_avail THEN passed ELSE 0
    BY <2>1, EdgeByKind
  <2>3. /\ arb # "IDLE"
        /\ arb = OwnSetup => ~done
        /\ arb # OtherSetup
    BY <1>3, <1>9, EdgeByKind
  <2>4. ~cmd => cmd_cnt' = cmd_cnt \/ ratio.count <= 1 \/ cmd_cnt = ratio.count
    BY <1>1, <2>3 DEF CmdCount
  <2>5. CASE arb = OwnSetup /\ passed # 0
    <3>1. ~done /\ ~cmd
      BY <2>3, <2>5, MasterByKind
    <3>2. cstate \in {OwnActive, OtherActive, "IDLE"} => cstate' = cstate
      BY <2>1, <3>1, MasterByKind
    <3> QED  BY <1>1, <1>2, <1>3, <2>2, <2>4, <2>5, <3>1, <3>2 DEF InTurn, Counted
  <2>6. CASE arb = OwnActive /\ other_avail
    <3>1. ratio.count > 1 /\ cmd_cnt < ratio.count
      BY <1>3, <1>9, <2>6, EdgeByKind
    <3>2. passed <= cmd_cnt + 2 /\ (cstate = OtherActive => passed <= 1)
      BY <1>1, <1>2, <2>6 DEF InTurn, Counted
    <3>3. CASE cmd
      <4>1. cstate' = "IDLE"
        BY <2>1, <3>3, MasterByKind
      <4> QED  BY <1>1, <1>2, <2>2, <2>6, <3>1, <3>2, <4>1
    <3>4. CASE ~cmd
      <4>1. cmd_cnt' = cmd_cnt
        BY <1>1, <1>2, <2>4, <3>1, <3>4
      <4>2. \/ cstate' = OwnActive
            \/ cstate' = OtherActive /\ cstate = OtherActive
            \/ cstate' = "IDLE"
        BY <1>5, <2>1, <2>6, MasterByKind
      <4> QED  BY <1>1, <1>2, <2>2, <2>6, <3>1, <3>2, <4>1, <4>2
    <3> QED  BY <3>3, <3>4
  <2>7. CASE arb = OtherActive \/ ~other_avail
    BY <2>2, <2>7 DEF InTurn
  <2>8. CASE passed = 0
    BY <2>2, <2>8
  <2> QED  BY <1>1, <1>2, <2>3, <2>5, <2>6, <2>7, <2>8
<1>10. ASSUME arb' = OtherSetup PROVE passed' <= Limit + 2
  <2>1. arb \in {OwnActive, OtherActive, OtherSetup} /\ ~own_en /\ ~other_en
    BY <1>1, <1>2, <1>3, <1>10, EdgeByKind
  <2>2. passed' \in {0, passed}
    BY <2>1, EdgeByKind
  <2>3. passed <= Limit + 2
    BY <1>1, <1>2, <1>3, <2>1 DEF InTurn, Counted
  <2> QED  BY <1>2, <2>2, <2>3
<1>11. InTurn'
  BY <1>1, <1>2, <1>6, <1>7, <1>8, <1>9, <1>10 DEF InTurn, Counted
<1> QED  BY <1>11

LEMMA InTurnHolds ==
  ASSUME IInv, SameKind, InTurn, [Next]_vars
  PROVE  SameKind' /\ InTurn'
<1>1. CASE Edge
  BY <1>1, InTurnFollows, SameKindFollows
<1>2. CASE WriteRatio
  <2>1. /\ passed' = 0 /\ UNCHANGED <<arb, cstate, cmd_cnt>>
        /\ ratio' \in Ratio
    BY <1>2, RatiosAssumption DEF WriteRatio, machineVars
  <2>2. Limit' + 2 >= 0
    BY <2>1 DEF Limit, Ratio
  <2> QED  BY <2>1, <2>2 DEF SameKind, InTurn
<1>3. CASE UNCHANGED vars
  BY <1>3 DEF vars, machineVars, SameKind, InTurn, Counted, OwnSetup, OwnActive,
              OtherSetup, OtherActive, Limit
<1> QED  BY <1>1, <1>2, <1>3 DEF Next

\* Whatever is in the FIFOs and however often the register is written, the
\* preferred kind does not starve the other: while there are requests of both
\* kinds, no more of it are taken in a row than the register says, and two.
THEOREM RatioIsKept == Spec => []RatioKept
<1>1. Init => SameKind /\ InTurn
  BY DEF Init, SameKind, InTurn, OwnSetup, OwnActive, OtherSetup, OtherActive
<1>2. IInv /\ InTurn => RatioKept
  <2> SUFFICES ASSUME IInv, InTurn PROVE passed <= Limit + 2
    BY DEF RatioKept
  <2>1. /\ arb \in States /\ cmd_cnt \in 0..3 /\ passed \in Nat /\ ratio \in Ratio
    BY RatiosAssumption DEF IInv, CircuitTypes, PassedBound
  <2>2. /\ arb \in {"IDLE", OwnSetup, OwnActive, OtherSetup, OtherActive}
        /\ Limit \in 1..3 /\ (ratio.count > 1 => Limit = ratio.count)
        /\ ratio.count \in 0..3
    BY <2>1 DEF States, OwnSetup, OwnActive, OtherSetup, OtherActive, Limit, Ratio
  <2> QED  BY <2>1, <2>2 DEF InTurn, Counted
<1>3. IInv /\ SameKind /\ InTurn /\ [Next]_vars => SameKind' /\ InTurn'
  BY InTurnHolds
<1> QED  BY <1>1, <1>2, <1>3, InvariantHolds, PTL DEF Spec
=============================================================================
