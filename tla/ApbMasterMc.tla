----------------------------- MODULE ApbMasterMc -----------------------------
(***************************************************************************)
(* The APB side of the AXI4-Lite to APB4 bridge when it has a clock of its *)
(* own: the master apb_master_mc.v and the arbiter apb_access_arb.v, which *)
(* takes the requests out of the FIFOs for it.  Two machines run in step on*)
(* PCLK: the arbiter decides what is next while the master has a transfer  *)
(* on the bus, and takes it from its FIFO when that transfer ends.         *)
(*                                                                         *)
(* A FIFO is what its APB side sees of it: so many requests, or so much    *)
(* room for read data.  The other side adds to it between two edges.       *)
(***************************************************************************)
EXTENDS Integers, Sequences

CONSTANTS
  Depth,      (* Words in a FIFO.                                            *)
  Ratios,     (* The values of the register access_ratio considered.         *)
  WaitStates, (* TRUE: an APB slave may keep PREADY low; FALSE: none does.   *)
  ReadLimit   (* Reads the AXI master may have outstanding.                  *)

\* The bits of access_ratio: [2], which kind is preferred, and [1:0].
Ratio == [writes : BOOLEAN, count : 0..3]

\* Nothing keeps room for the data of a read that is on its way, so the AXI master
\* must not ask for more than the FIFO of read data holds.
ASSUME DepthAssumption == Depth \in Nat \ {0}
ASSUME RatiosAssumption == Ratios \subseteq Ratio
ASSUME WaitStatesAssumption == WaitStates \in BOOLEAN
ASSUME ReadLimitAssumption == ReadLimit \in 0..Depth

VARIABLES
  ratio,      (* access_ratio.                                               *)
  arb,        (* The arbiter's cstate.                                       *)
  cmd_cnt,
  cstate,     (* The master's.                                               *)
  ra, wa, wd, (* Read addresses, write addresses and write data to be taken. *)
  room,       (* The room for read data.                                     *)
  PREADY,     (* What the slave drives for the coming edge.                  *)
  popped,     (* History: the requests taken and not done, oldest first, but *)
              (* for those taken over a transfer.                            *)
  lost,       (* History: whether a request was taken over a transfer.       *)
  passed      (* History: requests of the preferred kind taken in a row while*)
              (* there was one of the other kind.                            *)

fifoVars == <<ra, wa, wd, room>>
machineVars == <<arb, cmd_cnt, cstate>>
vars == <<ratio, machineVars, fifoVars, PREADY, popped, lost, passed>>

States == {"IDLE", "RSETUP", "RACTIVE", "WSETUP", "WACTIVE"}

Init ==
  /\ ratio \in Ratios
  /\ arb = "IDLE" /\ cmd_cnt = 0 /\ cstate = "IDLE"
  /\ ra = 0 /\ wa = 0 /\ wd = 0 /\ room = Depth
  /\ PREADY \in (IF WaitStates THEN BOOLEAN ELSE {TRUE})
  /\ popped = <<>> /\ lost = FALSE /\ passed = 0

-----------------------------------------------------------------------------
(* The master's wires.                                                       *)

PSELx == cstate # "IDLE"
PWRITE == cstate \in {"WSETUP", "WACTIVE"}
PENABLE == cstate \in {"WACTIVE", "RACTIVE"}
apb_rd == PSELx /\ PENABLE /\ ~PWRITE /\ PREADY
apb_wr == PSELx /\ PENABLE /\ PWRITE /\ PREADY
done == apb_rd \/ apb_wr
waiting == PENABLE /\ ~PREADY

-----------------------------------------------------------------------------
(* The arbiter.                                                              *)

ra_avail == ra > 0
rd_avail == room > 0
wr_avail == wa > 0 /\ wd > 0
r_avail == ra_avail /\ rd_avail

\* (Bug variant, not the code: | for &.)
EitherAvail == ra_avail \/ wr_avail

both_avail == ra_avail /\ wr_avail

\* (Bug variant, not the code: the count is never looked at.)
TurnOfOne == ratio.count <= 1

\* The preferred kind has had its number: one, or what cmd_cnt has come to.
Turn == ratio.count <= 1 \/ cmd_cnt = ratio.count

\* With requests of both kinds, the preferred one goes on until it has had its
\* turn.  If the register was written meanwhile, cmd_cnt may have passed it.
Preferred(setup) == IF cmd_cnt <= ratio.count THEN setup ELSE "IDLE"

\* What comes after the request just taken.
AfterActive ==
  CASE r_avail /\ ~wr_avail -> "RSETUP"
    [] ~r_avail /\ wr_avail -> "WSETUP"
    [] both_avail /\ arb = "RACTIVE" ->
         IF ratio.writes \/ Turn THEN "WSETUP" ELSE Preferred("RSETUP")
    [] both_avail /\ arb = "WACTIVE" ->
         IF ~ratio.writes \/ Turn THEN "RSETUP" ELSE Preferred("WSETUP")
    [] OTHER -> "IDLE"

FromIdle ==
  CASE r_avail /\ ~wr_avail -> "RACTIVE"
    [] ~r_avail /\ wr_avail -> "WACTIVE"
    [] both_avail -> IF ratio.writes THEN "WACTIVE" ELSE "RACTIVE"
    [] OTHER -> "IDLE"

ArbNext ==
  CASE arb = "IDLE" -> FromIdle
    [] arb = "RSETUP" -> IF done THEN "RACTIVE" ELSE "RSETUP"
    [] arb = "WSETUP" -> IF done THEN "WACTIVE" ELSE "WSETUP"
    [] arb \in {"RACTIVE", "WACTIVE"} -> AfterActive

\* The request that is taken at this edge.
rd_en ==
  \/ arb = "IDLE" /\ ((r_avail /\ ~wr_avail) \/ (~ratio.writes /\ both_avail))
  \/ arb = "RSETUP" /\ done

wr_en ==
  \/ arb = "IDLE" /\ ((~ra_avail /\ wr_avail) \/ (ratio.writes /\ both_avail))
  \/ arb = "WSETUP" /\ done

cmd == IF ratio.writes THEN apb_wr ELSE apb_rd

\* (Bug variant, not the code: the count stays.)
CountStays == IF arb = "IDLE" \/ ratio.count <= 1 THEN 0 ELSE cmd_cnt

\* cmd_cnt has two bits.
CmdCount ==
  IF arb = "IDLE" \/ ratio.count <= 1 \/ cmd_cnt = ratio.count THEN 0
  ELSE IF cmd THEN (cmd_cnt + 1) % 4
  ELSE cmd_cnt

-----------------------------------------------------------------------------
(* The master.                                                               *)

\* (Bug variant, not the code: a write never follows a read at once.)
OnlyARead == IF rd_en THEN "RSETUP" ELSE "IDLE"

AfterWrite == IF wr_en THEN "WSETUP" ELSE IF rd_en THEN "RSETUP" ELSE "IDLE"
AfterRead == IF rd_en THEN "RSETUP" ELSE IF wr_en THEN "WSETUP" ELSE "IDLE"

MasterNext ==
  CASE cstate = "IDLE" -> AfterWrite
    [] cstate = "WSETUP" -> "WACTIVE"
    [] cstate = "RSETUP" -> "RACTIVE"
    [] cstate = "WACTIVE" -> IF PREADY THEN AfterWrite ELSE "WACTIVE"
    [] cstate = "RACTIVE" -> IF PREADY THEN AfterRead ELSE "RACTIVE"

-----------------------------------------------------------------------------
(* An edge of PCLK.                                                          *)

Minus(n, taken) == IF taken THEN n - 1 ELSE n

\* The FIFOs: what the APB side does to them at the edge, and any number of requests
\* put in or data taken out by the AXI side that it comes to see.
Fifos ==
  /\ ra' \in Minus(ra, rd_en)..Depth
  /\ wa' \in Minus(wa, wr_en)..Depth
  /\ wd' \in Minus(wd, wr_en)..Depth
  /\ room' \in Minus(room, apb_rd)..Depth

\* Reads the AXI master has asked for and not been given the data of.  (One that was
\* taken over a transfer is not counted, which only lets the master ask for more.)
OnTheBus == IF cstate \in {"RSETUP", "RACTIVE"} THEN 1 ELSE 0
Reads == ra + OnTheBus + (Depth - room)

TakenNow == (IF rd_en THEN <<"read">> ELSE <<>>) \o (IF wr_en THEN <<"write">> ELSE <<>>)

\* The history stops counting past what every ratio allows.
PassedBound == 6
OneMore == IF passed < PassedBound THEN passed + 1 ELSE passed

PassedNext ==
  IF ratio.writes
  THEN IF rd_en \/ ~r_avail THEN 0 ELSE IF wr_en THEN OneMore ELSE passed
  ELSE IF wr_en \/ ~wr_avail THEN 0 ELSE IF rd_en THEN OneMore ELSE passed

\* In IDLE the arbiter takes a request whether the master can start it or not.
TakenOver == arb = "IDLE" /\ waiting /\ (rd_en \/ wr_en)

History ==
  /\ popped' = (IF done /\ popped # <<>> THEN Tail(popped) ELSE popped)
                 \o (IF TakenOver THEN <<>> ELSE TakenNow)
  /\ lost' = (lost \/ TakenOver)
  /\ passed' = PassedNext

Edge ==
  /\ arb' = ArbNext /\ cmd_cnt' = CmdCount
  /\ cstate' = MasterNext
  /\ Fifos /\ Reads' <= ReadLimit
  /\ PREADY' \in (IF WaitStates THEN BOOLEAN ELSE {TRUE})
  /\ History
  /\ UNCHANGED ratio

\* The register is written, over the configuration bus, at any time.
WriteRatio ==
  /\ ratio' \in Ratios \ {ratio}
  /\ passed' = 0
  /\ UNCHANGED <<machineVars, fifoVars, PREADY, popped, lost>>

Next == Edge \/ WriteRatio

Spec == Init /\ [][Next]_vars /\ WF_vars(Edge)
-----------------------------------------------------------------------------
(* Properties.                                                               *)

TypeOK ==
  /\ ratio \in Ratios
  /\ arb \in States /\ cstate \in States
  /\ cmd_cnt \in 0..3
  /\ ra \in 0..Depth /\ wa \in 0..Depth /\ wd \in 0..Depth
  /\ room \in 0..Depth
  /\ PREADY \in BOOLEAN
  /\ popped \in Seq({"read", "write"}) /\ lost \in BOOLEAN /\ passed \in 0..PassedBound

\* A request is taken from a FIFO only if there is one: what the arbiter chose
\* when it saw it is still there when the transfer before it has ended.
TakenIsThere == (rd_en => ra_avail) /\ (wr_en => wr_avail)

\* Each request that is taken is the transfer on the bus until it is done, alone, but for
\* those that the idle arbiter takes over a transfer whose slave keeps it waiting: of
\* these none gets a transfer.  Until there was one, the arbiter never waits for the end
\* of a transfer that is not there; after one it may, for ever.
TakenIsServiced ==
  /\ Len(popped) <= 1
  /\ popped = <<"read">> <=> cstate \in {"RSETUP", "RACTIVE"}
  /\ popped = <<"write">> <=> cstate \in {"WSETUP", "WACTIVE"}
  /\ arb \in {"RSETUP", "WSETUP"} /\ cstate = "IDLE" => lost

\* While there are requests of both kinds, no more of the preferred one are taken in
\* a row than the register says, and two: the one taken from IDLE, which is not
\* counted, and one that had been chosen when the register was written.
Limit == IF ratio.count <= 1 THEN 1 ELSE ratio.count
RatioKept == passed <= Limit + 2

\* Writes and reads are taken in the end, whatever is preferred and however long each
\* transfer takes, once the register is left alone (written again and again it can hold
\* up one kind for ever), if no request was taken over a transfer.
RatioSettles == <>[][ratio' = ratio]_ratio
SlavesAnswer == PENABLE ~> PREADY
RequestsServed ==
  RatioSettles /\ SlavesAnswer /\ []~lost =>
    (wr_avail ~> cstate = "WSETUP") /\ (r_avail ~> cstate = "RSETUP")
=============================================================================
