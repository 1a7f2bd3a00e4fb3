------------------------------ MODULE MCDpFifo ------------------------------
(***************************************************************************)
(* A finite instance of DpFifo, with the codes of the code.                *)
(***************************************************************************)
EXTENDS DpFifo, GrayCode

AW == 2
MCDepth == Powers(AW)[AW]

MCGray == [p \in 0..(2 * MCDepth - 1) |-> GrayOf(AW, p)]
MCBinary == [g \in SUBSET (0..AW) |-> BinaryOf(AW, g)]
=============================================================================
