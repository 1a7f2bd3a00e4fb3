--------------------------- MODULE GenericPayload ---------------------------
(***************************************************************************)
(* tlm_generic_payload and its converter, uvmc_converter of uvmc_convert.h:*)
(* the payload as packed for the other side, and what unpacking does to a  *)
(* payload that exists already.  xl_uvmc_converter sends a pointer to the  *)
(* bytes and copies them when it unpacks, which is the same here: whoever  *)
(* has packed a payload does not touch it before it has been unpacked.     *)
(*                                                                         *)
(* An array of a payload is a pointer and the bytes it points at; the      *)
(* length the payload gives is the number of bytes.  Of the pointer it     *)
(* matters whether it is NULL, the array its user gave, one that do_unpack *)
(* allocated, or never assigned.  Address and streaming width, which are   *)
(* sent like the command, are left out.                                    *)
(***************************************************************************)
EXTENDS Naturals, Sequences

CONSTANT Bytes

Commands == {"read", "write", "ignore"}
Statuses == {"incomplete", "ok"}
Pointers == {"null", "own", "new", "wild"}

NoArray == [ptr |-> "null", bytes |-> <<>>]
Own(bytes) == [ptr |-> "own", bytes |-> bytes]

\* A payload just constructed.
FreshPayload ==
  [cmd |-> "ignore", data |-> NoArray, be |-> NoArray, status |-> "incomplete"]

Arrays == [ptr : Pointers, bytes : Seq(Bytes)]

GenericPayloads == [cmd : Commands, data : Arrays, be : Arrays, status : Statuses]

\* A length without an array is sent as no bytes.
Sent(a) == IF a.ptr = "null" THEN <<>> ELSE a.bytes

\* The fields in the order of do_pack.
Pack(p) ==
  <<p.cmd, Len(Sent(p.data))>> \o Sent(p.data)
    \o <<p.status, Len(Sent(p.be))>> \o Sent(p.be)

\* (Bug variant, not the code: a new array, whatever is there.)
AlwaysAllocated(a, n) == IF n > 0 THEN "new" ELSE a.ptr

\* The array do_unpack uses for n bytes: the present one when they fit, a new one
\* otherwise.  No bytes and no array leave the local pointer unassigned.
ArrayFor(a, n) ==
  IF a.ptr # "null" THEN (IF n > Len(a.bytes) THEN "new" ELSE a.ptr)
  ELSE IF n > 0 THEN "new"
  ELSE "wild"

UnpackArray(a, bytes) == [ptr |-> ArrayFor(a, Len(bytes)), bytes |-> bytes]

\* The place of the last byte of the data in the packed fields.
DataEnd(bits) == 2 + bits[2]

\* do_unpack into the payload p.
Unpack(p, bits) ==
  LET e == DataEnd(bits)
  IN [cmd |-> bits[1],
      data |-> UnpackArray(p.data, SubSeq(bits, 3, e)),
      be |-> UnpackArray(p.be, SubSeq(bits, e + 3, e + 2 + bits[e + 2])),
      status |-> bits[e + 1]]

\* What a user of the payload can read of it.
View(p) ==
  [cmd |-> p.cmd, data |-> Sent(p.data), be |-> Sent(p.be), status |-> p.status]
=============================================================================
