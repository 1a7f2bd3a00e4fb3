---------------------------- MODULE MCUvmcTlm2 -----------------------------
EXTENDS UvmcTlm2

CONSTANTS b1, b2

MCBytes == {b1, b2}

Payload(cmd, data, be) ==
  [cmd |-> cmd, data |-> data, be |-> be, status |-> "incomplete"]

\* Two writes, one with byte enables and more than one byte, a read, and a payload
\* that gives a length and no array.
MCPayloads ==
  {Payload("write", Own(<<b1>>), NoArray),
   Payload("write", Own(<<b2, b1>>), Own(<<b1>>)),
   Payload("read", Own(<<b1>>), NoArray),
   Payload("ignore", [ptr |-> "null", bytes |-> <<b2>>], NoArray)}

\* A write of one byte, with an array anywhere in memory.
MCGarbage == {Payload("write", [ptr |-> "wild", bytes |-> <<b2>>], NoArray)}

MCLatency == [cmd \in Commands |-> IF cmd = "read" THEN 2 ELSE 1]
=============================================================================
