----------------------------- MODULE Tlm1Target -----------------------------
(***************************************************************************)
(* The object a TLM1 proxy of UVM Connect finally calls: the implementation*)
(* bound to a port on the other side of the language boundary.  It is user *)
(* code; what the proxies assume of it is the meaning of the TLM1 methods. *)
(* It takes what is put into a bounded box, hands out what waits in another*)
(* one, and answers a transport by itself.                                 *)
(***************************************************************************)
EXTENDS Naturals, Sequences

CONSTANTS
  Values,   (* The transactions.                                             *)
  NoValue,  (* The answer of a method that returns no transaction.           *)
  Capacity, (* How many transactions a box of the object holds.              *)
  Reply     (* Reply[v]: the response to a transport of v.                   *)

ASSUME NoValueAssumption == NoValue \notin Values
ASSUME CapacityAssumption == Capacity \in Nat \ {0}
ASSUME ReplyAssumption == Reply \in [Values -> Values]

VARIABLES
  inbox,    (* What was put and the object has not consumed yet.             *)
  outbox    (* What the object has produced and nobody got yet.              *)

boxes == <<inbox, outbox>>

Blocking == {"put", "get", "peek", "transport"}
\* The methods that also exist in a form that does not block (nb_put, try_put).
NonBlocking == {"put", "get", "peek"}
\* The methods that send a transaction, and those that return one.
Sends == {"put", "transport"}
Returns == {"get", "peek", "transport"}

\* What method o may be called with.
Arguments(o) == IF o \in Sends THEN Values ELSE {NoValue}

BoxesOK ==
  /\ inbox \in Seq(Values) /\ Len(inbox) <= Capacity
  /\ outbox \in Seq(Values) /\ Len(outbox) <= Capacity

BoxesInit == inbox = <<>> /\ outbox = <<>>

CanPerform(o) ==
  CASE o = "put" -> Len(inbox) < Capacity
    [] o \in {"get", "peek"} -> outbox # <<>>
    [] OTHER -> TRUE

Answer(o, v) ==
  CASE o \in {"get", "peek"} -> Head(outbox)
    [] o = "transport" -> Reply[v]
    [] OTHER -> NoValue

\* The object performs method o with the transaction v.
Perform(o, v) ==
  /\ CanPerform(o)
  /\ inbox' = IF o = "put" THEN Append(inbox, v) ELSE inbox
  /\ outbox' = IF o = "get" THEN Tail(outbox) ELSE outbox

\* The object's own process works off one box and fills the other.
Produce(v) ==
  /\ Len(outbox) < Capacity
  /\ outbox' = Append(outbox, v)
  /\ UNCHANGED inbox

Consume ==
  /\ inbox # <<>>
  /\ inbox' = Tail(inbox)
  /\ UNCHANGED outbox

Work == Consume \/ \E v \in Values : Produce(v)
=============================================================================
