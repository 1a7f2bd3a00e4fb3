---------------------------- MODULE RemoteObject ----------------------------
(***************************************************************************)
(* What a TLM1 proxy promises its clients: the object on the other side    *)
(* behaves as if it were here.  Every blocking call takes effect on the    *)
(* object exactly once, with its own transaction, between the call and the *)
(* return, and returns the answer of that effect.  A call that must not    *)
(* block is refused only when the object would block, when another call is *)
(* under way, or when the proxy is not connected.                          *)
(***************************************************************************)
EXTENDS Tlm1Target

CONSTANTS
  Clients,  (* The processes that call through the proxy.                    *)
  Refused   (* What a refused call returns.                                  *)

VARIABLES
  open,     (* The proxy is connected.                                       *)
  call,     (* Where the call of each client is.                             *)
  op, arg,  (* Its method and its transaction, while it lasts.               *)
  res       (* What the last call of each client returned.                   *)

absVars == <<boxes, open, call, op, arg, res>>

Results == Values \cup {NoValue, Refused}

Init ==
  /\ BoxesInit
  /\ open \in BOOLEAN
  /\ call = [c \in Clients |-> "idle"]
  /\ op = [c \in Clients |-> "none"]
  /\ arg = [c \in Clients |-> NoValue]
  /\ res = [c \in Clients |-> NoValue]

Open ==
  /\ open' = TRUE
  /\ UNCHANGED <<boxes, call, op, arg, res>>

Call(c, o, v) ==
  /\ call[c] = "idle"
  /\ call' = [call EXCEPT ![c] = "called"]
  /\ op' = [op EXCEPT ![c] = o]
  /\ arg' = [arg EXCEPT ![c] = v]
  /\ res' = [res EXCEPT ![c] = NoValue]
  /\ UNCHANGED <<boxes, open>>

Effect(c) ==
  /\ open
  /\ call[c] = "called"
  /\ Perform(op[c], arg[c])
  /\ call' = [call EXCEPT ![c] = "done"]
  /\ res' = [res EXCEPT ![c] = Answer(op[c], arg[c])]
  /\ UNCHANGED <<open, op, arg>>

Return(c) ==
  /\ call[c] = "done"
  /\ call' = [call EXCEPT ![c] = "idle"]
  /\ op' = [op EXCEPT ![c] = "none"]
  /\ arg' = [arg EXCEPT ![c] = NoValue]
  /\ UNCHANGED <<boxes, open, res>>

Try(c, o, v) ==
  /\ call[c] = "idle"
  /\ \/ /\ open
        /\ Perform(o, v)
        /\ res' = [res EXCEPT ![c] = Answer(o, v)]
     \/ /\ ~open \/ ~CanPerform(o) \/ \E d \in Clients : call[d] # "idle"
        /\ res' = [res EXCEPT ![c] = Refused]
        /\ UNCHANGED boxes
  /\ UNCHANGED <<open, call, op, arg>>

ObjectWorks == Work /\ UNCHANGED <<open, call, op, arg, res>>

Next ==
  \/ Open
  \/ ObjectWorks
  \/ \E c \in Clients :
       \/ \E o \in Blocking : \E v \in Arguments(o) : Call(c, o, v)
       \/ Effect(c)
       \/ Return(c)
       \/ \E o \in NonBlocking : \E v \in Arguments(o) : Try(c, o, v)

Spec == Init /\ [][Next]_absVars
=============================================================================
